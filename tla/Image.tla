------------------------------- MODULE Image -------------------------------
(***************************************************************************)
(* A FAT32 image as Fat32FileSystem keeps it (src/src/file_system.rs): the *)
(* FAT (28-bit values) and the slots of each cluster; the operators that   *)
(* the calls are made of, and what a well-formed image is.                 *)
(***************************************************************************)
EXTENDS DirEntries

CONSTANTS
    LastCluster,      \* the data clusters of the image are 2 .. LastCluster
    AllocEnd,         \* allocate_cluster looks at 2 .. AllocEnd - 1
    SlotsPerCluster,  \* 32-byte slots in a cluster
    RootCluster

Clusters == 2 .. LastCluster
SlotIdx == 1 .. SlotsPerCluster

Free == 0
EndOfChainMin == 268435448    \* 0x0FFFFFF8
EndOfChain == 268435455       \* 0x0FFFFFFF
FatValues == 0 .. EndOfChain

ASSUME SizeAssumption ==
    /\ LastCluster \in Nat /\ LastCluster < EndOfChainMin
    /\ AllocEnd \in Nat /\ AllocEnd <= LastCluster + 1
    /\ SlotsPerCluster \in Nat /\ SlotsPerCluster >= 2

-----------------------------------------------------------------------------
(* Directories *)

\* Mutant of ParentCluster: 0 is taken for a cluster number.
ParentCluster_Raw(c) == c

\* The cluster field of ".." is 0 when the parent is the root.
ParentCluster(c) == IF c = 0 THEN RootCluster ELSE c

\* Mutants of FreeSlots: the index is one too large; it takes any slot.
FreeSlots_OffByOne(slots) == {i \in SlotIdx : i > 1 /\ IsFreeSlot(slots[i - 1])}
FreeSlots_Any(slots) == SlotIdx

FreeSlots(slots) == {i \in SlotIdx : IsFreeSlot(slots[i])}

\* Mutant of init_directory_cluster: ".." of a child of the root is not 0.
init_directory_cluster_NoZero(c, parent) ==
    [i \in SlotIdx |->
        CASE i = 1 -> ShortEntry(DotName, "dir", c, 0)
          [] i = 2 -> ShortEntry(DotDotName, "dir", parent, 0)
          [] OTHER -> Blank(EndMark)]

init_directory_cluster(c, parent) ==
    [i \in SlotIdx |->
        CASE i = 1 -> ShortEntry(DotName, "dir", c, 0)
          [] i = 2 -> ShortEntry(DotDotName, "dir",
                                 IF parent = RootCluster THEN 0 ELSE parent, 0)
          [] OTHER -> Blank(EndMark)]

-----------------------------------------------------------------------------
(* What a well-formed image is, for the FAT f, the slots d and the set ds  *)
(* of directory clusters.                                                  *)

\* Entry i of the directory p: where it starts, and whether it is a directory.
StartOf(d, p, i) == d[p][i].cluster
IsDir(d, p, i) == d[p][i].attr = "dir"

\* A listed entry is "." or "..", or a child.
IsDotEntry(d, p, i) == IsListed(d[p], i) /\ d[p][i].name[1] = DotByte
IsChild(d, p, i) == IsListed(d[p], i) /\ d[p][i].name[1] # DotByte

\* The starting cluster of a child is allocated, is not the root, and is a
\* directory of the tree exactly when the child is one.  A file may have no
\* cluster at all (start cluster 0, as other systems leave empty files).
ChildrenOK(f, d, ds) ==
    \A p \in ds, i \in SlotIdx : IsChild(d, p, i) =>
        \/ ~ IsDir(d, p, i) /\ StartOf(d, p, i) = 0
        \/ /\ StartOf(d, p, i) \in Clusters \ {RootCluster}
           /\ f[StartOf(d, p, i)] # Free
           /\ IsDir(d, p, i) <=> StartOf(d, p, i) \in ds

\* No cluster is the start of two children.
ChildrenDistinct(d, ds) ==
    \A p \in ds, i \in SlotIdx : IsChild(d, p, i) /\ StartOf(d, p, i) # 0 =>
        \A q \in ds, j \in SlotIdx :
            IsChild(d, q, j) /\ StartOf(d, q, j) = StartOf(d, p, i) => q = p /\ j = i

\* A link of the FAT leads to an allocated cluster that has no other link to
\* it and is not the start of a directory or of a file.
ChainsOK(f, d, ds) ==
    \A c \in Clusters : f[c] # Free /\ f[c] < EndOfChainMin =>
        /\ f[c] \in Clusters \ ds
        /\ f[f[c]] # Free
        /\ \A b \in Clusters : f[b] = f[c] => b = c
        /\ \A p \in ds, i \in SlotIdx : IsChild(d, p, i) => StartOf(d, p, i) # f[c]

\* The first two slots of the directory c are "." and "..".
HasDots(d, c) ==
    /\ d[c][1].tag = "short" /\ d[c][1].name = DotName
    /\ d[c][1].attr = "dir" /\ d[c][1].cluster = c
    /\ d[c][2].tag = "short" /\ d[c][2].name = DotDotName /\ d[c][2].attr = "dir"

\* Slots 1 and 2 of a directory other than the root are "." and "..": the
\* directory itself, and the directory that has the entry for it.  No other
\* listed entry starts with a dot.
DotsOK(d, ds) ==
    /\ \A c \in ds, i \in SlotIdx : IsDotEntry(d, c, i) => c # RootCluster /\ i <= 2
    /\ \A c \in ds \ {RootCluster} :
        /\ HasDots(d, c)
        /\ \E p \in ds, i \in SlotIdx :
            /\ IsChild(d, p, i) /\ IsDir(d, p, i) /\ StartOf(d, p, i) = c
            /\ StartOf(d, c, 2) = IF p = RootCluster THEN 0 ELSE p

\* Nothing is stored behind the end mark of a directory.
EndMarksOK(d, ds) ==
    \A c \in ds, i, j \in SlotIdx :
        i < j /\ first_byte(d[c][i]) = EndMark => first_byte(d[c][j]) = EndMark

DirsOK(f, ds) ==
    /\ ds \subseteq Clusters
    /\ RootCluster \in ds
    /\ \A c \in ds : f[c] # Free

\* S holds the root and, with a directory, its subdirectories.
IsClosed(d, S) ==
    /\ RootCluster \in S
    /\ \A p \in S, i \in SlotIdx : IsChild(d, p, i) /\ IsDir(d, p, i) => StartOf(d, p, i) \in S

\* ds is the set of directories that can be reached from the root by entries:
\* the least closed set.
ReachableOK(d, ds) == IsClosed(d, ds) /\ \A S \in SUBSET ds : IsClosed(d, S) => S = ds

\* The FAT f and the slots d are those of a tree with the directories ds.
Tree(f, d, ds) ==
    /\ f \in [Clusters -> FatValues]
    /\ d \in [Clusters -> [SlotIdx -> Slot]]
    /\ DirsOK(f, ds)
    /\ ChildrenOK(f, d, ds)
    /\ ChildrenDistinct(d, ds)
    /\ ChainsOK(f, d, ds)
    /\ DotsOK(d, ds)
    /\ EndMarksOK(d, ds)
    /\ ReachableOK(d, ds)

\* The FileInfo fi describes the image: a directory leads to a directory of
\* the tree, and a file to an allocated cluster that is no directory's, or
\* nowhere.
IsCurrent(f, ds, fi) ==
    IF fi.is_directory THEN fi.start_cluster \in ds
    ELSE \/ fi.start_cluster = 0
         \/ fi.start_cluster \in Clusters \ ds /\ f[fi.start_cluster] # Free
=============================================================================
