------------------------------- MODULE Fat32 -------------------------------
(***************************************************************************)
(* A mounted FAT32 image and the shell session that works on it:           *)
(* Fat32FileSystem (src/src/file_system.rs) and ShellSession               *)
(* (src/src/file_system/interface.rs).                                     *)
(*                                                                         *)
(* Sessions share the file system through an Rc, so all of them are on one *)
(* thread and calls do not interleave (ls takes the lock twice).  A call   *)
(* is modelled by its steps, as the work of one call depends on what       *)
(* earlier steps of the same call left on the disk:                        *)
(*                                                                         *)
(*   idle -> parse ... parse -> parsed -> list | read ... | create | store *)
(*   store -> reparse ... reparse -> reparsed -> update -> idle            *)
(*                                                                         *)
(* One "parse" step is one iteration of the loop of parse_path.  A panic   *)
(* (an index outside the disk, an arithmetic underflow in a build with     *)
(* overflow checks) halts the kernel.                                      *)
(*                                                                         *)
(* The disk is the FAT (28-bit values) and the slots of each cluster.      *)
(***************************************************************************)
EXTENDS Image, FiniteSets

CONSTANTS
    InitFat, InitData, InitDirs, InitContent,   \* the image that is mounted
    Calls,            \* the calls a user makes
    NoCall, NoFile

\* A path is the sequence of its non-empty parts, whether it starts with
\* "/", and whether it ends with "/" after its last part.
PathRecords == [abs : BOOLEAN, parts : Seq(Names), slash : BOOLEAN]

\* "ls_entries" stands for ls(None) and ls_entries(): both list the current
\* directory.  "name" is the new name of touch and mkdir, "text" the data of
\* write; the other calls do not look at them.
Commands == {"ls", "ls_entries", "cd", "cat", "touch", "mkdir", "write"}
CallRecords == [fn : Commands, path : PathRecords, name : Names, text : Seq(TextSlots)]

VARIABLES
    fat,      \* cluster -> next cluster, Free, or an end-of-chain value
    data,     \* cluster -> slots
    cwd,      \* ShellSession.current_cluster
    pc,       \* where the call in progress is
    call,     \* its arguments
    todo,     \* parse_path: the parts still to resolve
    at,       \* parse_path: cluster; later the cluster the call works on
    file,     \* the FileInfo parse_path returned, or NoFile
    buf,      \* read_file: the data read so far
    res       \* what the last call returned

\* Auxiliary variables: no guard and no other variable depends on them.
VARIABLES
    dirs,     \* the clusters of the directories of the tree
    content   \* cluster -> what was last stored in the file that starts there

disk == << fat, data >>
work == << call, todo, at, file, buf >>
aux == << dirs, content >>
vars == << fat, data, cwd, pc, call, todo, at, file, buf, res, dirs, content >>

PCs == {"idle", "parse", "parsed", "list", "read", "decode", "show", "create",
        "store", "reparse", "reparsed", "update", "panic"}

-----------------------------------------------------------------------------
(* Init: the image is mounted, a session starts in the root directory. *)

Init ==
    /\ fat = InitFat
    /\ data = InitData
    /\ cwd = RootCluster
    /\ pc = "idle"
    /\ call = NoCall
    /\ todo = << >>
    /\ at = RootCluster
    /\ file = NoFile
    /\ buf = << >>
    /\ res = "none"
    /\ dirs = InitDirs
    /\ content = InitContent

\* read_cluster does not panic: cluster_id - 2 does not underflow and the
\* sectors are on the disk.
Readable(c) == c \in Clusters

\* The call returns r and drops its locals.
Return(r) ==
    /\ pc' = "idle"
    /\ res' = r
    /\ call' = NoCall
    /\ todo' = << >>
    /\ at' = RootCluster
    /\ file' = NoFile
    /\ buf' = << >>

Panic ==
    /\ pc' = "panic"
    /\ UNCHANGED << work, res >>

\* The panic handler loops for ever.
Halted == pc = "panic" /\ UNCHANGED vars

\* A call of the session.  ls and cd resolve a relative path from the
\* current directory, the other calls from the root; touch and mkdir do not
\* parse the paths "" and "/".
Begin(c) ==
    /\ pc = "idle"
    /\ call' = c
    /\ todo' = c.path.parts
    /\ at' = IF \/ c.fn = "ls_entries"
                \/ c.fn \in {"ls", "cd"} /\ ~ c.path.abs /\ c.path.parts # << >>
             THEN cwd ELSE RootCluster
    /\ pc' = CASE c.fn = "ls_entries" -> "list"
               [] c.fn \in {"touch", "mkdir"} /\ c.path.parts = << >> -> "create"
               [] OTHER -> "parse"
    /\ UNCHANGED << disk, cwd, file, buf, res, aux >>

-----------------------------------------------------------------------------
(* parse_path, one iteration of its loop per step. *)

Parsing == pc \in {"parse", "reparse"}

Resolve(f) ==
    /\ pc' = IF pc = "parse" THEN "parsed" ELSE "reparsed"
    /\ file' = f
    /\ UNCHANGED << call, todo, at, buf >>

Descend(c) ==
    /\ at' = c
    /\ todo' = Tail(todo)
    /\ UNCHANGED << pc, call, file, buf >>

\* The loop is over: the path was empty or ended with ".".
ParseEnd ==
    /\ todo = << >>
    /\ Resolve(NoFile)

\* Mutant of ParseDot: "." does not move on to the next part.
ParseDot_Stuck ==
    /\ todo # << >>
    /\ Head(todo) = Dot
    /\ UNCHANGED << pc, call, todo, at, file, buf >>

ParseDot ==
    /\ todo # << >>
    /\ Head(todo) = Dot
    /\ Descend(at)

\* find_parent_cluster: the entries named ".."; the root has no parent.
ParentEntries == IF at = RootCluster THEN {} ELSE Named(data[at], DotDot)

ParseDotDot ==
    /\ todo # << >>
    /\ Head(todo) = DotDot
    /\ \/ ParentEntries = {} /\ Resolve(NoFile)
       \/ \E i \in ParentEntries :
            LET parent == ParentCluster(data[at][i].cluster)
            IN  /\ IsFirst(i, ParentEntries)
                /\ IF Len(todo) = 1
                   THEN Resolve([is_directory |-> TRUE, size |-> 0, start_cluster |-> parent])
                   ELSE Descend(parent)

ParseName ==
    /\ todo # << >>
    /\ Head(todo) \notin {Dot, DotDot}
    /\ \/ Named(data[at], Head(todo)) = {} /\ Resolve(NoFile)
       \/ \E i \in Named(data[at], Head(todo)) :
            LET f == FileInfo(data[at], i)
            IN  /\ IsFirst(i, Named(data[at], Head(todo)))
                /\ \/ Len(todo) = 1 /\ Resolve(f)
                   \/ Len(todo) > 1 /\ ~ f.is_directory /\ Resolve(NoFile)
                   \/ Len(todo) > 1 /\ f.is_directory /\ Descend(f.start_cluster)

\* Each iteration lists the directory first; ParsesDirectories below is why
\* that listing never panics.
Parse ==
    /\ Parsing
    /\ IF todo = << >> \/ Readable(at)
       THEN (ParseEnd \/ ParseDot \/ ParseDotDot \/ ParseName) /\ UNCHANGED res
       ELSE Panic
    /\ UNCHANGED << disk, cwd, aux >>

-----------------------------------------------------------------------------
(* ls, cd, cat *)

\* What parse_path returned: Some(f) with f.is_directory, or without.
FoundDirectory == file # NoFile /\ file.is_directory
FoundFile == file # NoFile /\ ~ file.is_directory

LsParsed ==
    /\ pc = "parsed"
    /\ call.fn = "ls"
    /\ \/ file = NoFile /\ Return("err")
       \/ /\ file # NoFile
          /\ pc' = "list"
          /\ at' = file.start_cluster
          /\ UNCHANGED << call, todo, file, buf, res >>
    /\ UNCHANGED << disk, cwd, aux >>

\* list_directory_entries of whatever cluster the path led to.
List ==
    /\ pc = "list"
    /\ IF Readable(at) THEN Return("ok") ELSE Panic
    /\ UNCHANGED << disk, cwd, aux >>

\* Mutant of CdParsed: cd accepts a file.
CdParsed_AnyEntry ==
    /\ pc = "parsed"
    /\ call.fn = "cd"
    /\ \/ file = NoFile /\ Return("err") /\ UNCHANGED cwd
       \/ file # NoFile /\ cwd' = file.start_cluster /\ Return("ok")
    /\ UNCHANGED << disk, aux >>

CdParsed ==
    /\ pc = "parsed"
    /\ call.fn = "cd"
    /\ \/ ~ FoundDirectory /\ Return("err") /\ UNCHANGED cwd
       \/ /\ FoundDirectory
          /\ cwd' = file.start_cluster
          /\ Return("ok")
    /\ UNCHANGED << disk, aux >>

\* cat shows the error message of read_file and returns Ok.
CatParsed ==
    /\ pc = "parsed"
    /\ call.fn = "cat"
    /\ \/ ~ FoundFile /\ Return("ok")
       \/ /\ FoundFile
          /\ pc' = "read"
          /\ at' = file.start_cluster
          /\ UNCHANGED << call, todo, file, buf, res >>
    /\ UNCHANGED << disk, cwd, aux >>

\* Mutants of IsChainEnd: any allocated entry ends the chain; the end-of-chain
\* values are followed.
IsChainEnd_Always(next) == next # Free
IsChainEnd_Never(next) == next > EndOfChain

IsChainEnd(next) == next >= EndOfChainMin

\* One iteration of the loop of read_file.
Read ==
    /\ pc = "read"
    /\ \/ ~ Readable(at) /\ Panic
       \/ /\ Readable(at)
          /\ buf' = buf \o data[at]
          /\ IF IsChainEnd(fat[at])
             THEN pc' = "decode" /\ UNCHANGED at
             ELSE at' = fat[at] /\ UNCHANGED pc
          /\ UNCHANGED << call, todo, file, res >>
    /\ UNCHANGED << disk, cwd, aux >>

Take(s, n) == IF n < Len(s) THEN SubSeq(s, 1, n) ELSE s

\* String::from_utf8 on a sequence of slots.  Text is UTF-8 when no character
\* is cut at its two ends or where two slots meet.  Whether the bytes of
\* slots that are not text are UTF-8 is not modelled: both outcomes happen.
IsText(s) == \A k \in 1 .. Len(s) : s[k].tag = "text"
HasWholeChars(s) ==
    /\ \A k \in 1 .. Len(s) : IsContinuation(s[k].first) = (k > 1 /\ s[k - 1].cut)
    /\ s # << >> => ~ s[Len(s)].cut

Decode ==
    /\ pc = "decode"
    /\ LET shown == Take(buf, file.size)
       IN  \/ /\ IsText(shown) => HasWholeChars(shown)
              /\ pc' = "show"
              /\ buf' = shown
              /\ UNCHANGED << call, todo, at, file, res >>
           \/ /\ IsText(shown) => ~ HasWholeChars(shown)
              /\ Return("ok")
    /\ UNCHANGED << disk, cwd, aux >>

Show ==
    /\ pc = "show"
    /\ Return("ok")
    /\ UNCHANGED << disk, cwd, aux >>

-----------------------------------------------------------------------------
(* touch and mkdir *)

CreateParsed ==
    /\ pc = "parsed"
    /\ call.fn \in {"touch", "mkdir"}
    /\ \/ file = NoFile /\ Return("err")
       \/ /\ file # NoFile
          /\ pc' = "create"
          /\ at' = file.start_cluster
          /\ UNCHANGED << call, todo, file, buf, res >>
    /\ UNCHANGED << disk, cwd, aux >>

FreeClusters == {c \in 2 .. AllocEnd - 1 : fat[c] = Free}

\* Mutants of allocate_cluster: the cluster is not marked; the mark is not
\* cut to 28 bits.
allocate_cluster_Unmarked(c) == IsFirst(c, FreeClusters) /\ UNCHANGED fat
allocate_cluster_Wide(c) ==
    /\ IsFirst(c, FreeClusters)
    /\ fat' = [fat EXCEPT ![c] = 2 * EndOfChain + 1]

\* allocate_cluster: c is the first free cluster and is marked as used.
allocate_cluster(c) ==
    /\ IsFirst(c, FreeClusters)
    /\ fat' = [fat EXCEPT ![c] = EndOfChain]

\* Mutant of NewEntry: the cluster fields are not set.
NewEntry_NoCluster(c, attr) == ShortEntry(format_to_8_3(call.name), attr, 0, 0)

NewEntry(c, attr) == ShortEntry(format_to_8_3(call.name), attr, c, 0)

\* The last part of create_file and mkdir: an entry for cluster c in the
\* first free slot of the parent cluster, in the clusters d.  Without a free
\* slot the call fails and c stays allocated.
AddEntry(c, attr, d) ==
    \/ ~ Readable(at) /\ Panic /\ data' = d /\ UNCHANGED aux
    \/ /\ Readable(at)
       /\ FreeSlots(d[at]) = {}
       /\ data' = d
       /\ Return("err")
       /\ UNCHANGED aux
    \/ /\ Readable(at)
       /\ \E i \in FreeSlots(d[at]) :
            LET slots == [d[at] EXCEPT ![i] = NewEntry(c, attr)]
            IN  /\ IsFirst(i, FreeSlots(d[at]))
                /\ data' = [d EXCEPT ![at] = slots]
                /\ dirs' = IF attr = "dir" /\ at \in dirs /\ IsListed(slots, i)
                           THEN dirs \cup {c} ELSE dirs
       /\ content' = [content EXCEPT ![c] = << >>]
       /\ Return("ok")

\* create_file checks the name before it allocates.
Touch ==
    /\ pc = "create"
    /\ call.fn = "touch"
    /\ \/ /\ IsInvalidName(call.name) \/ FreeClusters = {}
          /\ Return("err")
          /\ UNCHANGED << disk, aux >>
       \/ /\ ~ IsInvalidName(call.name)
          /\ \E c \in FreeClusters : allocate_cluster(c) /\ AddEntry(c, "file", data)
    /\ UNCHANGED cwd

\* Mutant of WithNewDirectory: the two clusters are swapped.
WithNewDirectory_Swapped(c) == [data EXCEPT ![at] = init_directory_cluster(at, c)]

WithNewDirectory(c) == [data EXCEPT ![c] = init_directory_cluster(c, at)]

\* mkdir checks the name after it has allocated and initialised the cluster.
Mkdir ==
    /\ pc = "create"
    /\ call.fn = "mkdir"
    /\ \/ FreeClusters = {} /\ Return("err") /\ UNCHANGED << disk, aux >>
       \/ \E c \in FreeClusters :
            LET d == WithNewDirectory(c)
            IN  /\ allocate_cluster(c)
                /\ \/ IsInvalidName(call.name) /\ Return("err") /\ data' = d /\ UNCHANGED aux
                   \/ ~ IsInvalidName(call.name) /\ AddEntry(c, "dir", d)
    /\ UNCHANGED cwd

-----------------------------------------------------------------------------
(* write *)

WriteParsed ==
    /\ pc = "parsed"
    /\ call.fn = "write"
    /\ \/ ~ FoundFile /\ Return("err")
       \/ /\ FoundFile
          /\ pc' = "store"
          /\ UNCHANGED << work, res >>
    /\ UNCHANGED << disk, cwd, aux >>

\* bytes_to_write: what does not fit in one cluster is dropped.
Written == Take(call.text, SlotsPerCluster)

\* Mutant of NewSize: the size of data that does not fit in the cluster.
NewSize_Unbounded == Len(call.text)

NewSize == Len(Written)

\* The path before its last "/", and the name after it.
ParentParts == IF call.path.slash THEN call.path.parts 
               ELSE SubSeq(call.path.parts, 1, Len(call.path.parts) - 1)
Filename == IF call.path.slash THEN << >> ELSE call.path.parts[Len(call.path.parts)]

\* write_file stores the data in the first cluster of the file, then
\* update_file_size resolves the path of the parent.
Store ==
    /\ pc = "store"
    /\ \/ ~ Readable(file.start_cluster) /\ Panic /\ UNCHANGED << data, content >>
       \/ /\ Readable(file.start_cluster)
          /\ data' = [data EXCEPT ![file.start_cluster] =
                        [i \in SlotIdx |-> IF i <= Len(Written) THEN Written[i] ELSE @[i]]]
          /\ content' = [content EXCEPT ![file.start_cluster] = Written]
          /\ pc' = IF ParentParts = << >> THEN "update" ELSE "reparse"
          /\ todo' = ParentParts
          /\ at' = RootCluster
          /\ file' = NoFile
          /\ UNCHANGED << call, buf, res >>
    /\ UNCHANGED << fat, cwd, dirs >>

\* A parent that is not found is replaced by the root.
UpdateParsed ==
    /\ pc = "reparsed"
    /\ pc' = "update"
    /\ at' = IF file = NoFile THEN RootCluster ELSE file.start_cluster
    /\ UNCHANGED << disk, cwd, call, todo, file, buf, res, aux >>

\* The first slot of the parent with the short name of the file, whatever it
\* is an entry of, gets the new size.
SameShortName ==
    {i \in SlotIdx : /\ data[at][i].tag = "short"
                     /\ data[at][i].name = format_to_8_3(Filename)}

SetSize ==
    \/ SameShortName = {} /\ Return("err") /\ UNCHANGED data
    \/ /\ \E i \in SameShortName :
            /\ IsFirst(i, SameShortName)
            /\ data' = [data EXCEPT ![at][i].size = NewSize]
       /\ Return("ok")

\* Reading the parent's cluster panics if it is none.
UpdateSize ==
    /\ pc = "update"
    /\ \/ IsInvalidName(Filename) /\ Return("err") /\ UNCHANGED data
       \/ /\ ~ IsInvalidName(Filename)
          /\ IF Readable(at) THEN SetSize ELSE Panic /\ UNCHANGED data
    /\ UNCHANGED << fat, cwd, aux >>

-----------------------------------------------------------------------------
Step ==
    \/ Parse \/ LsParsed \/ List \/ CdParsed
    \/ CatParsed \/ Read \/ Decode \/ Show
    \/ CreateParsed \/ Touch \/ Mkdir
    \/ WriteParsed \/ Store \/ UpdateParsed \/ UpdateSize

Next == Step \/ Halted \/ \E c \in Calls : Begin(c)

Spec == Init /\ [][Next]_vars

\* A call that has begun runs to its end: nothing in the kernel preempts the
\* main thread for good.
FairSpec == Spec /\ WF_vars(Step)

-----------------------------------------------------------------------------
(* Assumptions: the image that is mounted is well-formed. *)

ASSUME ImageAssumption ==
    /\ Tree(InitFat, InitData, InitDirs)
    /\ InitContent \in [Clusters -> Seq(Slot)]

\* The user's strings.  A new name does not start with the character NUL.
ASSUME CallsAssumption ==
    /\ Calls \subseteq CallRecords
    /\ \A c \in Calls : c.name # << >> => c.name[1] # EndMark
    /\ NoCall \notin CallRecords
    /\ NoFile \notin FileInfos

-----------------------------------------------------------------------------
(* Safety *)

\* Every variable has its type.
TypeOK ==
    /\ fat \in [Clusters -> FatValues]
    /\ data \in [Clusters -> [SlotIdx -> Slot]]
    /\ cwd \in Nat
    /\ pc \in PCs
    /\ call \in Calls \cup {NoCall}
    /\ todo \in Seq(Names)
    /\ at \in Nat
    /\ file \in FileInfos \cup {NoFile}
    /\ buf \in Seq(Slot)
    /\ res \in {"none", "ok", "err"}
    /\ dirs \subseteq Clusters
    /\ content \in [Clusters -> Seq(Slot)]

\* create_file, mkdir and write_file never make two directory entries share
\* a cluster, never point an entry or a FAT link at a free cluster, and never
\* give a directory's or a file's first cluster to a chain.
ClusterOwnership ==
    /\ DirsOK(fat, dirs)
    /\ ChildrenOK(fat, data, dirs)
    /\ ChildrenDistinct(data, dirs)
    /\ ChainsOK(fat, data, dirs)

\* init_directory_cluster and mkdir agree: ".." of every directory leads to
\* the directory that holds its entry, also after any later call.
DotEntries == DotsOK(data, dirs)

\* create_file and mkdir take the first free slot, so no entry is ever stored
\* where list_directory_entries would not see it.
NothingBehindEndMark == EndMarksOK(data, dirs)

\* cd only ever leads to a directory of the tree, also through "..", and no
\* later call turns the current directory into something else.
SessionInDirectory == cwd \in dirs

\* Every cluster parse_path lists is a directory of the tree, so its
\* listings never panic and never take file data for entries; this includes
\* the second walk, made by update_file_size after the data is stored.
ParsesDirectories == Parsing => at \in dirs

\* The FileInfo that parse_path returned is still right at every later step of
\* the call that uses it: write_file never overwrites a directory, and ls, cd,
\* create_file and mkdir never follow an entry to a free cluster.
FileIsCurrent == file # NoFile => IsCurrent(fat, dirs, file)

\* The only way a call panics is through a file entry without a cluster:
\* read_cluster and write_file compute start_cluster - 2.
PanicOnlyOnEmptyFile ==
    pc = "panic" => /\ file # NoFile
                    /\ ~ file.is_directory
                    /\ file.start_cluster = 0

\* mkdir keeps the tree a tree: each directory it makes can be reached from
\* the root, and none is ever cut off.
DirsAreReachable == ReachableOK(data, dirs)

\* write_file leaves the size in the directory entry equal to the length of
\* the data it stored, for every file and after any sequence of calls.
SizeSynced ==
    pc = "idle" =>
        \A p \in dirs, i \in SlotIdx :
            IsChild(data, p, i) /\ ~ IsDir(data, p, i) /\ StartOf(data, p, i) # 0
            => data[p][i].size = Len(content[StartOf(data, p, i)])

\* What cat shows is exactly what was last written to that file.
ReadBack == pc = "show" => buf = content[file.start_cluster]

-----------------------------------------------------------------------------
(* What a step may never do *)

\* A listed entry stays listed, under the same name, with the same kind and
\* the same cluster: there is no operation that removes or renames.
EntriesPersist ==
    [][\A p \in dirs : data'[p] # data[p] =>
          \A i \in SlotIdx : IsListed(data[p], i) =>
             /\ IsListed(data'[p], i)
             /\ EntryName(data'[p], i) = EntryName(data[p], i)
             /\ IsDir(data', p, i) <=> IsDir(data, p, i)
             /\ StartOf(data', p, i) = StartOf(data, p, i)]_data

CreateReturns(r) == pc = "create" /\ pc' = "idle" /\ res' = r

\* The clusters that are allocated and that nothing refers to.
LostClusters ==
    {c \in Clusters \ dirs :
        /\ fat[c] # Free
        /\ \A b \in Clusters : fat[b] # c
        /\ \A p \in dirs, i \in SlotIdx : IsChild(data, p, i) => StartOf(data, p, i) # c}

\* A touch or mkdir that fails changes no directory and loses at most the one
\* cluster it had allocated.
FailedCreateKeepsTree ==
    [][CreateReturns("err") =>
          /\ dirs' = dirs
          /\ \A p \in dirs : data'[p] = data[p]
          /\ Cardinality(LostClusters' \ LostClusters) <= 1]_vars

\* A touch or mkdir that succeeds in a directory, under a name that is not
\* taken for a deleted entry, loses no cluster.
CreateLosesNothing ==
    [][/\ CreateReturns("ok")
       /\ at \in dirs
       /\ call.name[1] # DeletedMark
       => LostClusters' \subseteq LostClusters]_vars

\* A touch or mkdir that succeeds adds an entry to a directory of the tree.
CreateAddsEntry ==
    [][CreateReturns("ok") =>
          \E p \in dirs, i \in SlotIdx : ~ IsChild(data, p, i) /\ IsChild(data', p, i)]_vars

-----------------------------------------------------------------------------
(* Liveness *)

\* Every call ends: parse_path consumes its path and read_file reaches the
\* end of every chain.
CallsEnd == pc # "idle" ~> pc \in {"idle", "panic"}
=============================================================================
