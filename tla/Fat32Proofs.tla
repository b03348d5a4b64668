----------------------------- MODULE Fat32Proofs ----------------------------
(***************************************************************************)
(* The safety invariants and the action properties of Fat32, for every     *)
(* well-formed image and every set of calls.                               *)
(***************************************************************************)
EXTENDS Fat32, TreeProofs, FiniteSetTheorems

(* The inductive invariant *)

\* What a call knows about the cluster it works on.
AtIsCurrent ==
    /\ pc \in {"list", "create", "update"} => at \in dirs \/ (FoundFile /\ at = file.start_cluster)
    /\ pc = "read" => /\ FoundFile
                      /\ at = file.start_cluster \/ (at \in Clusters /\ fat[at] # Free)
    /\ pc \in {"store", "decode", "show"} => FoundFile

\* The inductive invariant.
IInv ==
    /\ TypeOK
    /\ Tree(fat, data, dirs)
    /\ SessionInDirectory
    /\ ParsesDirectories
    /\ PanicOnlyOnEmptyFile
    /\ FileIsCurrent
    /\ AtIsCurrent
    /\ pc # "idle" => call \in Calls

\* What the invariant says of the disk, for a step that leaves the call alone.
DiskOK ==
    /\ Tree(fat, data, dirs)
    /\ cwd \in dirs
    /\ content \in [Clusters -> Seq(Slot)]

\* A call of the session has the type of a call.
LEMMA CallType ==
    ASSUME NEW c \in Calls
    PROVE  /\ c.fn \in Commands
           /\ c.path.parts \in Seq(Names)
           /\ c.name \in Names
           /\ c.name # << >> => c.name[1] # EndMark
           /\ c.text \in Seq(TextSlots)
  <1>1. c \in CallRecords /\ (c.name # << >> => c.name[1] # EndMark)
    BY CallsAssumption
  <1>2. c.path \in PathRecords
    BY <1>1 DEF CallRecords
  <1>3. c.path.parts \in Seq(Names)
    BY <1>2 DEF PathRecords
  <1> QED
    BY <1>1, <1>3 DEF CallRecords

\* A FileInfo has its type, and NoFile is none.
LEMMA FileType ==
    ASSUME TypeOK, file # NoFile
    PROVE  /\ file \in FileInfos
           /\ file.is_directory \in BOOLEAN
           /\ file.start_cluster \in Nat
           /\ file.size \in Nat
  BY DEF TypeOK, FileInfos

\* The disk part of the invariant.
LEMMA DiskInv == ASSUME IInv PROVE DiskOK /\ dirs \subseteq Clusters /\ RootCluster \in dirs
  BY DEF IInv, TypeOK, DiskOK, SessionInDirectory, Tree, DirsOK

\* A step that leaves the disk and the session alone.
LEMMA SameDisk ==
    ASSUME IInv, UNCHANGED << disk, cwd, aux >>
    PROVE  DiskOK'
  BY DiskInv DEF disk, aux, DiskOK

-----------------------------------------------------------------------------
(* The ways a step ends *)

\* A call that returns leaves nothing behind that could break the invariant.
LEMMA ReturnInv ==
    ASSUME DiskOK', NEW r \in {"ok", "err"}, Return(r)
    PROVE  IInv'
  <1>1. /\ pc' = "idle" /\ res' = r /\ call' = NoCall /\ todo' = << >>
        /\ at' = RootCluster /\ file' = NoFile /\ buf' = << >>
    BY DEF Return
  <1>2. /\ fat' \in [Clusters -> FatValues] /\ data' \in [Clusters -> [SlotIdx -> Slot]]
        /\ dirs' \subseteq Clusters /\ RootCluster \in dirs'
        /\ cwd' \in dirs' /\ content' \in [Clusters -> Seq(Slot)]
    BY DEF DiskOK, Tree, DirsOK
  <1>3. TypeOK'
    BY <1>1, <1>2, ClusterNumbers DEF TypeOK, PCs
  <1> QED
    BY <1>1, <1>3 DEF IInv, DiskOK, SessionInDirectory, ParsesDirectories, Parsing,
                      PanicOnlyOnEmptyFile, FileIsCurrent, AtIsCurrent

\* A panic on a file without a cluster.
LEMMA PanicInv ==
    ASSUME IInv, DiskOK', Panic, pc # "idle", FoundFile, file.start_cluster \notin Clusters
    PROVE  IInv'
  <1>1. pc' = "panic" /\ call' = call /\ todo' = todo /\ at' = at /\ file' = file
        /\ buf' = buf /\ res' = res
    BY DEF Panic, work
  <1>2. /\ fat' \in [Clusters -> FatValues] /\ data' \in [Clusters -> [SlotIdx -> Slot]]
        /\ dirs' \subseteq Clusters
        /\ cwd' \in dirs' /\ content' \in [Clusters -> Seq(Slot)]
    BY DEF DiskOK, Tree, DirsOK
  <1>3. TypeOK'
    BY <1>1, <1>2, ClusterNumbers DEF IInv, TypeOK, PCs
  <1>4. file # NoFile /\ ~ file.is_directory /\ file.start_cluster = 0
    BY DEF IInv, FoundFile, FileIsCurrent, IsCurrent
  <1>5. FileIsCurrent'
    BY <1>1, <1>4 DEF FileIsCurrent, IsCurrent
  <1> QED
    BY <1>1, <1>3, <1>4, <1>5 DEF IInv, DiskOK, SessionInDirectory, ParsesDirectories, Parsing,
                                  PanicOnlyOnEmptyFile, AtIsCurrent

\* A step that moves the call to pc', with what the call holds then.
LEMMA StepInv ==
    ASSUME IInv, DiskOK', UNCHANGED res,
           pc' \in PCs \ {"idle", "panic"}, call' \in Calls,
           todo' \in Seq(Names), at' \in Nat, buf' \in Seq(Slot),
           file' \in FileInfos \cup {NoFile},
           FileIsCurrent', ParsesDirectories', AtIsCurrent'
    PROVE  IInv'
  <1>1. /\ fat' \in [Clusters -> FatValues] /\ data' \in [Clusters -> [SlotIdx -> Slot]]
        /\ dirs' \subseteq Clusters
        /\ cwd' \in dirs' /\ content' \in [Clusters -> Seq(Slot)]
    BY DEF DiskOK, Tree, DirsOK
  <1>2. TypeOK'
    BY <1>1, ClusterNumbers DEF IInv, TypeOK
  <1> QED
    BY <1>2 DEF IInv, DiskOK, SessionInDirectory, PanicOnlyOnEmptyFile

\* Such a step that keeps the disk and the session.
LEMMA MoveInv ==
    ASSUME IInv, UNCHANGED << disk, cwd, aux, res >>,
           pc' \in PCs \ {"idle", "panic"}, call' \in Calls,
           todo' \in Seq(Names), at' \in Nat, buf' \in Seq(Slot),
           file' \in FileInfos \cup {NoFile},
           FileIsCurrent', ParsesDirectories', AtIsCurrent'
    PROVE  IInv'
  <1>1. DiskOK'
    BY SameDisk
  <1> QED
    BY <1>1, StepInv

-----------------------------------------------------------------------------
(* parse_path *)

\* parse_path returns a FileInfo that describes the image, or None.
LEMMA ResolveInv ==
    ASSUME IInv, Parsing, UNCHANGED << disk, cwd, res, aux >>,
           NEW fi, Resolve(fi),
           fi = NoFile \/ (fi \in FileInfos /\ IsCurrent(fat, dirs, fi))
    PROVE  IInv'
  <1>1. pc' \in {"parsed", "reparsed"}
    BY DEF Resolve
  <1>2. file' = fi /\ call' = call /\ todo' = todo /\ at' = at /\ buf' = buf
    BY DEF Resolve
  <1>3. call' \in Calls /\ todo' \in Seq(Names) /\ at' \in Nat /\ buf' \in Seq(Slot)
    BY <1>2 DEF IInv, Parsing, TypeOK
  <1>4. FileIsCurrent'
    BY <1>2 DEF FileIsCurrent, disk, aux
  <1>5. ParsesDirectories' /\ AtIsCurrent'
    BY <1>1 DEF ParsesDirectories, Parsing, AtIsCurrent
  <1> QED
    BY <1>1, <1>2, <1>3, <1>4, <1>5, MoveInv DEF PCs

\* parse_path moves on to a directory.
LEMMA DescendInv ==
    ASSUME IInv, Parsing, UNCHANGED << disk, cwd, res, aux >>,
           todo # << >>, NEW c \in dirs, Descend(c)
    PROVE  IInv'
  <1>1. pc' = pc /\ at' = c /\ todo' = Tail(todo) /\ call' = call /\ file' = file /\ buf' = buf
    BY DEF Descend
  <1>2. pc' \in {"parse", "reparse"}
    BY <1>1 DEF Parsing
  <1>3. call' \in Calls /\ buf' \in Seq(Slot) /\ file' \in FileInfos \cup {NoFile}
    BY <1>1 DEF IInv, Parsing, TypeOK
  <1>4. todo' \in Seq(Names)
    BY <1>1 DEF IInv, TypeOK
  <1>5. at' \in Nat
    BY <1>1, DiskInv, ClusterNumbers
  <1>6. FileIsCurrent'
    BY <1>1 DEF IInv, FileIsCurrent, disk, aux
  <1>7. ParsesDirectories'
    BY <1>1 DEF ParsesDirectories, aux
  <1>8. AtIsCurrent'
    BY <1>2 DEF AtIsCurrent
  <1> QED
    BY <1>2, <1>3, <1>4, <1>5, <1>6, <1>7, <1>8, MoveInv DEF PCs

\* One iteration of the loop of parse_path.
LEMMA ParseInv == ASSUME IInv, Parse PROVE IInv'
  <1>a. Parsing /\ UNCHANGED << disk, cwd, aux >>
    BY DEF Parse
  <1>2. at \in dirs /\ Tree(fat, data, dirs)
    BY <1>a DEF IInv, ParsesDirectories
  <1>b. Readable(at)
    BY <1>2, DiskInv DEF Readable
  <1>1. /\ Parsing /\ UNCHANGED << disk, cwd, res, aux >>
        /\ ParseEnd \/ ParseDot \/ ParseDotDot \/ ParseName
    BY <1>a, <1>b DEF Parse
  <1>3. CASE ParseEnd
    BY <1>1, <1>3, ResolveInv DEF ParseEnd
  <1>4. CASE ParseDot
    BY <1>1, <1>2, <1>4, DescendInv DEF ParseDot
  <1>5. CASE ParseDotDot
    <2>1. CASE ParentEntries = {} /\ Resolve(NoFile)
      BY <1>1, <2>1, ResolveInv
    <2>2. ASSUME NEW i \in ParentEntries, IsFirst(i, ParentEntries)
          PROVE  ParentCluster(data[at][i].cluster) \in dirs
      BY <1>2, <2>2, ParentIsDirectory DEF ParentEntries
    <2>3. ASSUME NEW i \in ParentEntries, IsFirst(i, ParentEntries),
                 Resolve([is_directory |-> TRUE, size |-> 0,
                          start_cluster |-> ParentCluster(data[at][i].cluster)])
          PROVE  IInv'
      <3> DEFINE parent == ParentCluster(data[at][i].cluster)
                 fi == [is_directory |-> TRUE, size |-> 0, start_cluster |-> parent]
      <3>1. parent \in dirs /\ parent \in Nat
        BY <2>2, <2>3, DiskInv, ClusterNumbers
      <3> HIDE DEF parent
      <3>2. fi \in FileInfos /\ IsCurrent(fat, dirs, fi)
        BY <3>1 DEF FileInfos, IsCurrent
      <3>3. Resolve(fi)
        BY <2>3 DEF parent
      <3> HIDE DEF fi
      <3> QED
        BY <1>1, <3>2, <3>3, ResolveInv
    <2>4. ASSUME NEW i \in ParentEntries, IsFirst(i, ParentEntries), todo # << >>,
                 Descend(ParentCluster(data[at][i].cluster))
          PROVE  IInv'
      BY <1>1, <2>2, <2>4, DescendInv
    <2> QED
      BY Zenon, <1>5, <2>1, <2>3, <2>4 DEF ParseDotDot
  <1>6. CASE ParseName
    <2>1. ASSUME NEW i \in Named(data[at], Head(todo))
          PROVE  /\ FileInfo(data[at], i) \in FileInfos
                 /\ IsCurrent(fat, dirs, FileInfo(data[at], i))
      BY Zenon, <1>2, <1>6, NamedIsCurrent DEF ParseName
    <2>2. CASE Resolve(NoFile)
      BY <1>1, <2>2, ResolveInv
    <2>3. ASSUME NEW i \in Named(data[at], Head(todo)), Resolve(FileInfo(data[at], i))
          PROVE  IInv'
      BY <1>1, <2>1, <2>3, ResolveInv
    <2>4. ASSUME NEW i \in Named(data[at], Head(todo)), todo # << >>,
                 FileInfo(data[at], i).is_directory,
                 Descend(FileInfo(data[at], i).start_cluster)
          PROVE  IInv'
      <3>1. FileInfo(data[at], i).start_cluster \in dirs
        BY <2>1, <2>4 DEF IsCurrent
      <3> QED
        BY <1>1, <2>4, <3>1, DescendInv
    <2> QED
      BY <1>6, <2>2, <2>3, <2>4 DEF ParseName
  <1> QED
    BY <1>1, <1>3, <1>4, <1>5, <1>6

-----------------------------------------------------------------------------
(* The other steps that do not change the disk *)

\* A call begins: ls and cd start in the current directory.
LEMMA BeginInv == ASSUME IInv, NEW c \in Calls, Begin(c) PROVE IInv'
  <1>1. UNCHANGED << disk, cwd, aux, res >> /\ file' = file /\ buf' = buf
    BY DEF Begin
  <1>2. call' = c /\ todo' = c.path.parts /\ at' \in {cwd, RootCluster}
    BY DEF Begin
  <1>3. pc' \in {"list", "create", "parse"}
    BY DEF Begin
  <1>4. at' \in dirs /\ at' \in Nat /\ dirs' = dirs
    BY <1>1, <1>2, DiskInv, ClusterNumbers DEF IInv, SessionInDirectory, aux
  <1>5. todo' \in Seq(Names)
    BY <1>2, CallType
  <1>6. FileIsCurrent'
    BY <1>1 DEF IInv, FileIsCurrent, disk, aux
  <1>7. ParsesDirectories' /\ AtIsCurrent'
    BY <1>3, <1>4 DEF ParsesDirectories, AtIsCurrent
  <1>8. buf' \in Seq(Slot) /\ file' \in FileInfos \cup {NoFile}
    BY <1>1 DEF IInv, TypeOK
  <1> QED
    BY <1>1, <1>2, <1>3, <1>4, <1>5, <1>6, <1>7, <1>8, MoveInv DEF PCs

\* ls, touch and mkdir go to the cluster that parse_path found, cat to the
\* first cluster of a file, write to a file.
LEMMA FoundInv ==
    ASSUME IInv, pc = "parsed", UNCHANGED << disk, cwd, aux, call, todo, file, buf, res >>,
           file # NoFile, at' \in {at, file.start_cluster},
           \/ pc' \in {"list", "create"} /\ at' = file.start_cluster
           \/ pc' = "read" /\ FoundFile /\ at' = file.start_cluster
           \/ pc' = "store" /\ FoundFile
    PROVE  IInv'
  <1>1. /\ call' \in Calls /\ todo' \in Seq(Names) /\ buf' \in Seq(Slot)
        /\ file' \in FileInfos \cup {NoFile}
    BY DEF IInv, TypeOK
  <1>2. at' \in Nat
    BY FileType DEF IInv, TypeOK
  <1>3. FileIsCurrent'
    BY DEF IInv, FileIsCurrent, disk, aux
  <1>4. ParsesDirectories'
    BY DEF ParsesDirectories, Parsing
  <1>5. file.is_directory => file.start_cluster \in dirs
    BY DEF IInv, FileIsCurrent, IsCurrent
  <1>6. AtIsCurrent'
    BY <1>5 DEF AtIsCurrent, FoundFile, aux
  <1>7. pc' \in PCs \ {"idle", "panic"}
    BY DEF PCs
  <1> QED
    BY <1>1, <1>2, <1>3, <1>4, <1>6, <1>7, MoveInv

\* ls with a path.
LEMMA LsParsedInv == ASSUME IInv, LsParsed PROVE IInv'
  <1>1. UNCHANGED << disk, cwd, aux >> /\ pc = "parsed"
    BY DEF LsParsed
  <1>2. CASE Return("err")
    BY <1>1, <1>2, SameDisk, ReturnInv
  <1>3. CASE file # NoFile /\ pc' = "list" /\ at' = file.start_cluster
             /\ UNCHANGED << call, todo, file, buf, res >>
    BY <1>1, <1>3, FoundInv
  <1> QED
    BY <1>2, <1>3 DEF LsParsed

\* ls lists a directory, or the data of a file.
LEMMA ListInv == ASSUME IInv, List PROVE IInv'
  <1>1. UNCHANGED << disk, cwd, aux >> /\ pc = "list"
    BY DEF List
  <1>2. CASE Return("ok")
    BY <1>1, <1>2, SameDisk, ReturnInv
  <1>3. CASE at \notin Clusters /\ Panic
    <2>1. FoundFile /\ at = file.start_cluster
      BY <1>1, <1>3, DiskInv DEF IInv, AtIsCurrent
    <2> QED
      BY <1>1, <1>3, <2>1, SameDisk, PanicInv
  <1> QED
    BY <1>2, <1>3 DEF List, Readable

\* cd moves the session to a directory.
LEMMA CdParsedInv == ASSUME IInv, CdParsed PROVE IInv'
  <1>1. UNCHANGED << disk, aux >>
    BY DEF CdParsed
  <1>2. CASE Return("err") /\ UNCHANGED cwd
    BY <1>1, <1>2, SameDisk, ReturnInv
  <1>3. CASE FoundDirectory /\ cwd' = file.start_cluster /\ Return("ok")
    <2>1. cwd' \in dirs
      BY <1>3 DEF IInv, FoundDirectory, FileIsCurrent, IsCurrent
    <2>2. DiskOK'
      BY <1>1, <2>1, DiskInv DEF DiskOK, disk, aux
    <2> QED
      BY <1>3, <2>2, ReturnInv
  <1> QED
    BY <1>2, <1>3 DEF CdParsed

\* cat finds a file.
LEMMA CatParsedInv == ASSUME IInv, CatParsed PROVE IInv'
  <1>1. UNCHANGED << disk, cwd, aux >> /\ pc = "parsed"
    BY DEF CatParsed
  <1>2. CASE Return("ok")
    BY <1>1, <1>2, SameDisk, ReturnInv
  <1>3. CASE FoundFile /\ pc' = "read" /\ at' = file.start_cluster
             /\ UNCHANGED << call, todo, file, buf, res >>
    BY <1>1, <1>3, FoundInv DEF FoundFile
  <1> QED
    BY <1>2, <1>3 DEF CatParsed

\* read_file follows the chain from one allocated cluster to the next.
LEMMA ReadInv == ASSUME IInv, Read PROVE IInv'
  <1>1. UNCHANGED << disk, cwd, aux >> /\ pc = "read" /\ FoundFile
    BY DEF Read, IInv, AtIsCurrent
  <1>2. CASE ~ Readable(at) /\ Panic
    <2>1. at = file.start_cluster /\ at \notin Clusters
      BY <1>1, <1>2 DEF IInv, AtIsCurrent, Readable
    <2> QED
      BY <1>1, <1>2, <2>1, SameDisk, PanicInv
  <1>3. ASSUME Readable(at), buf' = buf \o data[at], UNCHANGED << call, todo, file, res >>,
               \/ pc' = "decode" /\ UNCHANGED at
               \/ ~ IsChainEnd(fat[at]) /\ at' = fat[at] /\ UNCHANGED pc
        PROVE  IInv'
    <2>1. at \in Clusters /\ fat[at] # Free /\ fat[at] \in FatValues
      BY <1>1, <1>3, ClusterNumbers
         DEF IInv, TypeOK, AtIsCurrent, Readable, FoundFile, FileIsCurrent, IsCurrent
    <2>2. data[at] \in [SlotIdx -> Slot]
      BY <2>1 DEF IInv, TypeOK
    <2>3. data[at] \in Seq(Slot)
      BY <2>2, SizeAssumption DEF SlotIdx
    <2>4. buf' \in Seq(Slot)
      BY <1>3, <2>3 DEF IInv, TypeOK
    <2>5. /\ call' \in Calls /\ todo' \in Seq(Names)
          /\ file' \in FileInfos \cup {NoFile} /\ FileIsCurrent'
      BY <1>1, <1>3 DEF IInv, TypeOK, FileIsCurrent, disk, aux
    <2>6. ~ IsChainEnd(fat[at]) => fat[at] \in Clusters /\ fat[fat[at]] # Free
      <3>1. fat[at] \in Nat /\ EndOfChainMin \in Nat
        BY Zenon, <2>1, ClusterNumbers
      <3>2. ~ IsChainEnd(fat[at]) => fat[at] < EndOfChainMin
        BY <3>1 DEF IsChainEnd
      <3> QED
        BY <2>1, <3>2 DEF IInv, Tree, ChainsOK
    <2>7. at' \in Nat
      BY <1>3, <2>1, <2>6, ClusterNumbers
    <2>8. AtIsCurrent' /\ ParsesDirectories'
      BY <1>1, <1>3, <2>6 DEF AtIsCurrent, ParsesDirectories, Parsing, FoundFile, disk
    <2>9. pc' \in PCs \ {"idle", "panic"}
      BY <1>1, <1>3 DEF PCs
    <2> QED
      BY <1>1, <1>3, <2>4, <2>5, <2>7, <2>8, <2>9, MoveInv
  <1> QED
    BY <1>2, <1>3 DEF Read

\* cat cuts the data to the size of the file.
LEMMA DecodeInv == ASSUME IInv, Decode PROVE IInv'
  <1>1. UNCHANGED << disk, cwd, aux >> /\ pc = "decode" /\ FoundFile
    BY DEF Decode, IInv, AtIsCurrent
  <1>2. CASE Return("ok")
    BY <1>1, <1>2, SameDisk, ReturnInv
  <1>3. CASE pc' = "show" /\ buf' = Take(buf, file.size) /\ UNCHANGED << call, todo, at, file, res >>
    <2>1. buf \in Seq(Slot) /\ file.size \in Nat
      BY <1>1, FileType DEF IInv, TypeOK, FoundFile
    <2>2. buf' \in Seq(Slot)
      BY <1>3, <2>1 DEF Take
    <2>3. /\ call' \in Calls /\ todo' \in Seq(Names) /\ at' \in Nat
          /\ file' \in FileInfos \cup {NoFile} /\ FileIsCurrent'
      BY <1>1, <1>3 DEF IInv, TypeOK, FileIsCurrent, disk, aux
    <2>4. AtIsCurrent' /\ ParsesDirectories'
      BY <1>1, <1>3 DEF AtIsCurrent, ParsesDirectories, Parsing, FoundFile
    <2> QED
      BY <1>1, <1>3, <2>2, <2>3, <2>4, MoveInv DEF PCs
  <1> QED
    BY <1>2, <1>3 DEF Decode

\* touch and mkdir with a path.
LEMMA CreateParsedInv == ASSUME IInv, CreateParsed PROVE IInv'
  <1>1. UNCHANGED << disk, cwd, aux >> /\ pc = "parsed"
    BY DEF CreateParsed
  <1>2. CASE Return("err")
    BY <1>1, <1>2, SameDisk, ReturnInv
  <1>3. CASE file # NoFile /\ pc' = "create" /\ at' = file.start_cluster
             /\ UNCHANGED << call, todo, file, buf, res >>
    BY <1>1, <1>3, FoundInv
  <1> QED
    BY <1>2, <1>3 DEF CreateParsed

\* write finds a file.
LEMMA WriteParsedInv == ASSUME IInv, WriteParsed PROVE IInv'
  <1>1. UNCHANGED << disk, cwd, aux >> /\ pc = "parsed"
    BY DEF WriteParsed
  <1>2. CASE Return("err")
    BY <1>1, <1>2, SameDisk, ReturnInv
  <1>3. CASE FoundFile /\ pc' = "store" /\ UNCHANGED << work, res >>
    BY <1>1, <1>3, FoundInv DEF FoundFile, work
  <1> QED
    BY <1>2, <1>3 DEF WriteParsed

\* update_file_size has resolved the path of the parent.
LEMMA UpdateParsedInv == ASSUME IInv, UpdateParsed PROVE IInv'
  <1>1. /\ UNCHANGED << disk, cwd, aux, res >> /\ pc = "reparsed" /\ pc' = "update"
        /\ UNCHANGED << call, todo, file, buf >>
        /\ at' = IF file = NoFile THEN RootCluster ELSE file.start_cluster
    BY DEF UpdateParsed
  <1>2. /\ call' \in Calls /\ todo' \in Seq(Names) /\ buf' \in Seq(Slot)
        /\ file' \in FileInfos \cup {NoFile} /\ FileIsCurrent'
    BY <1>1 DEF IInv, TypeOK, FileIsCurrent, disk, aux
  <1>3. at' \in Nat
    BY <1>1, FileType, DiskInv, ClusterNumbers DEF IInv
  <1>4. at' \in dirs' \/ (FoundFile' /\ at' = file'.start_cluster)
    BY <1>1, DiskInv DEF IInv, FileIsCurrent, IsCurrent, FoundFile, aux
  <1>5. AtIsCurrent' /\ ParsesDirectories'
    BY <1>1, <1>4 DEF AtIsCurrent, ParsesDirectories, Parsing
  <1> QED
    BY <1>1, <1>2, <1>3, <1>5, MoveInv DEF PCs

-----------------------------------------------------------------------------
(* write *)

\* What is stored is text, at most one cluster of it.
LEMMA WrittenType ==
    ASSUME call \in Calls
    PROVE  Written \in Seq(TextSlots) /\ Len(Written) \in Nat
  <1>1. call.text \in Seq(TextSlots)
    BY CallType
  <1>2. SlotsPerCluster \in Nat
    BY SizeAssumption
  <1> QED
    BY <1>1, <1>2 DEF Written, Take

\* The path of the parent is a path.
LEMMA ParentPartsType ==
    ASSUME call \in Calls
    PROVE  ParentParts \in Seq(Names)
  <1>1. call.path.parts \in Seq(Names)
    BY CallType
  <1> QED
    BY <1>1 DEF ParentParts

\* write_file stores data in a cluster that belongs to no directory.
LEMMA StoreSlots ==
    ASSUME IInv, Store
    PROVE  /\ data' \in [Clusters -> [SlotIdx -> Slot]]
           /\ \A p \in dirs, i \in SlotIdx : SameEntry(data[p][i], data'[p][i])
  <1>1. /\ FoundFile /\ call \in Calls /\ data \in [Clusters -> [SlotIdx -> Slot]]
        /\ dirs \subseteq Clusters
    BY DEF Store, IInv, AtIsCurrent, TypeOK
  <1>2. CASE UNCHANGED data
    BY <1>1, <1>2 DEF SameEntry
  <1>3. CASE Readable(file.start_cluster) /\ ~ UNCHANGED data
    <2> DEFINE s == file.start_cluster
               slots == [i \in SlotIdx |-> IF i <= Len(Written) THEN Written[i] ELSE data[s][i]]
    <2>1. data' = [data EXCEPT ![s] = slots]
      BY <1>3 DEF Store
    <2>2. s \in Clusters /\ s \notin dirs
      BY <1>1, <1>3, ClusterNumbers DEF IInv, FoundFile, FileIsCurrent, IsCurrent, Readable
    <2>3. Written \in Seq(TextSlots) /\ Len(Written) \in Nat
      BY <1>1, WrittenType
    <2>4. slots \in [SlotIdx -> Slot]
      <3> SUFFICES ASSUME NEW i \in SlotIdx
                   PROVE  (IF i <= Len(Written) THEN Written[i] ELSE data[s][i]) \in Slot
        OBVIOUS
      <3>1. i <= Len(Written) => Written[i] \in TextSlots
        BY <2>3, SlotNumbers
      <3>2. data[s][i] \in Slot
        BY <1>1, <2>2
      <3> QED
        BY <3>1, <3>2 DEF Slot
    <2> HIDE DEF slots, s
    <2>5. data' \in [Clusters -> [SlotIdx -> Slot]] /\ \A p \in Clusters : p # s => data'[p] = data[p]
      BY Zenon, <1>1, <2>1, <2>4
    <2> QED
      BY <1>1, <2>2, <2>5 DEF SameEntry
  <1> QED
    BY <1>2, <1>3 DEF Store

\* It keeps the invariant.
LEMMA StoreInv == ASSUME IInv, Store PROVE IInv'
  <1>1. pc = "store" /\ FoundFile /\ UNCHANGED << fat, cwd, dirs >> /\ call \in Calls
    BY DEF Store, IInv, AtIsCurrent
  <1>2. Tree(fat', data', dirs')
    BY <1>1, StoreSlots, SameEntriesTree DEF IInv
  <1>3. CASE ~ Readable(file.start_cluster) /\ Panic /\ UNCHANGED << data, content >>
    <2>1. DiskOK'
      BY <1>1, <1>2, <1>3, DiskInv DEF DiskOK
    <2> QED
      BY <1>1, <1>3, <2>1, PanicInv DEF Readable
  <1>4. ASSUME content' = [content EXCEPT ![file.start_cluster] = Written],
               pc' \in {"update", "reparse"}, todo' = ParentParts, at' = RootCluster,
               file' = NoFile, UNCHANGED << call, buf, res >>
        PROVE  IInv'
    <2>1. Written \in Seq(Slot)
      BY <1>1, WrittenType DEF Slot
    <2>2. content' \in [Clusters -> Seq(Slot)]
      BY Zenon, <1>4, <2>1 DEF IInv, TypeOK
    <2>3. DiskOK'
      BY <1>1, <1>2, <2>2, DiskInv DEF DiskOK
    <2>4. at' \in dirs' /\ at' \in Nat
      BY <1>1, <1>4, DiskInv, ClusterNumbers
    <2>5. todo' \in Seq(Names)
      BY <1>1, <1>4, ParentPartsType
    <2>6. buf' \in Seq(Slot)
      BY <1>4 DEF IInv, TypeOK
    <2>7. FileIsCurrent' /\ ParsesDirectories' /\ AtIsCurrent'
      BY <1>4, <2>4 DEF FileIsCurrent, ParsesDirectories, AtIsCurrent
    <2>8. pc' \in PCs \ {"idle", "panic"} /\ call' \in Calls /\ file' \in FileInfos \cup {NoFile}
      BY <1>1, <1>4 DEF PCs
    <2> QED
      BY <1>4, <2>3, <2>4, <2>5, <2>6, <2>7, <2>8, StepInv
  <1> QED
    BY <1>3, <1>4 DEF Store

\* update_file_size changes the size of one entry and nothing else.
LEMMA UpdateSizeSlots ==
    ASSUME IInv, UpdateSize
    PROVE  /\ data' \in [Clusters -> [SlotIdx -> Slot]]
           /\ \A p \in dirs, i \in SlotIdx : SameEntry(data[p][i], data'[p][i])
  <1>1. call \in Calls /\ data \in [Clusters -> [SlotIdx -> Slot]] /\ dirs \subseteq Clusters
    BY DEF UpdateSize, IInv, TypeOK
  <1>2. CASE UNCHANGED data
    BY <1>1, <1>2 DEF SameEntry
  <1>3. ASSUME Readable(at), NEW i \in SameShortName,
               data' = [data EXCEPT ![at][i].size = NewSize]
        PROVE  /\ data' \in [Clusters -> [SlotIdx -> Slot]]
               /\ \A p \in dirs, k \in SlotIdx : SameEntry(data[p][k], data'[p][k])
    <2>1. at \in Clusters /\ i \in SlotIdx /\ data[at][i].tag = "short"
      BY <1>3 DEF Readable, SameShortName
    <2>2. NewSize \in Nat
      BY <1>1, WrittenType DEF NewSize
    <2> DEFINE entry == [data[at][i] EXCEPT !.size = NewSize]
    <2>3. data[at][i] \in ShortSlots
      BY <1>1, <2>1, ShortSlotType
    <2>4. entry \in ShortSlots /\ SameEntry(data[at][i], entry)
      BY <2>2, <2>3 DEF ShortSlots, SameEntry
    <2>5. data' = [data EXCEPT ![at] = [data[at] EXCEPT ![i] = entry]]
      BY <1>3
    <2> HIDE DEF entry
    <2>6. entry \in Slot
      BY <2>4 DEF Slot
    <2>7. data' \in [Clusters -> [SlotIdx -> Slot]]
      BY <1>1, <2>1, <2>5, <2>6
    <2>8. \A p \in Clusters, k \in SlotIdx :
              data'[p][k] = IF p = at /\ k = i THEN entry ELSE data[p][k]
      BY <1>1, <2>1, <2>5
    <2> QED
      BY <1>1, <2>4, <2>7, <2>8 DEF SameEntry
  <1> QED
    BY <1>2, <1>3 DEF UpdateSize, SetSize

\* It keeps the invariant.
LEMMA UpdateSizeInv == ASSUME IInv, UpdateSize PROVE IInv'
  <1>1. /\ UNCHANGED << fat, cwd, aux >> /\ pc = "update"
        /\ Return("err") \/ Return("ok") \/ (~ Readable(at) /\ Panic)
    BY DEF UpdateSize, SetSize
  <1>2. Tree(fat', data', dirs')
    BY <1>1, UpdateSizeSlots, SameEntriesTree DEF IInv, aux
  <1>3. DiskOK'
    BY <1>1, <1>2, DiskInv DEF DiskOK, aux
  <1>4. CASE ~ Readable(at) /\ Panic
    <2>1. FoundFile /\ file.start_cluster \notin Clusters
      BY <1>1, <1>4, DiskInv DEF IInv, AtIsCurrent, Readable
    <2> QED
      BY <1>1, <1>3, <1>4, <2>1, PanicInv
  <1> QED
    BY <1>1, <1>3, <1>4, ReturnInv

-----------------------------------------------------------------------------
(* touch and mkdir *)

\* allocate_cluster keeps the image well-formed, and nothing refers to the
\* cluster it returns.
LEMMA AllocateInv ==
    ASSUME IInv, NEW c, allocate_cluster(c)
    PROVE  /\ c \in Clusters
           /\ Tree(fat', data, dirs)
           /\ Allocated(fat', c)
           /\ Unowned(fat', data, dirs, c)
  <1>1. c \in FreeClusters /\ fat' = [fat EXCEPT ![c] = EndOfChain]
    BY DEF allocate_cluster, IsFirst
  <1>2. c \in Clusters /\ fat[c] = Free
    BY <1>1, SizeAssumption DEF FreeClusters, Clusters
  <1>3. Tree(fat, data, dirs) /\ fat \in [Clusters -> FatValues]
    BY DEF IInv, TypeOK
  <1>4. Tree(fat', data, dirs)
    BY Zenon, <1>1, <1>2, <1>3, AllocateTree
  <1>5. Unowned(fat, data, dirs, c)
    BY <1>2, <1>3, FreeIsUnowned
  <1>6. fat'[c] = EndOfChain /\ \A b \in Clusters : b # c => fat'[b] = fat[b]
    BY <1>1, <1>2, <1>3
  <1>7. EndOfChain # c
    BY <1>2, ClusterNumbers
  <1> QED
    BY <1>2, <1>4, <1>5, <1>6, <1>7, ClusterNumbers DEF Unowned, Allocated

\* The entry that create_file and mkdir make.
LEMMA NewEntryType ==
    ASSUME call \in Calls, ~ IsInvalidName(call.name), NEW c \in Clusters, NEW attr \in {"file", "dir"}
    PROVE  /\ IsNewEntry(NewEntry(c, attr)) /\ NewEntry(c, attr) \in Slot
           /\ NewEntry(c, attr).attr = attr /\ NewEntry(c, attr).cluster = c
  <1> DEFINE name == format_to_8_3(call.name)
  <1>1. call.name \in Seq(Byte) /\ call.name # << >> /\ call.name[1] # EndMark
    BY CallType DEF Names, IsInvalidName
  <1>2. name \in ShortNames /\ name[1] \notin {DotByte, EndMark}
    BY <1>1, FormatType, FormatFirstByte
  <1> HIDE DEF name
  <1>3. c \in Nat
    BY ClusterNumbers
  <1>4. NewEntry(c, attr) = ShortEntry(name, attr, c, 0)
    BY DEF NewEntry, name
  <1> QED
    BY <1>2, <1>3, <1>4 DEF ShortEntry, IsNewEntry, ShortSlots, Attrs, Slot

\* The last part of create_file and mkdir, in the clusters d.
LEMMA AddEntryInv ==
    ASSUME IInv, pc = "create", UNCHANGED cwd, ~ IsInvalidName(call.name),
           NEW c \in Clusters, NEW attr \in {"file", "dir"}, NEW d,
           Tree(fat', d, dirs), Allocated(fat', c), Unowned(fat', d, dirs, c),
           attr = "dir" => IsNewDirectory(d, c, at),
           AddEntry(c, attr, d)
    PROVE  IInv'
  <1>1. cwd' \in dirs /\ content \in [Clusters -> Seq(Slot)] /\ call \in Calls
    BY DEF IInv, TypeOK, SessionInDirectory
  <1>2. CASE ~ Readable(at) /\ Panic /\ data' = d /\ UNCHANGED aux
    <2>1. DiskOK'
      BY <1>1, <1>2 DEF DiskOK, aux
    <2>2. FoundFile /\ at = file.start_cluster
      BY Zenon, <1>2, DiskInv DEF IInv, AtIsCurrent, Readable
    <2> QED
      BY <1>2, <2>1, <2>2, PanicInv DEF Readable
  <1>3. CASE data' = d /\ Return("err") /\ UNCHANGED aux
    <2>1. DiskOK'
      BY <1>1, <1>3 DEF DiskOK, aux
    <2> QED
      BY <1>3, <2>1, ReturnInv
  <1>4. ASSUME Readable(at), NEW i \in FreeSlots(d[at]), IsFirst(i, FreeSlots(d[at])),
               data' = [d EXCEPT ![at] = [d[at] EXCEPT ![i] = NewEntry(c, attr)]],
               dirs' = IF attr = "dir" /\ at \in dirs
                          /\ IsListed([d[at] EXCEPT ![i] = NewEntry(c, attr)], i)
                       THEN dirs \cup {c} ELSE dirs,
               content' = [content EXCEPT ![c] = << >>],
               Return("ok")
        PROVE  IInv'
    <2> DEFINE e == NewEntry(c, attr)
               slots == [d[at] EXCEPT ![i] = e]
    <2>1. IsNewEntry(e) /\ e \in Slot /\ e.attr = attr /\ e.cluster = c
      BY <1>1, NewEntryType
    <2>2. i \in SlotIdx /\ at \in Clusters
      BY <1>4 DEF FreeSlots, Readable
    <2>3. data' = WithEntry(d, at, i, e)
      BY <1>4 DEF WithEntry
    <2>4. d \in [Clusters -> [SlotIdx -> Slot]]
      BY DEF Tree
    <2>5. data'[at] = slots
      BY <1>4, <2>2, <2>4
    <2>6. dirs' = IF attr = "dir" /\ at \in dirs /\ IsListed(data'[at], i) THEN dirs \cup {c} ELSE dirs
      BY <1>4, <2>5
    <2>7. Describes(e, attr, c)
      BY <2>1 DEF Describes
    <2> HIDE DEF e, slots
    <2>8. Tree(fat', data', dirs')
      <3>1. IsCreation(fat', d, dirs, at, i, e, attr, c, data', dirs')
        BY Zenon, <1>4, <2>1, <2>2, <2>3, <2>6, <2>7 DEF IsCreation
      <3> QED
        BY Zenon, <3>1, CreateTree
    <2>9. content' \in [Clusters -> Seq(Slot)]
      BY <1>1, <1>4
    <2>10. cwd' \in dirs'
      BY Zenon, <1>1, <2>6
    <2>11. DiskOK'
      BY <2>8, <2>9, <2>10 DEF DiskOK
    <2> QED
      BY <1>4, <2>11, ReturnInv
  <1> QED
    BY Zenon, <1>2, <1>3, <1>4 DEF AddEntry

\* The cluster c is allocated and the clusters d are ready for an entry of the
\* kind attr for it: a directory is set up, and no directory has changed.
IsReady(c, attr, d) ==
    /\ c \in Clusters /\ fat[c] = Free /\ fat' = [fat EXCEPT ![c] = EndOfChain]
    /\ Tree(fat', d, dirs) /\ Allocated(fat', c) /\ Unowned(fat', d, dirs, c)
    /\ attr \in {"file", "dir"}
    /\ attr = "dir" => IsNewDirectory(d, c, at)
    /\ \A p \in dirs : d[p] = data[p]

\* allocate_cluster makes c ready for a file.
LEMMA AllocateReady ==
    ASSUME IInv, NEW c, allocate_cluster(c)
    PROVE  IsReady(c, "file", data)
  <1>1. c \in FreeClusters /\ fat' = [fat EXCEPT ![c] = EndOfChain]
    BY DEF allocate_cluster, IsFirst
  <1>2. c \in Clusters /\ fat[c] = Free
    BY <1>1, SizeAssumption DEF FreeClusters, Clusters
  <1> QED
    BY Zenon, <1>1, <1>2, AllocateInv DEF IsReady

\* init_directory_cluster makes it ready for a directory.
LEMMA NewDirectoryReady ==
    ASSUME IInv, NEW c, allocate_cluster(c)
    PROVE  IsReady(c, "dir", WithNewDirectory(c))
  <1> DEFINE d == WithNewDirectory(c)
             cl == init_directory_cluster(c, at)
  <1>1. /\ c \in Clusters /\ fat[c] = Free /\ fat' = [fat EXCEPT ![c] = EndOfChain]
        /\ Allocated(fat', c) /\ Tree(fat', data, dirs) /\ Unowned(fat', data, dirs, c)
    BY AllocateReady DEF IsReady
  <1>2. c \in Nat /\ at \in Nat /\ data \in [Clusters -> [SlotIdx -> Slot]] /\ dirs \subseteq Clusters
    BY <1>1, ClusterNumbers DEF IInv, TypeOK
  <1>3. cl \in [SlotIdx -> Slot]
    <2>1. ShortEntry(DotName, "dir", c, 0) \in Slot
      BY <1>2, DotNamesType, ShortEntryType DEF Attrs
    <2>2. ShortEntry(DotDotName, "dir", IF at = RootCluster THEN 0 ELSE at, 0) \in Slot
      BY <1>2, DotNamesType, ShortEntryType DEF Attrs
    <2>3. Blank(EndMark) \in Slot
      BY DEF Blank, Slot, BlankSlots
    <2> QED
      BY <2>1, <2>2, <2>3 DEF init_directory_cluster
  <1>4. d = [data EXCEPT ![c] = cl]
    BY DEF WithNewDirectory
  <1> HIDE DEF d, cl
  <1>5. /\ d \in [Clusters -> [SlotIdx -> Slot]] /\ d[c] = cl
        /\ \A p \in Clusters : p # c => d[p] = data[p]
    BY <1>1, <1>2, <1>3, <1>4
  <1>6. \A p \in dirs : d[p] = data[p]
    BY <1>1, <1>2, <1>5 DEF Unowned
  <1>7. \A p \in dirs, k \in SlotIdx : SameEntry(data[p][k], d[p][k])
    BY <1>6 DEF SameEntry
  <1>8. Tree(fat', d, dirs)
    BY <1>1, <1>5, <1>7, SameEntriesTree
  <1>9. Unowned(fat', d, dirs, c)
    <2>1. \A p \in dirs, k \in SlotIdx :
              (IsChild(d, p, k) <=> IsChild(data, p, k)) /\ StartOf(d, p, k) = StartOf(data, p, k)
      BY <1>6 DEF IsChild, StartOf
    <2> QED
      BY Zenon, <1>1, <2>1 DEF Unowned
  <1>10. IsNewDirectory(d, c, at)
    BY <1>5 DEF cl, IsNewDirectory
  <1>11. IsReady(c, "dir", d)
    BY <1>1, <1>6, <1>8, <1>9, <1>10 DEF IsReady
  <1> QED
    BY <1>11 DEF d

\* create_file and mkdir fail and change nothing, fail once the cluster is
\* ready, or go on to the entry.
LEMMA CreateCases ==
    ASSUME IInv, Touch \/ Mkdir
    PROVE  /\ pc = "create" /\ UNCHANGED cwd
           /\ \/ Return("err") /\ UNCHANGED << disk, aux >>
              \/ \E c, attr, d :
                    /\ IsReady(c, attr, d)
                    /\ \/ Return("err") /\ data' = d /\ UNCHANGED aux
                       \/ ~ IsInvalidName(call.name) /\ AddEntry(c, attr, d)
  <1>1. CASE Touch
    <2>1. CASE Return("err") /\ UNCHANGED << disk, aux >>
      BY <1>1, <2>1 DEF Touch
    <2>2. ASSUME ~ IsInvalidName(call.name), NEW c, allocate_cluster(c), AddEntry(c, "file", data)
          PROVE  \E a, attr, d : /\ IsReady(a, attr, d)
                                 /\ ~ IsInvalidName(call.name) /\ AddEntry(a, attr, d)
      BY Zenon, <2>2, AllocateReady
    <2> QED
      BY Zenon, <1>1, <2>1, <2>2 DEF Touch
  <1>2. CASE Mkdir
    <2>1. ASSUME NEW c, allocate_cluster(c),
                 Return("err"), data' = WithNewDirectory(c), UNCHANGED aux
          PROVE  \E a, attr, d : IsReady(a, attr, d) /\ Return("err") /\ data' = d /\ UNCHANGED aux
      BY Zenon, <2>1, NewDirectoryReady
    <2>2. ASSUME NEW c, allocate_cluster(c),
                 ~ IsInvalidName(call.name), AddEntry(c, "dir", WithNewDirectory(c))
          PROVE  \E a, attr, d : /\ IsReady(a, attr, d)
                                 /\ ~ IsInvalidName(call.name) /\ AddEntry(a, attr, d)
      BY Zenon, <2>2, NewDirectoryReady
    <2> QED
      BY Zenon, <1>2, <2>1, <2>2 DEF Mkdir
  <1> QED
    BY <1>1, <1>2

\* create_file and mkdir keep the invariant.
LEMMA CreateInv == ASSUME IInv, Touch \/ Mkdir PROVE IInv'
  <1>1. pc = "create" /\ UNCHANGED cwd
    BY CreateCases
  <1>2. CASE Return("err") /\ UNCHANGED << disk, aux >>
    BY <1>1, <1>2, SameDisk, ReturnInv
  <1>3. ASSUME NEW c, NEW attr, NEW d, IsReady(c, attr, d),
               Return("err"), data' = d, UNCHANGED aux
        PROVE  IInv'
    <2>1. Tree(fat', data', dirs')
      BY <1>3 DEF IsReady, aux
    <2>2. DiskOK'
      BY <1>1, <1>3, <2>1, DiskInv DEF DiskOK, aux
    <2> QED
      BY <1>3, <2>2, ReturnInv
  <1>4. ASSUME NEW c, NEW attr, NEW d, IsReady(c, attr, d),
               ~ IsInvalidName(call.name), AddEntry(c, attr, d)
        PROVE  IInv'
    BY Zenon, <1>1, <1>4, AddEntryInv DEF IsReady
  <1> QED
    BY Zenon, <1>2, <1>3, <1>4, CreateCases

-----------------------------------------------------------------------------
(* What the invariant gives *)

\* The mounted image satisfies the invariant.
LEMMA InitInv == ASSUME Init PROVE IInv
  <1>1. Tree(InitFat, InitData, InitDirs)
    BY ImageAssumption
  <1>2. InitDirs \subseteq Clusters /\ RootCluster \in InitDirs
    BY <1>1 DEF Tree, DirsOK
  <1>3. TypeOK
    BY <1>1, <1>2, ImageAssumption, ClusterNumbers DEF Init, Tree, TypeOK, PCs
  <1> QED
    BY <1>1, <1>2, <1>3 DEF Init, IInv, SessionInDirectory, ParsesDirectories, Parsing,
                            PanicOnlyOnEmptyFile, FileIsCurrent, AtIsCurrent

\* Every step keeps the invariant.
LEMMA NextInv == ASSUME IInv, [Next]_vars PROVE IInv'
  <1>1. ASSUME NEW c \in Calls, Begin(c) PROVE IInv'
    BY <1>1, BeginInv
  <1>2. CASE Step
    <2>1. CASE Show
      BY <2>1, SameDisk, ReturnInv DEF Show
    <2> QED
      BY <1>2, <2>1, ParseInv, LsParsedInv, ListInv, CdParsedInv, CatParsedInv, ReadInv, DecodeInv,
         CreateParsedInv, CreateInv, WriteParsedInv, StoreInv, UpdateParsedInv, UpdateSizeInv
         DEF Step
  <1>3. CASE UNCHANGED vars
    <2>1. IInv' = IInv
      BY <1>3 DEF IInv, TypeOK, SessionInDirectory, ParsesDirectories, Parsing,
                  PanicOnlyOnEmptyFile, FileIsCurrent, AtIsCurrent, FoundFile, vars
    <2> QED
      BY <2>1
  <1>4. CASE Halted
    BY <1>3, <1>4 DEF Halted
  <1> QED
    BY <1>1, <1>2, <1>3, <1>4 DEF Next

\* The inductive invariant holds in every state of the file system.
THEOREM Invariance == Spec => []IInv
  <1>1. Init => IInv
    BY InitInv
  <1>2. IInv /\ [Next]_vars => IInv'
    BY NextInv
  <1> QED
    BY <1>1, <1>2, PTL DEF Spec

\* Every variable keeps its type, whatever the image and the calls.
THEOREM TypeCorrect == Spec => []TypeOK
  <1>1. IInv => TypeOK
    BY DEF IInv
  <1> QED
    BY <1>1, Invariance, PTL

\* create_file, mkdir and write_file never make two entries share a cluster
\* and never hand out a cluster that is in use.
THEOREM ClustersAreOwned == Spec => []ClusterOwnership
  <1>1. IInv => ClusterOwnership
    BY DEF IInv, Tree, ClusterOwnership
  <1> QED
    BY <1>1, Invariance, PTL

\* "." and ".." of every directory that mkdir makes stay right for ever.
THEOREM DotEntriesAreRight == Spec => []DotEntries
  <1>1. IInv => DotEntries
    BY DEF IInv, Tree, DotEntries
  <1> QED
    BY <1>1, Invariance, PTL

\* No entry is ever stored where list_directory_entries would not see it.
THEOREM NothingIsHidden == Spec => []NothingBehindEndMark
  <1>1. IInv => NothingBehindEndMark
    BY DEF IInv, Tree, NothingBehindEndMark
  <1> QED
    BY <1>1, Invariance, PTL

\* The session's current directory is always a directory of the tree.
THEOREM SessionStaysInTree == Spec => []SessionInDirectory
  <1>1. IInv => SessionInDirectory
    BY DEF IInv
  <1> QED
    BY <1>1, Invariance, PTL

\* parse_path only ever lists directories of the tree, in both of its walks.
THEOREM ParseStaysInTree == Spec => []ParsesDirectories
  <1>1. IInv => ParsesDirectories
    BY DEF IInv
  <1> QED
    BY <1>1, Invariance, PTL

\* The FileInfo a call holds stays right until the call returns.
THEOREM FileInfoStaysRight == Spec => []FileIsCurrent
  <1>1. IInv => FileIsCurrent
    BY DEF IInv
  <1> QED
    BY <1>1, Invariance, PTL

\* A call can panic only on a file entry that has no cluster.
THEOREM PanicIsOnEmptyFile == Spec => []PanicOnlyOnEmptyFile
  <1>1. IInv => PanicOnlyOnEmptyFile
    BY DEF IInv
  <1> QED
    BY <1>1, Invariance, PTL

\* Every directory can be reached from the root, and mkdir cuts none off.
THEOREM DirsStayReachable == Spec => []DirsAreReachable
  <1>1. IInv => DirsAreReachable
    BY DEF IInv, Tree, DirsAreReachable
  <1> QED
    BY <1>1, Invariance, PTL

-----------------------------------------------------------------------------
(* What a step may never do *)

\* The entry for the cluster c goes to slot i of the clusters d, in the cluster
\* the call works on.
IsAdded(c, attr, d, i) ==
    /\ at \in Clusters /\ i \in SlotIdx /\ IsFirst(i, FreeSlots(d[at]))
    /\ data' = WithEntry(d, at, i, NewEntry(c, attr))
    /\ IsNewEntry(NewEntry(c, attr)) /\ Describes(NewEntry(c, attr), attr, c)
    /\ dirs \subseteq dirs'

\* The last part of create_file and mkdir adds the entry and succeeds, or
\* leaves the clusters as they were made ready.
LEMMA AddEntryCases ==
    ASSUME IInv, pc = "create", NEW c, NEW attr, NEW d, IsReady(c, attr, d),
           ~ IsInvalidName(call.name), AddEntry(c, attr, d)
    PROVE  \/ data' = d /\ dirs' = dirs /\ ~ CreateReturns("ok")
           \/ (\E i : IsAdded(c, attr, d, i)) /\ ~ CreateReturns("err")
  <1>1. CASE Panic /\ data' = d /\ UNCHANGED aux
    BY <1>1 DEF Panic, aux, CreateReturns
  <1>2. CASE data' = d /\ Return("err") /\ UNCHANGED aux
    BY <1>2 DEF Return, aux, CreateReturns
  <1>3. ASSUME Readable(at), NEW i \in FreeSlots(d[at]), IsFirst(i, FreeSlots(d[at])),
               data' = [d EXCEPT ![at] = [d[at] EXCEPT ![i] = NewEntry(c, attr)]],
               dirs \subseteq dirs',
               Return("ok")
        PROVE  IsAdded(c, attr, d, i) /\ ~ CreateReturns("err")
    <2>1. call \in Calls
      BY DEF IInv
    <2>2. c \in Clusters /\ attr \in {"file", "dir"}
      BY Zenon DEF IsReady
    <2>3. IsNewEntry(NewEntry(c, attr)) /\ Describes(NewEntry(c, attr), attr, c)
      BY <2>1, <2>2, NewEntryType DEF Describes
    <2> QED
      BY <1>3, <2>3 DEF IsAdded, WithEntry, Readable, FreeSlots, Return, CreateReturns
  <1> QED
    BY Zenon, <1>1, <1>2, <1>3 DEF AddEntry

\* Slot i of the directory p is listed as before.
Stays(p, i) ==
    /\ IsListed(data'[p], i)
    /\ data'[p][i].name = data[p][i].name
    /\ EntryName(data'[p], i) = EntryName(data[p], i)
    /\ IsDir(data', p, i) <=> IsDir(data, p, i)
    /\ StartOf(data', p, i) = StartOf(data, p, i)

\* A change of sizes changes no listing.
LEMMA SizesStay ==
    ASSUME NEW p, NEW i \in SlotIdx, IsListed(data[p], i),
           \A k \in SlotIdx : SameEntry(data[p][k], data'[p][k])
    PROVE  Stays(p, i)
  <1>1. SlotsPerCluster \in Nat /\ SlotIdx = 1 .. SlotsPerCluster
    BY SizeAssumption DEF SlotIdx
  <1>2. data[p][i].tag = "short"
    BY DEF IsListed
  <1>3. IsListed(data'[p], i)
    BY <1>1, SameEntriesListed
  <1>4. EntryName(data'[p], i) = EntryName(data[p], i)
    BY <1>1, <1>2, SameEntriesName
  <1>5. /\ data'[p][i].name = data[p][i].name
        /\ data'[p][i].attr = data[p][i].attr /\ data'[p][i].cluster = data[p][i].cluster
    BY <1>2 DEF SameEntry
  <1> QED
    BY Zenon, <1>3, <1>4, <1>5 DEF Stays, IsDir, StartOf

\* A new entry takes a slot that is not listed, and changes no other.
LEMMA AddedStay ==
    ASSUME IInv, NEW c, NEW attr, NEW d, IsReady(c, attr, d), NEW i, IsAdded(c, attr, d, i),
           NEW p \in dirs, NEW k \in SlotIdx, IsListed(data[p], k)
    PROVE  Stays(p, k)
  <1> DEFINE e == NewEntry(c, attr)
  <1>1. /\ Tree(fat', d, dirs) /\ d[p] = data[p] /\ p \in Clusters
        /\ d \in [Clusters -> [SlotIdx -> Slot]]
    BY Zenon, DiskInv DEF IsReady, Tree
  <1>2. /\ at \in Clusters /\ i \in SlotIdx /\ IsFirst(i, FreeSlots(d[at]))
        /\ data' = WithEntry(d, at, i, e) /\ IsNewEntry(e)
    BY DEF IsAdded
  <1> HIDE DEF e
  <1>3. CASE p # at
    <2>1. data'[p] = data[p]
      BY Zenon, <1>1, <1>2, <1>3 DEF WithEntry
    <2> QED
      BY <2>1 DEF Stays, IsDir, StartOf
  <1>4. CASE p = at
    <2>1. IsAddition(fat', d, dirs, p, i, e) /\ data' = WithEntry(d, p, i, e)
      BY Zenon, <1>1, <1>2, <1>4 DEF IsAddition
    <2>2. OneMore(d, data', p, i, e)
      BY Zenon, <2>1, AdditionIsOneMore
    <2>3. k # i
      BY Zenon, <1>1, <2>2 DEF OneMore
    <2>4. /\ data'[p][k] = data[p][k] /\ IsListed(data'[p], k)
          /\ EntryName(data'[p], k) = EntryName(data[p], k)
      BY Zenon, <1>1, <2>2, <2>3 DEF OneMore, SameView, IsChild, IsDotEntry
    <2> QED
      BY <2>4 DEF Stays, IsDir, StartOf
  <1> QED
    BY <1>3, <1>4

\* The steps other than Touch, Mkdir, Store and UpdateSize leave the disk and
\* the set of directories alone.
LEMMA DiskSteps ==
    ASSUME [Next]_vars
    PROVE  UNCHANGED << disk, dirs >> \/ Touch \/ Mkdir \/ Store \/ UpdateSize
  <1>1. CASE UNCHANGED vars
    BY <1>1 DEF vars, disk
  <1>2. CASE Parse \/ LsParsed \/ List \/ CdParsed \/ CatParsed \/ Read
    BY <1>2 DEF Parse, LsParsed, List, CdParsed, CatParsed, Read, aux
  <1>3. CASE Decode \/ Show \/ CreateParsed \/ WriteParsed \/ UpdateParsed
    BY <1>3 DEF Decode, Show, CreateParsed, WriteParsed, UpdateParsed, aux
  <1>4. ASSUME NEW c \in Calls, Begin(c)
        PROVE  UNCHANGED << disk, dirs >>
    BY <1>4 DEF Begin, aux
  <1>5. CASE Halted
    BY <1>1, <1>5 DEF Halted
  <1> QED
    BY <1>1, <1>2, <1>3, <1>4, <1>5 DEF Next, Step

\* Every listed entry stays, whatever the step.
LEMMA EntriesStay ==
    ASSUME IInv, [Next]_vars, NEW p \in dirs, NEW i \in SlotIdx, IsListed(data[p], i)
    PROVE  Stays(p, i)
  <1>1. CASE data'[p] = data[p]
    BY <1>1 DEF Stays, IsDir, StartOf
  <1>2. CASE Store
    BY <1>2, StoreSlots, SizesStay
  <1>3. CASE UpdateSize
    BY <1>3, UpdateSizeSlots, SizesStay
  <1>4. CASE Touch \/ Mkdir
    <2>1. pc = "create"
      BY <1>4, CreateCases
    <2>2. CASE UNCHANGED disk
      BY <1>1, <2>2 DEF disk
    <2>3. ASSUME NEW c, NEW attr, NEW d, IsReady(c, attr, d), data' = d
          PROVE  Stays(p, i)
      BY Zenon, <1>1, <2>3 DEF IsReady
    <2>4. ASSUME NEW c, NEW attr, NEW d, IsReady(c, attr, d),
                 ~ IsInvalidName(call.name), AddEntry(c, attr, d)
          PROVE  Stays(p, i)
      <3>1. CASE data' = d
        BY <2>3, <2>4, <3>1
      <3>2. ASSUME NEW k, IsAdded(c, attr, d, k)
            PROVE  Stays(p, i)
        BY <2>4, <3>2, AddedStay
      <3> QED
        BY Zenon, <2>1, <2>4, <3>1, <3>2, AddEntryCases
    <2> QED
      BY Zenon, <1>4, <2>2, <2>3, <2>4, CreateCases
  <1> QED
    BY <1>1, <1>2, <1>3, <1>4, DiskSteps DEF disk

\* No step removes or renames a listed entry, changes its kind or moves it to
\* another cluster: create_file and mkdir take free slots only, and
\* update_file_size changes sizes only.
THEOREM EntriesArePermanent == Spec => EntriesPersist
  <1>1. ASSUME IInv, [Next]_vars
        PROVE  \A p \in dirs : data'[p] # data[p] =>
                 \A i \in SlotIdx : IsListed(data[p], i) =>
                    /\ IsListed(data'[p], i)
                    /\ EntryName(data'[p], i) = EntryName(data[p], i)
                    /\ IsDir(data', p, i) <=> IsDir(data, p, i)
                    /\ StartOf(data', p, i) = StartOf(data, p, i)
    BY <1>1, EntriesStay DEF Stays
  <1> QED
    BY <1>1, Invariance, PTL DEF Spec, EntriesPersist

\* What is a child stays one, so a step that allocates the cluster c loses no
\* other cluster.
LEMMA LostIsNew ==
    ASSUME IInv, [Next]_vars, NEW c \in Clusters, fat[c] = Free,
           fat' = [fat EXCEPT ![c] = EndOfChain], dirs \subseteq dirs'
    PROVE  LostClusters' \ LostClusters \subseteq {c}
  <1> SUFFICES ASSUME NEW x \in LostClusters', x # c
               PROVE  x \in LostClusters
    OBVIOUS
  <1>1. fat \in [Clusters -> FatValues]
    BY DEF IInv, TypeOK
  <1>2. /\ x \in Clusters /\ x \notin dirs /\ fat'[x] # Free
        /\ \A b \in Clusters : fat'[b] # x
        /\ \A p \in dirs, i \in SlotIdx : IsChild(data', p, i) => StartOf(data', p, i) # x
    BY DEF LostClusters
  <1>3. fat[x] # Free
    BY <1>1, <1>2
  <1>4. \A b \in Clusters : fat[b] # x
    BY <1>1, <1>2, ClusterNumbers
  <1>5. ASSUME NEW p \in dirs, NEW i \in SlotIdx, IsChild(data, p, i)
        PROVE  StartOf(data, p, i) # x
    <2>1. Stays(p, i)
      BY <1>5, EntriesStay DEF IsChild
    <2>2. IsChild(data', p, i) /\ StartOf(data', p, i) = StartOf(data, p, i)
      BY Zenon, <1>5, <2>1 DEF Stays, IsChild
    <2> QED
      BY <1>2, <2>2
  <1> QED
    BY <1>2, <1>3, <1>4, <1>5 DEF LostClusters

\* The step of a call that is at "create" is one of create_file or mkdir.
LEMMA CreateSteps ==
    ASSUME [Next]_vars, pc = "create", pc' # pc
    PROVE  Touch \/ Mkdir
  <1>1. ~ UNCHANGED vars /\ ~ Halted
    BY DEF vars, Halted
  <1>2. ~ (Parse \/ LsParsed \/ List \/ CdParsed \/ CatParsed \/ Read \/ Decode \/ Show)
    BY DEF Parse, Parsing, LsParsed, List, CdParsed, CatParsed, Read, Decode, Show
  <1>3. ~ (CreateParsed \/ WriteParsed \/ Store \/ UpdateParsed \/ UpdateSize)
    BY DEF CreateParsed, WriteParsed, Store, UpdateParsed, UpdateSize
  <1>4. \A c \in Calls : ~ Begin(c)
    BY DEF Begin
  <1> QED
    BY <1>1, <1>2, <1>3, <1>4 DEF Next, Step

\* A touch or mkdir that fails changes no directory, whichever check fails and
\* however far it got, and loses at most the cluster it had allocated.
THEOREM FailedCreateIsHarmless == Spec => FailedCreateKeepsTree
  <1>1. ASSUME IInv, [Next]_vars, CreateReturns("err")
        PROVE  /\ dirs' = dirs
               /\ \A p \in dirs : data'[p] = data[p]
               /\ Cardinality(LostClusters' \ LostClusters) <= 1
    <2>1. pc = "create" /\ pc' = "idle" /\ res' = "err"
      BY <1>1 DEF CreateReturns
    <2>2. Touch \/ Mkdir
      BY <1>1, <2>1, CreateSteps
    <2>3. CASE UNCHANGED << disk, aux >>
      <3>1. LostClusters' \ LostClusters = {}
        BY <2>3 DEF LostClusters, disk, aux, IsChild, StartOf
      <3> QED
        BY <2>3, <3>1, FS_EmptySet DEF disk, aux
    <2>4. ASSUME NEW c, NEW attr, NEW d, IsReady(c, attr, d), data' = d, dirs' = dirs
          PROVE  /\ \A p \in dirs : data'[p] = data[p]
                 /\ Cardinality(LostClusters' \ LostClusters) <= 1
      <3>1. \A p \in dirs : data'[p] = data[p]
        BY Zenon, <2>4 DEF IsReady
      <3>2. LostClusters' \ LostClusters \subseteq {c}
        BY Zenon, <1>1, <2>4, LostIsNew DEF IsReady
      <3>3. IsFiniteSet({c}) /\ Cardinality({c}) = 1
        BY FS_Singleton
      <3>4. Cardinality(LostClusters' \ LostClusters) <= Cardinality({c})
        BY <3>2, <3>3, FS_Subset
      <3> QED
        BY <3>1, <3>3, <3>4
    <2>5. ASSUME NEW c, NEW attr, NEW d, IsReady(c, attr, d),
                 ~ IsInvalidName(call.name), AddEntry(c, attr, d)
          PROVE  data' = d /\ dirs' = dirs
      BY <1>1, <2>1, <2>5, AddEntryCases
    <2> QED
      BY Zenon, <1>1, <2>2, <2>3, <2>4, <2>5, CreateCases DEF aux
  <1> QED
    BY <1>1, Invariance, PTL DEF Spec, FailedCreateKeepsTree

\* A touch or mkdir that succeeds in a directory loses no cluster: the entry it
\* adds is listed and refers to the cluster it allocated.
THEOREM CreateIsLossless == Spec => CreateLosesNothing
  <1>1. ASSUME IInv, [Next]_vars, CreateReturns("ok"), at \in dirs, call.name[1] # DeletedMark
        PROVE  LostClusters' \subseteq LostClusters
    <2>1. pc = "create" /\ pc' = "idle" /\ res' = "ok"
      BY <1>1 DEF CreateReturns
    <2>2. Touch \/ Mkdir
      BY <1>1, <2>1, CreateSteps
    <2>3. ~ Return("err")
      BY <2>1 DEF Return
    <2>4. PICK c, attr, d : IsReady(c, attr, d) /\ ~ IsInvalidName(call.name) /\ AddEntry(c, attr, d)
      BY Zenon, <1>1, <2>2, <2>3, CreateCases
    <2>5. PICK i : IsAdded(c, attr, d, i)
      BY Zenon, <1>1, <2>1, <2>4, AddEntryCases
    <2> DEFINE e == NewEntry(c, attr)
    <2>6. e.name[1] # DeletedMark
      <3>1. call \in Calls
        BY <1>1, <2>1 DEF IInv
      <3>2. call.name \in Seq(Byte) /\ call.name[1] # EndMark
        BY <2>4, <3>1, CallType DEF Names, IsInvalidName
      <3>3. e.name = format_to_8_3(call.name)
        BY DEF NewEntry, ShortEntry
      <3> QED
        BY <1>1, <2>4, <3>2, <3>3, FormatFirstByte
    <2>7. /\ Tree(fat', d, dirs) /\ i \in SlotIdx /\ IsFirst(i, FreeSlots(d[at]))
          /\ data' = WithEntry(d, at, i, e) /\ IsNewEntry(e) /\ Describes(e, attr, c)
          /\ dirs \subseteq dirs'
      BY Zenon, <2>4, <2>5 DEF IsReady, IsAdded
    <2> HIDE DEF e
    <2>8. IsChild(data', at, i) /\ data'[at][i] = e
      <3>1. IsAddition(fat', d, dirs, at, i, e)
        BY Zenon, <1>1, <2>7 DEF IsAddition
      <3>2. OneMore(d, data', at, i, e)
        BY Zenon, <2>7, <3>1, AdditionIsOneMore
      <3> QED
        BY Zenon, <2>6, <3>2 DEF OneMore
    <2>9. StartOf(data', at, i) = c
      BY <2>7, <2>8 DEF StartOf, Describes
    <2>10. c \notin LostClusters'
      BY Zenon, <1>1, <2>7, <2>8, <2>9 DEF LostClusters
    <2>11. LostClusters' \ LostClusters \subseteq {c}
      BY Zenon, <1>1, <2>4, <2>7, LostIsNew DEF IsReady
    <2> QED
      BY <2>10, <2>11
  <1> QED
    BY <1>1, Invariance, PTL DEF Spec, CreateLosesNothing
=============================================================================
