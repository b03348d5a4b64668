----------------------------- MODULE TreeProofs -----------------------------
(***************************************************************************)
(* Facts about short names and directory slots, and what keeps an image    *)
(* well-formed: the changes that touch and mkdir, and a write, make to the *)
(* FAT and to the slots, one lemma for each.                               *)
(***************************************************************************)
EXTENDS Image, TLAPS

(* Short names *)

\* upper-casing keeps a byte a byte and makes neither a dot, nor NUL, nor 0xE5.
LEMMA UpperByte ==
    ASSUME NEW b \in Byte
    PROVE  /\ Upper(b) \in Byte
           /\ Upper(b) = DotByte <=> b = DotByte
           /\ Upper(b) = EndMark <=> b = EndMark
           /\ Upper(b) = DeletedMark <=> b = DeletedMark
  BY DEF Upper, Byte, DotByte, EndMark, DeletedMark

\* Every byte of a formatted part is a byte.
LEMMA PaddedByteType ==
    ASSUME NEW name \in Seq(Byte), NEW p \in Nat, NEW k \in Nat \ {0}
    PROVE  PaddedByte(name, p, k) \in Byte
  <1>1. Space \in Byte
    BY DEF Space, Byte
  <1>2. p + k <= Len(name) => name[p + k] \in Byte
    OBVIOUS
  <1> QED
    BY <1>1, <1>2, UpperByte DEF PaddedByte

\* format_to_8_3 makes an 11-byte name.
LEMMA FormatType ==
    ASSUME NEW name \in Seq(Byte)
    PROVE  format_to_8_3(name) \in ShortNames
  <1>1. ASSUME NEW k \in 1 .. ShortNameWidth, k <= NameWidth
        PROVE  StemByte(name, k) \in Byte
    BY PaddedByteType DEF StemByte, ShortNameWidth, NameWidth, ExtWidth
  <1>2. ASSUME NEW k \in 1 .. ShortNameWidth, ~ (k <= NameWidth)
        PROVE  ExtensionByte(name, k - NameWidth) \in Byte
    <2>1. k - NameWidth \in Nat \ {0}
      BY <1>2 DEF ShortNameWidth, NameWidth, ExtWidth
    <2>2. CASE FirstDots(name) = {}
      BY <2>2 DEF ExtensionByte, Space, Byte
    <2>3. CASE FirstDots(name) # {}
      <3> DEFINE p == CHOOSE q \in FirstDots(name) : TRUE
      <3>1. p \in FirstDots(name)
        BY <2>3
      <3>2. p \in Nat
        BY <3>1 DEF FirstDots
      <3>3. PaddedByte(name, p, k - NameWidth) \in Byte
        BY <2>1, <3>2, PaddedByteType
      <3> QED
        BY <2>3, <3>3 DEF ExtensionByte
    <2> QED
      BY <2>2, <2>3
  <1> QED
    BY <1>1, <1>2 DEF format_to_8_3, ShortNames

\* The first byte of the short name of a valid name that does not start with
\* NUL is neither a dot nor an end mark; it is 0xE5 only if the name starts
\* with that byte.
LEMMA FormatFirstByte ==
    ASSUME NEW name \in Seq(Byte), ~ IsInvalidName(name), name[1] # EndMark
    PROVE  /\ format_to_8_3(name)[1] \notin {DotByte, EndMark}
           /\ format_to_8_3(name)[1] = DeletedMark <=> name[1] = DeletedMark
  <1>1. name # << >> /\ name[1] # DotByte
    BY DEF IsInvalidName
  <1>2. Len(name) >= 1 /\ name[1] \in Byte
    BY <1>1
  <1>3. \A j \in 0 + 1 .. 0 + 1 : j = 1
    OBVIOUS
  <1>4. StemByte(name, 1) = Upper(name[1])
    BY <1>1, <1>2, <1>3 DEF StemByte, PaddedByte
  <1>5. format_to_8_3(name)[1] = StemByte(name, 1)
    BY DEF format_to_8_3, ShortNameWidth, NameWidth, ExtWidth
  <1> QED
    BY <1>1, <1>2, <1>4, <1>5, UpperByte

\* short_name_to_string cuts exactly the trailing spaces.
LEMMA TrimmedLenIs ==
    ASSUME NEW s \in Seq(Byte), NEW n \in 0 .. Len(s),
           \A k \in n + 1 .. Len(s) : s[k] = Space,
           n > 0 => s[n] # Space
    PROVE  TrimmedLen(s) = n
  <1> DEFINE t == TrimmedLen(s)
  <1>1. /\ t \in 0 .. Len(s)
        /\ \A k \in t + 1 .. Len(s) : s[k] = Space
        /\ t > 0 => s[t] # Space
    BY DEF TrimmedLen
  <1>2. ~ (t < n)
    BY <1>1
  <1>3. ~ (n < t)
    BY <1>1
  <1> HIDE DEF t
  <1>4. t = n
    BY <1>1, <1>2, <1>3
  <1> QED
    BY <1>4 DEF t

\* A short name of n dots and spaces, with n at most 2.
DotsName(n) == [k \in 1 .. ShortNameWidth |-> IF k <= n THEN DotByte ELSE Space]

\* The short names "." and ".." are shown as they are.
LEMMA DotsToString ==
    ASSUME NEW n \in {1, 2}
    PROVE  short_name_to_string(DotsName(n)) = [k \in 1 .. n |-> DotByte]
  <1> DEFINE name11 == DotsName(n)
             stem == SubSeq(name11, 1, NameWidth)
             ext == SubSeq(name11, NameWidth + 1, ShortNameWidth)
  <1>1. stem = [k \in 1 .. 8 |-> IF k <= n THEN DotByte ELSE Space]
    BY DEF DotsName, NameWidth, ShortNameWidth, ExtWidth
  <1>2. ext = [k \in 1 .. 3 |-> Space]
    BY DEF DotsName, NameWidth, ShortNameWidth, ExtWidth
  <1> HIDE DEF stem, ext
  <1>3. stem \in Seq(Byte) /\ Len(stem) = 8
    BY <1>1 DEF Byte, DotByte, Space
  <1>4. ext \in Seq(Byte) /\ Len(ext) = 3
    BY <1>2 DEF Byte, DotByte, Space
  <1>5. TrimmedLen(stem) = n
    <2>1. \A k \in n + 1 .. Len(stem) : stem[k] = Space
      BY <1>1, <1>3
    <2>2. stem[n] # Space
      BY <1>1 DEF DotByte, Space
    <2> QED
      BY <1>3, <2>1, <2>2, TrimmedLenIs
  <1>6. TrimmedLen(ext) = 0
    <2>1. \A k \in 0 + 1 .. Len(ext) : ext[k] = Space
      BY <1>2, <1>4
    <2> QED
      BY <1>4, <2>1, TrimmedLenIs
  <1>7. SubSeq(stem, 1, n) = [k \in 1 .. n |-> DotByte]
    BY <1>1
  <1>8. SubSeq(ext, 1, 0) = << >>
    OBVIOUS
  <1>9. IsUtf8([k \in 1 .. n |-> DotByte])
    <2> DEFINE dots == [k \in 1 .. n |-> DotByte]
    <2>1. Len(dots) = n /\ \A k \in 1 .. n : dots[k] = DotByte
      OBVIOUS
    <2>2. ~ IsContinuation(DotByte) /\ CharLen(DotByte) = 1
      BY DEF IsContinuation, CharLen, DotByte
    <2> HIDE DEF dots
    <2>3. IsUtf8(dots)
      BY <2>1, <2>2 DEF IsUtf8
    <2> QED
      BY <2>3 DEF dots
  <1>10. PartToString(stem) = [k \in 1 .. n |-> DotByte]
    BY Zenon, <1>5, <1>7, <1>9 DEF PartToString
  <1>11. PartToString(ext) = << >>
    BY <1>6, <1>8 DEF PartToString
  <1> QED
    BY <1>10, <1>11 DEF short_name_to_string, stem, ext

\* So the two names init_directory_cluster stores are listed as "." and "..".
LEMMA DotNamesToString ==
    short_name_to_string(DotName) = Dot /\ short_name_to_string(DotDotName) = DotDot
  <1>1. DotName = DotsName(1) /\ DotDotName = DotsName(2)
    BY DEF DotName, DotDotName, DotsName, ShortNameWidth, NameWidth, ExtWidth
  <1>2. Dot = [k \in 1 .. 1 |-> DotByte] /\ DotDot = [k \in 1 .. 2 |-> DotByte]
    BY DEF Dot, DotDot
  <1> QED
    BY <1>1, <1>2, DotsToString

\* They are 11 bytes long and start with a dot.
LEMMA DotNamesType ==
    /\ DotName \in ShortNames /\ DotName[1] = DotByte
    /\ DotDotName \in ShortNames /\ DotDotName[1] = DotByte
  BY DEF DotName, DotDotName, ShortNames, ShortNameWidth, NameWidth, ExtWidth, Byte, DotByte, Space

-----------------------------------------------------------------------------
(* Slots *)

\* The first byte of a classic entry is the first byte of its name.
LEMMA ShortFirstByte ==
    ASSUME NEW s, s.tag = "short"
    PROVE  first_byte(s) = s.name[1]
  BY DEF first_byte

\* The classic entry create_file and mkdir build is a slot.
LEMMA ShortEntryType ==
    ASSUME NEW name \in ShortNames, NEW attr \in Attrs, NEW c \in Nat, NEW n \in Nat
    PROVE  /\ ShortEntry(name, attr, c, n) \in Slot
           /\ first_byte(ShortEntry(name, attr, c, n)) = name[1]
  BY DEF ShortEntry, Slot, ShortSlots, first_byte

\* A slot of type Slot whose tag is "short" is a classic entry.
LEMMA ShortSlotType ==
    ASSUME NEW s \in Slot, s.tag = "short"
    PROVE  s \in ShortSlots
  <1>1. s \notin LfnSlots
    BY DEF LfnSlots
  <1>2. s \notin TextSlots
    BY DEF TextSlots
  <1>3. s \notin BlankSlots
    BY DEF BlankSlots
  <1> QED
    BY <1>1, <1>2, <1>3 DEF Slot

\* Slots 1 and 2 of a directory are shown as "." and "..": no long name can
\* start before them.
LEMMA DotSlotsNames ==
    ASSUME NEW cl, cl[1].tag = "short", cl[1].name = DotName, cl[2].name = DotDotName
    PROVE  EntryName(cl, 1) = Dot /\ EntryName(cl, 2) = DotDot
  <1>1. LfnStarts(cl, 1) = {} /\ LfnStarts(cl, 2) = {}
    BY DEF LfnStarts, IsLfnRun
  <1>2. \A i : LfnStarts(cl, i) = {} => LongNames(cl, i) = {}
    BY DEF LongNames
  <1> QED
    BY <1>1, <1>2, DotNamesToString DEF EntryName

\* The name of a listed slot depends on the slots of its long name and on its
\* short name only.
LEMMA SameNames ==
    ASSUME NEW cl, NEW new, NEW i \in Nat,
           new[i].name = cl[i].name,
           LfnStarts(new, i) = LfnStarts(cl, i),
           \A j \in LfnStarts(cl, i) : \A k \in j .. i - 1 : new[k] = cl[k]
    PROVE  EntryName(new, i) = EntryName(cl, i)
  <1>1. ASSUME NEW j \in LfnStarts(cl, i)
        PROVE  SubSeq(new, j, i - 1) = SubSeq(cl, j, i - 1)
    <2>1. j \in Nat
      BY DEF LfnStarts
    <2>2. \A k \in 1 .. ((i - 1) - j + 1) : new[(k + j) - 1] = cl[(k + j) - 1]
      BY <2>1
    <2> QED
      BY <2>1, <2>2
  <1>2. {LfnChars(SubSeq(new, j, i - 1)) : j \in LfnStarts(new, i)}
            = {LfnChars(SubSeq(cl, j, i - 1)) : j \in LfnStarts(cl, i)}
    BY <1>1
  <1>3. LongNames(new, i) = LongNames(cl, i)
    BY Zenon, <1>2 DEF LongNames
  <1> QED
    BY <1>3 DEF EntryName

\* The slot t lists like the slot s: they differ at most in the size.
SameEntry(s, t) ==
    \/ t = s
    \/ /\ s.tag = "short" /\ t.tag = "short"
       /\ t.name = s.name /\ t.attr = s.attr /\ t.cluster = s.cluster

\* Two such slots have the same first byte.
LEMMA SameEntryFirstByte ==
    ASSUME NEW s, NEW t, SameEntry(s, t)
    PROVE  first_byte(t) = first_byte(s)
  BY DEF SameEntry, first_byte

\* A change of sizes, as update_file_size makes it, changes no listing.
LEMMA SameEntriesListed ==
    ASSUME NEW n \in Nat, NEW cl, NEW new, NEW i \in 1 .. n,
           \A k \in 1 .. n : SameEntry(cl[k], new[k])
    PROVE  IsListed(new, i) <=> IsListed(cl, i)
  <1>1. \A k \in 1 .. i : first_byte(new[k]) = first_byte(cl[k])
    BY SameEntryFirstByte
  <1>2. (new[i].tag = "short") <=> (cl[i].tag = "short")
    BY DEF SameEntry
  <1>3. cl[i].tag = "short" => new[i].attr = cl[i].attr
    BY DEF SameEntry
  <1> QED
    BY <1>1, <1>2, <1>3 DEF IsListed

\* The long name of slot i starts at the same places in two clusters whose
\* runs of long-name entries before it are the same; then so is the name.
LEMMA SameRunsName ==
    ASSUME NEW cl, NEW new, NEW i \in Nat,
           new[i].name = cl[i].name,
           \A j \in 1 .. i - 1 :
               IsLfnRun(cl, j, i) \/ IsLfnRun(new, j, i) => \A k \in j .. i - 1 : new[k] = cl[k]
    PROVE  EntryName(new, i) = EntryName(cl, i)
  <1>1. ASSUME NEW j \in 1 .. i - 1
        PROVE  IsLfnRun(new, j, i) <=> IsLfnRun(cl, j, i)
    BY DEF IsLfnRun
  <1>2. ASSUME NEW j \in 1 .. i - 1, IsLfnRun(cl, j, i)
        PROVE  new[j] = cl[j]
    BY <1>2
  <1>3. LfnStarts(new, i) = LfnStarts(cl, i)
    BY <1>1, <1>2 DEF LfnStarts
  <1>4. \A j \in LfnStarts(cl, i) : \A k \in j .. i - 1 : new[k] = cl[k]
    BY DEF LfnStarts
  <1> QED
    BY <1>3, <1>4, SameNames

\* A change of sizes changes no name.
LEMMA SameEntriesName ==
    ASSUME NEW n \in Nat, NEW cl, NEW new, NEW i \in 1 .. n, cl[i].tag = "short",
           \A k \in 1 .. n : SameEntry(cl[k], new[k])
    PROVE  EntryName(new, i) = EntryName(cl, i)
  <1>1. new[i].name = cl[i].name
    BY DEF SameEntry
  <1>2. ASSUME NEW k \in 1 .. n, cl[k].tag = "lfn" \/ new[k].tag = "lfn"
        PROVE  new[k] = cl[k]
    BY <1>2 DEF SameEntry
  <1>3. ASSUME NEW j \in 1 .. i - 1, IsLfnRun(cl, j, i) \/ IsLfnRun(new, j, i),
               NEW k \in j .. i - 1
        PROVE  new[k] = cl[k]
    <2>1. k \in 1 .. n
      OBVIOUS
    <2>2. cl[k].tag = "lfn" \/ new[k].tag = "lfn"
      BY <1>3 DEF IsLfnRun
    <2> QED
      BY <1>2, <2>1, <2>2
  <1> QED
    BY <1>1, <1>3, SameRunsName

WithSlot(cl, i, e) == [cl EXCEPT ![i] = e]

\* Nor does an entry in a free slot change the name of another slot: a long
\* name has no free slot in it, and the new entry is not part of one.
LEMMA FreeSlotName ==
    ASSUME NEW n \in Nat, NEW cl \in [1 .. n -> Slot], NEW i \in 1 .. n, NEW e,
           e.tag = "short", IsFreeSlot(cl[i]), NEW k \in 1 .. n, k # i
    PROVE  EntryName(WithSlot(cl, i, e), k) = EntryName(cl, k)
  <1> DEFINE new == WithSlot(cl, i, e)
  <1>1. new[i] = e /\ \A j \in 1 .. n : j # i => new[j] = cl[j]
    BY DEF WithSlot
  <1> HIDE DEF new
  <1>2. ASSUME NEW j \in 1 .. k - 1, IsLfnRun(cl, j, k) \/ IsLfnRun(new, j, k),
               NEW m \in j .. k - 1
        PROVE  new[m] = cl[m]
    <2>1. m \in 1 .. n
      OBVIOUS
    <2>2. m # i
      BY <1>1, <1>2 DEF IsLfnRun
    <2> QED
      BY <1>1, <2>1, <2>2
  <1>3. EntryName(new, k) = EntryName(cl, k)
    BY <1>1, <1>2, SameRunsName
  <1> QED
    BY <1>3 DEF new

\* An entry in the first free slot: what was listed stays listed, and the
\* only entry that can become listed is the new one.
LEMMA FirstFreeSlotListed ==
    ASSUME NEW n \in Nat, NEW cl \in [1 .. n -> Slot], NEW i \in 1 .. n, NEW e,
           e.tag = "short", first_byte(e) # EndMark, e.attr # "volume",
           IsFreeSlot(cl[i]),
           \A k \in 1 .. i - 1 : ~ IsFreeSlot(cl[k]),
           \A j, k \in 1 .. n :
               j < k /\ first_byte(cl[j]) = EndMark => first_byte(cl[k]) = EndMark,
           NEW k \in 1 .. n
    PROVE  LET new == [cl EXCEPT ![i] = e]
           IN  /\ k # i => IsListed(new, k) <=> IsListed(cl, k)
               /\ ~ IsListed(cl, i)
               /\ IsListed(new, i) <=> (first_byte(e) # DeletedMark)
               /\ \A j \in 1 .. n : j < k /\ first_byte(new[j]) = EndMark
                                  => first_byte(new[k]) = EndMark
  <1> DEFINE new == [cl EXCEPT ![i] = e]
  <1>1. new[i] = e /\ \A j \in 1 .. n : j # i => new[j] = cl[j]
    OBVIOUS
  <1> HIDE DEF new
  <1>2. \A j \in 1 .. i - 1 : first_byte(cl[j]) # EndMark /\ first_byte(cl[j]) # DeletedMark
    BY DEF IsFreeSlot
  <1>3. first_byte(cl[i]) = EndMark \/ first_byte(cl[i]) = DeletedMark
    BY DEF IsFreeSlot
  <1>4. ASSUME k # i
        PROVE  IsListed(new, k) <=> IsListed(cl, k)
    <2>1. CASE k < i
      BY <1>1, <2>1 DEF IsListed
    <2>2. CASE i < k /\ first_byte(cl[i]) = EndMark
      <3>1. first_byte(cl[k]) = EndMark
        BY <2>2
      <3> QED
        BY <1>1, <1>4, <3>1 DEF IsListed
    <2>3. CASE i < k /\ first_byte(cl[i]) # EndMark
      <3>1. (\A j \in 1 .. k : first_byte(new[j]) # EndMark)
              <=> (\A j \in 1 .. k : first_byte(cl[j]) # EndMark)
        BY <1>1, <2>3
      <3> QED
        BY <1>1, <1>4, <3>1 DEF IsListed
    <2> QED
      BY <1>4, <2>1, <2>2, <2>3
  <1>5. ~ IsListed(cl, i)
    BY <1>3 DEF IsListed
  <1>6. IsListed(new, i) <=> (first_byte(e) # DeletedMark)
    <2>1. \A j \in 1 .. i : first_byte(new[j]) # EndMark
      BY <1>1, <1>2
    <2> QED
      BY <1>1, <2>1 DEF IsListed
  <1>7. ASSUME NEW j \in 1 .. n, j < k, first_byte(new[j]) = EndMark
        PROVE  first_byte(new[k]) = EndMark
    BY <1>1, <1>2, <1>7
  <1> QED
    BY <1>4, <1>5, <1>6, <1>7 DEF new

-----------------------------------------------------------------------------
(* Clusters and children *)

\* A cluster number is neither Free nor an end-of-chain value.
LEMMA ClusterNumbers ==
    /\ \A c \in Clusters : c \in Nat /\ c # 0 /\ c # Free /\ c < EndOfChainMin
    /\ EndOfChainMin \in Nat /\ EndOfChain \in Nat
    /\ EndOfChain # Free /\ ~ (EndOfChain < EndOfChainMin)
    /\ EndOfChain \in FatValues /\ Free \in FatValues
    /\ FatValues \subseteq Nat
  <1>1. EndOfChainMin \in Nat /\ EndOfChain \in Nat /\ EndOfChainMin > 0 /\ EndOfChainMin <= EndOfChain
    BY SMT DEF EndOfChainMin, EndOfChain
  <1>2. \A c \in Clusters : c \in Nat /\ c # 0 /\ c # Free /\ c < EndOfChainMin
    BY SMT, <1>1, SizeAssumption DEF Clusters, Free
  <1> QED
    BY SMT, <1>1, <1>2 DEF FatValues, Free

\* The slots of a cluster are 1, 2, ...
LEMMA SlotNumbers == 1 \in SlotIdx /\ 2 \in SlotIdx /\ \A i \in SlotIdx : i \in Nat /\ i >= 1
  BY SizeAssumption DEF SlotIdx

\* A child is a classic entry with a cluster number and an attribute.
LEMMA ListedType ==
    ASSUME NEW d \in [Clusters -> [SlotIdx -> Slot]], NEW p \in Clusters, NEW i \in SlotIdx,
           IsListed(d[p], i)
    PROVE  /\ d[p][i] \in ShortSlots
           /\ d[p][i].name \in ShortNames
           /\ d[p][i].cluster \in Nat
           /\ d[p][i].size \in Nat
           /\ d[p][i].attr \in {"file", "dir"}
  <1>1. d[p][i] \in Slot /\ d[p][i].tag = "short"
    BY DEF IsListed
  <1>2. d[p][i] \in ShortSlots
    BY <1>1, ShortSlotType
  <1>3. d[p][i].attr \in Attrs /\ d[p][i].attr # "volume"
    BY <1>2 DEF ShortSlots, IsListed
  <1> QED
    BY <1>2, <1>3 DEF ShortSlots, Attrs

-----------------------------------------------------------------------------
(* Changes that no listing of a directory shows. *)

\* Of slot i of the directory p, the tree looks the same in d and in e.
SameView(d, e, p, i) ==
    /\ IsChild(e, p, i) <=> IsChild(d, p, i)
    /\ IsDotEntry(e, p, i) <=> IsDotEntry(d, p, i)
    /\ IsChild(d, p, i) => /\ StartOf(e, p, i) = StartOf(d, p, i)
                           /\ IsDir(e, p, i) <=> IsDir(d, p, i)

\* Entries that differ in their sizes only look the same.
LEMMA SameEntriesView ==
    ASSUME NEW d, NEW e, NEW p, NEW i \in SlotIdx,
           \A k \in SlotIdx : SameEntry(d[p][k], e[p][k])
    PROVE  SameView(d, e, p, i)
  <1>1. IsListed(e[p], i) <=> IsListed(d[p], i)
    <2>1. SlotsPerCluster \in Nat /\ i \in 1 .. SlotsPerCluster
      BY SizeAssumption DEF SlotIdx
    <2>2. \A k \in 1 .. SlotsPerCluster : SameEntry(d[p][k], e[p][k])
      BY DEF SlotIdx
    <2> QED
      BY <2>1, <2>2, SameEntriesListed
  <1>2. d[p][i].tag = "short" =>
            /\ e[p][i].name = d[p][i].name
            /\ e[p][i].attr = d[p][i].attr /\ e[p][i].cluster = d[p][i].cluster
    BY DEF SameEntry
  <1>3. IsListed(d[p], i) => d[p][i].tag = "short"
    BY DEF IsListed
  <1> QED
    BY <1>1, <1>2, <1>3 DEF SameView, IsChild, IsDotEntry, StartOf, IsDir

\* The slot i of the directory p is the entry of the same subdirectory in d and
\* in e, or of none in both.
SameSubdir(d, e, p, i) ==
    /\ IsChild(e, p, i) /\ IsDir(e, p, i) <=> IsChild(d, p, i) /\ IsDir(d, p, i)
    /\ IsChild(d, p, i) /\ IsDir(d, p, i) => StartOf(e, p, i) = StartOf(d, p, i)

\* With the same subdirectories everywhere, the same directories can be
\* reached.
LEMMA SameReachable ==
    ASSUME NEW d, NEW e, NEW ds, ReachableOK(d, ds),
           \A p \in ds, i \in SlotIdx : SameSubdir(d, e, p, i)
    PROVE  ReachableOK(e, ds)
  <1>1. ASSUME NEW S \in SUBSET ds
        PROVE  IsClosed(e, S) <=> IsClosed(d, S)
    BY DEF IsClosed, SameSubdir
  <1> QED
    BY <1>1 DEF ReachableOK

\* A change outside the directories, or of sizes only, keeps the image
\* well-formed: the data of a file, the size update_file_size stores, the
\* slots of a cluster that is not in the tree yet.
LEMMA SameEntriesTree ==
    ASSUME NEW f, NEW d, NEW ds, Tree(f, d, ds),
           NEW e \in [Clusters -> [SlotIdx -> Slot]],
           \A p \in ds, i \in SlotIdx : SameEntry(d[p][i], e[p][i])
    PROVE  Tree(f, e, ds)
  <1>1. \A p \in ds, i \in SlotIdx : SameView(d, e, p, i)
    BY SameEntriesView
  <1>2. ChildrenOK(f, e, ds)
    BY <1>1 DEF Tree, ChildrenOK, SameView
  <1>3. ChildrenDistinct(e, ds)
    BY <1>1 DEF Tree, ChildrenDistinct, SameView
  <1>4. ChainsOK(f, e, ds)
    BY <1>1 DEF Tree, ChainsOK, SameView
  <1>5. EndMarksOK(e, ds)
    <2>1. \A p \in ds, i \in SlotIdx : first_byte(e[p][i]) = first_byte(d[p][i])
      BY SameEntryFirstByte
    <2> QED
      BY <2>1 DEF Tree, EndMarksOK
  <1>6. DotsOK(e, ds)
    <2>1. ASSUME NEW c \in ds, HasDots(d, c)
          PROVE  HasDots(e, c) /\ StartOf(e, c, 2) = StartOf(d, c, 2)
      <3>1. SameEntry(d[c][1], e[c][1]) /\ SameEntry(d[c][2], e[c][2])
        BY SlotNumbers
      <3> QED
        BY <2>1, <3>1 DEF HasDots, StartOf, SameEntry
    <2> QED
      BY <1>1, <2>1 DEF Tree, DotsOK, SameView
  <1>7. ReachableOK(e, ds)
    BY <1>1, SameReachable DEF Tree, SameView, SameSubdir
  <1> QED
    BY <1>2, <1>3, <1>4, <1>5, <1>6, <1>7 DEF Tree

-----------------------------------------------------------------------------
(* allocate_cluster *)

\* Nothing refers to the cluster c: no entry, and no link of the FAT.
Unowned(f, d, ds, c) ==
    /\ c \in Clusters \ ds
    /\ \A b \in Clusters : f[b] # c
    /\ \A p \in ds, i \in SlotIdx : IsChild(d, p, i) => StartOf(d, p, i) # c

\* A free cluster belongs to nothing.
LEMMA FreeIsUnowned ==
    ASSUME NEW f, NEW d, NEW ds, Tree(f, d, ds), NEW c \in Clusters, f[c] = Free
    PROVE  Unowned(f, d, ds, c)
  <1>1. c \notin ds
    BY DEF Tree, DirsOK
  <1>2. ASSUME NEW b \in Clusters, f[b] = c
        PROVE  FALSE
    <2>1. f[b] # Free /\ f[b] < EndOfChainMin
      BY <1>2, ClusterNumbers
    <2> QED
      BY <1>2, <2>1 DEF Tree, ChainsOK
  <1>3. ASSUME NEW p \in ds, NEW i \in SlotIdx, IsChild(d, p, i), StartOf(d, p, i) = c
        PROVE  FALSE
    BY <1>3, ClusterNumbers DEF Tree, ChildrenOK
  <1> QED
    BY <1>1, <1>2, <1>3 DEF Unowned

\* Marking a free cluster keeps the image well-formed; the cluster is then
\* allocated and nothing refers to it yet.
LEMMA AllocateTree ==
    ASSUME NEW f, NEW d, NEW ds, Tree(f, d, ds), NEW c \in Clusters, f[c] = Free
    PROVE  Tree([f EXCEPT ![c] = EndOfChain], d, ds)
  <1> DEFINE g == [f EXCEPT ![c] = EndOfChain]
  <1>1. f \in [Clusters -> FatValues]
    BY DEF Tree
  <1>2. g[c] = EndOfChain /\ \A b \in Clusters : b # c => g[b] = f[b]
    BY <1>1
  <1>3. g \in [Clusters -> FatValues]
    BY <1>1, ClusterNumbers
  <1> HIDE DEF g
  <1>4. \A b \in Clusters : f[b] # Free => g[b] # Free
    BY <1>2, ClusterNumbers
  <1>5. DirsOK(g, ds)
    BY <1>4 DEF Tree, DirsOK
  <1>6. ChildrenOK(g, d, ds)
    BY <1>4 DEF Tree, ChildrenOK
  <1>7. ChainsOK(g, d, ds)
    <2> SUFFICES ASSUME NEW b \in Clusters, g[b] # Free, g[b] < EndOfChainMin
                 PROVE  /\ g[b] \in Clusters \ ds
                        /\ g[g[b]] # Free
                        /\ \A a \in Clusters : g[a] = g[b] => a = b
                        /\ \A p \in ds, i \in SlotIdx : IsChild(d, p, i) => StartOf(d, p, i) # g[b]
      BY DEF ChainsOK
    <2>1. b # c /\ g[b] = f[b]
      BY <1>2, ClusterNumbers
    <2>2. /\ f[b] \in Clusters \ ds
          /\ f[f[b]] # Free
          /\ \A a \in Clusters : f[a] = f[b] => a = b
          /\ \A p \in ds, i \in SlotIdx : IsChild(d, p, i) => StartOf(d, p, i) # f[b]
      BY <2>1 DEF Tree, ChainsOK
    <2>3. \A a \in Clusters : g[a] = g[b] => a = b
      BY <1>2, <2>1, <2>2, ClusterNumbers
    <2> QED
      BY <1>4, <2>1, <2>2, <2>3
  <1>8. Tree(g, d, ds)
    BY <1>3, <1>5, <1>6, <1>7 DEF Tree
  <1> QED
    BY <1>8 DEF g

-----------------------------------------------------------------------------
(* A new entry in the first free slot of a directory *)

\* The entry e in slot i of cluster p.
WithEntry(d, p, i, e) == [d EXCEPT ![p] = [d[p] EXCEPT ![i] = e]]

\* e is an entry that create_file or mkdir can make: of a file or a directory,
\* under a name that starts neither with a dot nor with NUL.
IsNewEntry(e) ==
    /\ e \in ShortSlots
    /\ e.name[1] \notin {DotByte, EndMark}
    /\ e.attr \in {"file", "dir"}

\* The listings change by the new entry and nothing else; an entry whose name
\* starts with 0xE5 is not even listed itself.
LEMMA NewEntryListed ==
    ASSUME NEW f, NEW d, NEW ds, Tree(f, d, ds), NEW p \in ds, NEW i \in SlotIdx, NEW e,
           IsFirst(i, FreeSlots(d[p])), IsNewEntry(e),
           NEW new, new = WithEntry(d, p, i, e)
    PROVE  /\ new \in [Clusters -> [SlotIdx -> Slot]]
           /\ new[p][i] = e
           /\ \A q \in Clusters : q # p => new[q] = d[q]
           /\ \A k \in SlotIdx : k # i => new[p][k] = d[p][k]
           /\ ~ IsListed(d[p], i)
           /\ IsListed(new[p], i) <=> (e.name[1] # DeletedMark)
           /\ IsChild(new, p, i) <=> (e.name[1] # DeletedMark)
           /\ \A q \in ds, k \in SlotIdx : (q # p \/ k # i) => SameView(d, new, q, k)
           /\ EndMarksOK(new, ds)
  <1> DEFINE cl == d[p]
             ncl == [cl EXCEPT ![i] = e]
             n == SlotsPerCluster
  <1>1. ds \subseteq Clusters /\ d \in [Clusters -> [SlotIdx -> Slot]]
    BY DEF Tree, DirsOK
  <1>2. p \in Clusters /\ cl \in [SlotIdx -> Slot]
    BY <1>1
  <1>3. e \in Slot /\ e.tag = "short"
    BY DEF IsNewEntry, Slot, ShortSlots
  <1>4. ncl \in [SlotIdx -> Slot] /\ ncl[i] = e /\ \A k \in SlotIdx : k # i => ncl[k] = cl[k]
    BY <1>2, <1>3
  <1>5. new \in [Clusters -> [SlotIdx -> Slot]] /\ new[p] = ncl /\ \A q \in Clusters : q # p => new[q] = d[q]
    BY <1>1, <1>2, <1>4 DEF WithEntry
  <1>6. first_byte(e) = e.name[1] /\ first_byte(e) # EndMark /\ e.attr # "volume"
    BY <1>3, ShortFirstByte DEF IsNewEntry
  <1>7. IsFreeSlot(cl[i]) /\ \A k \in 1 .. i - 1 : ~ IsFreeSlot(cl[k])
    BY SizeAssumption DEF IsFirst, FreeSlots, SlotIdx
  <1>8. \A j, k \in 1 .. n : j < k /\ first_byte(cl[j]) = EndMark => first_byte(cl[k]) = EndMark
    BY DEF Tree, EndMarksOK, SlotIdx
  <1>9. n \in Nat /\ cl \in [1 .. n -> Slot] /\ i \in 1 .. n
    BY <1>2, SizeAssumption DEF SlotIdx
  <1> HIDE DEF cl, n
  <1>10. \A k \in 1 .. n :
            /\ k # i => IsListed(ncl, k) <=> IsListed(cl, k)
            /\ ~ IsListed(cl, i)
            /\ IsListed(ncl, i) <=> (first_byte(e) # DeletedMark)
            /\ \A j \in 1 .. n : j < k /\ first_byte(ncl[j]) = EndMark => first_byte(ncl[k]) = EndMark
    BY Zenon, <1>3, <1>6, <1>7, <1>8, <1>9, FirstFreeSlotListed
  <1> HIDE DEF ncl
  <1>11. \A k \in SlotIdx : k # i => IsListed(new[p], k) <=> IsListed(d[p], k)
    BY <1>5, <1>10 DEF cl, n, SlotIdx
  <1>12. ~ IsListed(d[p], i) /\ (IsListed(new[p], i) <=> e.name[1] # DeletedMark)
    BY <1>5, <1>6, <1>10 DEF cl, n, SlotIdx
  <1>13. IsChild(new, p, i) <=> (e.name[1] # DeletedMark)
    BY <1>4, <1>5, <1>12 DEF IsChild, IsNewEntry
  <1>14. ASSUME NEW q \in ds, NEW k \in SlotIdx, q # p \/ k # i
         PROVE  SameView(d, new, q, k)
    <2>1. new[q][k] = d[q][k] /\ (IsListed(new[q], k) <=> IsListed(d[q], k))
      <3>1. CASE q # p
        BY <1>1, <1>5, <3>1
      <3>2. CASE q = p
        BY <1>4, <1>5, <1>11, <1>14, <3>2 DEF cl
      <3> QED
        BY <3>1, <3>2
    <2> QED
      BY <2>1 DEF SameView, IsChild, IsDotEntry, StartOf, IsDir
  <1>15. EndMarksOK(new, ds)
    <2> SUFFICES ASSUME NEW q \in ds, NEW j \in SlotIdx, NEW k \in SlotIdx,
                        j < k, first_byte(new[q][j]) = EndMark
                 PROVE  first_byte(new[q][k]) = EndMark
      BY DEF EndMarksOK
    <2>1. CASE q # p
      BY <1>1, <1>5, <2>1 DEF Tree, EndMarksOK
    <2>2. CASE q = p
      BY <1>5, <1>10, <2>2 DEF n, SlotIdx
    <2> QED
      BY <2>1, <2>2
  <1>16. \A k \in SlotIdx : k # i => new[p][k] = d[p][k]
    BY <1>4, <1>5 DEF cl
  <1>17. new[p][i] = e
    BY <1>4, <1>5
  <1> QED
    BY <1>5, <1>12, <1>13, <1>14, <1>15, <1>16, <1>17

\* The entry e goes into the first free slot i of the directory p.
IsAddition(f, d, ds, p, i, e) ==
    /\ Tree(f, d, ds) /\ p \in ds /\ i \in SlotIdx
    /\ IsFirst(i, FreeSlots(d[p])) /\ IsNewEntry(e)

\* The other entries of the directory keep their names.
LEMMA NewEntryKeepsNames ==
    ASSUME NEW f, NEW d, NEW ds, NEW p, NEW i, NEW e, IsAddition(f, d, ds, p, i, e),
           NEW k \in SlotIdx, k # i
    PROVE  EntryName(WithEntry(d, p, i, e)[p], k) = EntryName(d[p], k)
  <1> DEFINE cl == d[p]
             n == SlotsPerCluster
  <1>1. p \in Clusters /\ i \in SlotIdx /\ d \in [Clusters -> [SlotIdx -> Slot]]
    BY DEF IsAddition, Tree, DirsOK
  <1>2. n \in Nat /\ cl \in [1 .. n -> Slot] /\ i \in 1 .. n /\ k \in 1 .. n
    BY <1>1, SizeAssumption DEF SlotIdx
  <1>3. e.tag = "short" /\ IsFreeSlot(cl[i])
    BY DEF IsAddition, IsNewEntry, ShortSlots, IsFirst, FreeSlots
  <1>4. WithEntry(d, p, i, e)[p] = WithSlot(cl, i, e)
    BY <1>1 DEF WithEntry, WithSlot
  <1> HIDE DEF cl, n
  <1>5. EntryName(WithSlot(cl, i, e), k) = EntryName(cl, k)
    BY <1>2, <1>3, FreeSlotName
  <1> QED
    BY <1>4, <1>5 DEF cl

\* The slot was not listed, the entry is a child of p unless its name starts
\* with 0xE5, and the rest of the directory stays as it is.
OneMore(d, new, p, i, e) ==
    /\ ~ IsListed(d[p], i)
    /\ new[p][i] = e /\ (IsChild(new, p, i) <=> e.name[1] # DeletedMark)
    /\ \A k \in SlotIdx : k # i => /\ new[p][k] = d[p][k] /\ SameView(d, new, p, k)
                                   /\ EntryName(new[p], k) = EntryName(d[p], k)

\* An added entry is one more entry of the directory.
LEMMA AdditionIsOneMore ==
    ASSUME NEW f, NEW d, NEW ds, NEW p, NEW i, NEW e, IsAddition(f, d, ds, p, i, e)
    PROVE  OneMore(d, WithEntry(d, p, i, e), p, i, e)
  <1>1. PICK new : new = WithEntry(d, p, i, e)
    OBVIOUS
  <1>2. p \in ds /\ ~ IsListed(d[p], i) /\ new[p][i] = e /\ (IsChild(new, p, i) <=> e.name[1] # DeletedMark)
    BY <1>1, NewEntryListed DEF IsAddition
  <1>3. ASSUME NEW k \in SlotIdx, k # i
        PROVE  /\ new[p][k] = d[p][k] /\ SameView(d, new, p, k)
               /\ EntryName(new[p], k) = EntryName(d[p], k)
    <2>1. new[p][k] = d[p][k] /\ SameView(d, new, p, k)
      BY <1>1, <1>3, NewEntryListed DEF IsAddition
    <2>2. EntryName(new[p], k) = EntryName(d[p], k)
      BY <1>1, <1>3, NewEntryKeepsNames
    <2> QED
      BY <2>1, <2>2
  <1>4. OneMore(d, new, p, i, e)
    BY Zenon, <1>2, <1>3 DEF OneMore
  <1> QED
    BY Zenon, <1>1, <1>4

\* Slots 1 and 2 of a directory start with a dot.
LEMMA DotSlotsBytes ==
    ASSUME NEW d, NEW c, HasDots(d, c)
    PROVE  first_byte(d[c][1]) = DotByte /\ first_byte(d[c][2]) = DotByte
  <1>1. /\ d[c][1].tag = "short" /\ d[c][1].name = DotName
        /\ d[c][2].tag = "short" /\ d[c][2].name = DotDotName
    BY DEF HasDots
  <1> QED
    BY <1>1, ShortFirstByte, DotNamesType

\* So they are not free, and stay when a free slot is filled.
LEMMA DotSlotsStay ==
    ASSUME NEW f, NEW d, NEW ds, Tree(f, d, ds), NEW p \in ds, NEW i \in SlotIdx, NEW e,
           IsFirst(i, FreeSlots(d[p])), IsNewEntry(e),
           NEW new, new = WithEntry(d, p, i, e),
           NEW c \in ds \ {RootCluster}
    PROVE  HasDots(new, c) /\ StartOf(new, c, 2) = StartOf(d, c, 2)
  <1>1. HasDots(d, c) /\ c \in Clusters
    BY DEF Tree, DotsOK, DirsOK
  <1>2. c = p => i # 1 /\ i # 2
    <2>1. first_byte(d[c][1]) = DotByte /\ first_byte(d[c][2]) = DotByte
      BY <1>1, DotSlotsBytes
    <2> QED
      BY <2>1 DEF IsFirst, FreeSlots, IsFreeSlot, DotByte, EndMark, DeletedMark
  <1>3. new[c][1] = d[c][1] /\ new[c][2] = d[c][2]
    <2>1. CASE c # p
      BY <1>1, <2>1, NewEntryListed
    <2>2. CASE c = p
      BY <1>2, <2>2, NewEntryListed, SlotNumbers
    <2> QED
      BY <2>1, <2>2
  <1> QED
    BY <1>1, <1>3 DEF HasDots, StartOf

\* In new the tree looks as in d, but for slot i of the directory p, which was
\* no child before.
OnlyNew(d, new, ds, p, i) ==
    /\ EndMarksOK(new, ds)
    /\ ~ IsChild(d, p, i) /\ ~ IsDotEntry(new, p, i)
    /\ \A q \in ds, k \in SlotIdx : (q # p \/ k # i) => SameView(d, new, q, k)
    /\ \A q \in ds \ {RootCluster} : HasDots(new, q) /\ StartOf(new, q, 2) = StartOf(d, q, 2)

\* A new entry changes the view of its own slot only.
LEMMA NewEntryView ==
    ASSUME NEW f, NEW d, NEW ds, Tree(f, d, ds), NEW p \in ds, NEW i \in SlotIdx, NEW e,
           IsFirst(i, FreeSlots(d[p])), IsNewEntry(e),
           NEW new, new = WithEntry(d, p, i, e)
    PROVE  OnlyNew(d, new, ds, p, i)
  <1>1. /\ EndMarksOK(new, ds) /\ ~ IsListed(d[p], i) /\ new[p][i] = e
        /\ \A q \in ds, k \in SlotIdx : (q # p \/ k # i) => SameView(d, new, q, k)
    BY NewEntryListed
  <1>2. ~ IsChild(d, p, i) /\ ~ IsDotEntry(new, p, i)
    BY <1>1 DEF IsChild, IsDotEntry, IsNewEntry
  <1>3. \A q \in ds \ {RootCluster} : HasDots(new, q) /\ StartOf(new, q, 2) = StartOf(d, q, 2)
    BY DotSlotsStay
  <1> QED
    BY <1>1, <1>2, <1>3 DEF OnlyNew

Allocated(f, c) == f[c] # Free

\* What create_file adds: a file, or something no listing shows.
LEMMA NewFileTree ==
    ASSUME NEW f, NEW d, NEW ds, Tree(f, d, ds), NEW p \in ds, NEW i \in SlotIdx, NEW c,
           Allocated(f, c), Unowned(f, d, ds, c),
           NEW new \in [Clusters -> [SlotIdx -> Slot]], OnlyNew(d, new, ds, p, i),
           IsChild(new, p, i) => StartOf(new, p, i) = c /\ ~ IsDir(new, p, i)
    PROVE  Tree(f, new, ds)
  <1>1. ChildrenOK(f, new, ds)
    BY DEF OnlyNew, Tree, DirsOK, ChildrenOK, SameView, Unowned, Allocated
  <1>2. ChildrenDistinct(new, ds)
    BY DEF OnlyNew, Tree, ChildrenDistinct, SameView, Unowned
  <1>3. ChainsOK(f, new, ds)
    <2> SUFFICES ASSUME NEW b \in Clusters, f[b] # Free /\ f[b] < EndOfChainMin
                 PROVE  /\ f[b] \in Clusters \ ds /\ f[f[b]] # Free
                        /\ \A a \in Clusters : f[a] = f[b] => a = b
                        /\ \A q \in ds, k \in SlotIdx :
                              IsChild(new, q, k) => StartOf(new, q, k) # f[b]
      BY Zenon DEF ChainsOK
    <2>1. /\ f[b] \in Clusters \ ds /\ f[f[b]] # Free
          /\ \A a \in Clusters : f[a] = f[b] => a = b
          /\ \A q \in ds, k \in SlotIdx : IsChild(d, q, k) => StartOf(d, q, k) # f[b]
      BY Zenon DEF Tree, ChainsOK
    <2>2. f[b] # c
      BY Zenon DEF Unowned
    <2>3. ASSUME NEW q \in ds, NEW k \in SlotIdx, IsChild(new, q, k)
          PROVE  StartOf(new, q, k) # f[b]
      <3>1. CASE q = p /\ k = i
        BY <2>2, <2>3, <3>1
      <3>2. CASE q # p \/ k # i
        <4>1. SameView(d, new, q, k)
          BY Zenon, <3>2 DEF OnlyNew
        <4> QED
          BY Zenon, <2>1, <2>3, <4>1 DEF SameView
      <3> QED
        BY <3>1, <3>2
    <2> QED
      BY Zenon, <2>1, <2>3
  <1>4. DotsOK(new, ds)
    BY DEF OnlyNew, Tree, DotsOK, SameView
  <1>5. ReachableOK(new, ds)
    <2>1. ASSUME NEW q \in ds, NEW k \in SlotIdx
          PROVE  SameSubdir(d, new, q, k)
      BY DEF OnlyNew, SameView, SameSubdir
    <2> QED
      BY <2>1, SameReachable DEF Tree
  <1> QED
    BY <1>1, <1>2, <1>3, <1>4, <1>5 DEF OnlyNew, Tree

\* What mkdir adds: a directory c whose ".." leads to the directory p that the
\* entry for it is in.
LEMMA NewDirectoryTree ==
    ASSUME NEW f, NEW d, NEW ds, Tree(f, d, ds), NEW p \in ds, NEW i \in SlotIdx, NEW c,
           Allocated(f, c), Unowned(f, d, ds, c),
           NEW new \in [Clusters -> [SlotIdx -> Slot]], OnlyNew(d, new, ds, p, i),
           IsChild(new, p, i), IsDir(new, p, i), StartOf(new, p, i) = c,
           HasDots(new, c), StartOf(new, c, 2) = IF p = RootCluster THEN 0 ELSE p,
           \A k \in SlotIdx : ~ IsChild(new, c, k) /\ (IsDotEntry(new, c, k) => k <= 2),
           EndMarksOK(new, {c})
    PROVE  Tree(f, new, ds \cup {c})
  <1>1. c \in Clusters /\ c \notin ds /\ c # RootCluster /\ c # 0
    BY ClusterNumbers DEF Tree, DirsOK, Unowned
  <1>2. DirsOK(f, ds \cup {c})
    BY <1>1 DEF Tree, DirsOK, Allocated
  <1>3. ChildrenOK(f, new, ds \cup {c})
    BY <1>1 DEF OnlyNew, Tree, ChildrenOK, SameView, Unowned, Allocated
  <1>4. ChildrenDistinct(new, ds \cup {c})
    BY <1>1 DEF OnlyNew, Tree, ChildrenDistinct, SameView, Unowned
  <1>5. ChainsOK(f, new, ds \cup {c})
    <2> SUFFICES ASSUME NEW b \in Clusters, f[b] # Free /\ f[b] < EndOfChainMin
                 PROVE  /\ f[b] \in Clusters \ (ds \cup {c}) /\ f[f[b]] # Free
                        /\ \A a \in Clusters : f[a] = f[b] => a = b
                        /\ \A q \in ds \cup {c}, k \in SlotIdx :
                              IsChild(new, q, k) => StartOf(new, q, k) # f[b]
      BY Zenon DEF ChainsOK
    <2>1. /\ f[b] \in Clusters \ ds /\ f[f[b]] # Free
          /\ \A a \in Clusters : f[a] = f[b] => a = b
          /\ \A q \in ds, k \in SlotIdx : IsChild(d, q, k) => StartOf(d, q, k) # f[b]
      BY Zenon DEF Tree, ChainsOK
    <2>2. f[b] # c
      BY Zenon DEF Unowned
    <2>3. ASSUME NEW q \in ds \cup {c}, NEW k \in SlotIdx, IsChild(new, q, k)
          PROVE  StartOf(new, q, k) # f[b]
      <3>1. CASE q = p /\ k = i
        BY <2>2, <3>1
      <3>2. CASE q # p \/ k # i
        <4>1. q \in ds
          BY <2>3
        <4>2. SameView(d, new, q, k)
          BY Zenon, <3>2, <4>1 DEF OnlyNew
        <4> QED
          BY Zenon, <2>1, <2>3, <4>1, <4>2 DEF SameView
      <3> QED
        BY <3>1, <3>2
    <2> QED
      BY Zenon, <2>1, <2>2, <2>3
  <1>6. EndMarksOK(new, ds \cup {c})
    BY DEF OnlyNew, EndMarksOK
  <1>7. DotsOK(new, ds \cup {c})
    BY <1>1 DEF OnlyNew, Tree, DotsOK, SameView
  <1>8. ReachableOK(new, ds \cup {c})
    <2>1. IsClosed(d, ds) /\ \A S \in SUBSET ds : IsClosed(d, S) => S = ds
      BY DEF Tree, ReachableOK
    <2>2. IsClosed(new, ds \cup {c})
      BY <1>1, <2>1 DEF OnlyNew, SameView, IsClosed
    <2>3. ASSUME NEW S \in SUBSET (ds \cup {c}), IsClosed(new, S)
          PROVE  S = ds \cup {c}
      <3>1. IsClosed(d, S \cap ds)
        BY <2>1, <2>3 DEF OnlyNew, SameView, IsClosed
      <3>2. S \cap ds = ds
        BY <2>1, <3>1
      <3>3. c \in S
        BY <2>3, <3>2 DEF IsClosed
      <3> QED
        BY <3>2, <3>3
    <2> QED
      BY <2>2, <2>3 DEF ReachableOK
  <1> QED
    BY <1>2, <1>3, <1>4, <1>5, <1>6, <1>7, <1>8 DEF Tree

\* A cluster that init_directory_cluster has set up lists "." and ".." only,
\* and nothing is behind its end mark.
LEMMA NewDirectorySlots ==
    ASSUME NEW c, NEW p, NEW cl, cl = init_directory_cluster(c, p)
    PROVE  /\ cl[1].tag = "short" /\ cl[1].name = DotName
           /\ cl[1].attr = "dir" /\ cl[1].cluster = c
           /\ cl[2].tag = "short" /\ cl[2].name = DotDotName /\ cl[2].attr = "dir"
           /\ cl[2].cluster = IF p = RootCluster THEN 0 ELSE p
           /\ \A k \in SlotIdx : IsListed(cl, k) => k <= 2 /\ cl[k].name[1] = DotByte
           /\ \A j, k \in SlotIdx :
                 j < k /\ first_byte(cl[j]) = EndMark => first_byte(cl[k]) = EndMark
  <1> DEFINE up == IF p = RootCluster THEN 0 ELSE p
  <1>1. /\ cl[1] = ShortEntry(DotName, "dir", c, 0)
        /\ cl[2] = ShortEntry(DotDotName, "dir", up, 0)
        /\ \A k \in SlotIdx : k # 1 /\ k # 2 => cl[k] = Blank(EndMark)
    BY SlotNumbers DEF init_directory_cluster
  <1> HIDE DEF up
  <1>2. /\ cl[1].tag = "short" /\ cl[1].name = DotName
        /\ cl[1].attr = "dir" /\ cl[1].cluster = c
        /\ cl[2].tag = "short" /\ cl[2].name = DotDotName /\ cl[2].attr = "dir"
        /\ cl[2].cluster = up
    BY <1>1 DEF ShortEntry
  <1>3. \A k \in SlotIdx : k # 1 /\ k # 2 => cl[k].tag # "short" /\ first_byte(cl[k]) = EndMark
    BY <1>1 DEF Blank, first_byte
  <1>4. first_byte(cl[1]) # EndMark /\ first_byte(cl[2]) # EndMark
    BY <1>2, ShortFirstByte, DotNamesType DEF DotByte, EndMark
  <1>5. ASSUME NEW k \in SlotIdx, IsListed(cl, k)
        PROVE  k <= 2 /\ cl[k].name[1] = DotByte
    <2>1. k = 1 \/ k = 2
      BY <1>3, <1>5 DEF IsListed
    <2> QED
      BY <1>2, <2>1, DotNamesType
  <1>6. ASSUME NEW j \in SlotIdx, NEW k \in SlotIdx, j < k, first_byte(cl[j]) = EndMark
        PROVE  first_byte(cl[k]) = EndMark
    BY <1>3, <1>4, <1>6, SlotNumbers
  <1> QED
    BY <1>2, <1>5, <1>6 DEF up

\* The cluster c is as init_directory_cluster leaves it, with the parent p.
IsNewDirectory(d, c, p) == d[c] = init_directory_cluster(c, p)

\* mkdir fills the cluster c and touches no directory, so the tree sees the
\* same entries in every directory as before.
LEMMA NewDirectoryView ==
    ASSUME NEW d, NEW c, NEW p, IsNewDirectory(d, c, p)
    PROVE  /\ HasDots(d, c)
           /\ StartOf(d, c, 2) = IF p = RootCluster THEN 0 ELSE p
           /\ \A k \in SlotIdx : ~ IsChild(d, c, k) /\ (IsDotEntry(d, c, k) => k <= 2)
           /\ EndMarksOK(d, {c})
  <1>1. PICK cl : cl = d[c] /\ cl = init_directory_cluster(c, p)
    BY DEF IsNewDirectory
  <1>2. /\ cl[1].tag = "short" /\ cl[1].name = DotName
        /\ cl[1].attr = "dir" /\ cl[1].cluster = c
        /\ cl[2].tag = "short" /\ cl[2].name = DotDotName /\ cl[2].attr = "dir"
        /\ cl[2].cluster = IF p = RootCluster THEN 0 ELSE p
    BY <1>1, NewDirectorySlots
  <1>3. /\ \A k \in SlotIdx : IsListed(cl, k) => k <= 2 /\ cl[k].name[1] = DotByte
        /\ \A j, k \in SlotIdx :
              j < k /\ first_byte(cl[j]) = EndMark => first_byte(cl[k]) = EndMark
    BY <1>1, NewDirectorySlots
  <1>4. HasDots(d, c) /\ StartOf(d, c, 2) = IF p = RootCluster THEN 0 ELSE p
    BY <1>1, <1>2 DEF HasDots, StartOf
  <1>5. \A k \in SlotIdx : ~ IsChild(d, c, k) /\ (IsDotEntry(d, c, k) => k <= 2)
    BY <1>1, <1>3 DEF IsChild, IsDotEntry
  <1>6. EndMarksOK(d, {c})
    BY Zenon, <1>1, <1>3 DEF EndMarksOK
  <1> QED
    BY <1>4, <1>5, <1>6

\* The entry e is of the kind attr and starts at c.
Describes(e, attr, c) == e.attr = attr /\ e.cluster = c

\* The end of create_file and of mkdir: the entry e, of the kind attr and with
\* the cluster c, goes to the first free slot of p, whatever the parent path
\* has led to, and turns d into new and ds into nds.
IsCreation(f, d, ds, p, i, e, attr, c, new, nds) ==
    /\ Tree(f, d, ds)
    /\ p \in Clusters /\ i \in SlotIdx /\ IsFirst(i, FreeSlots(d[p]))
    /\ IsNewEntry(e) /\ attr \in {"file", "dir"} /\ Describes(e, attr, c)
    /\ c \in Clusters /\ Allocated(f, c) /\ Unowned(f, d, ds, c)
    /\ attr = "dir" => IsNewDirectory(d, c, p)
    /\ new = WithEntry(d, p, i, e)
    /\ nds = IF attr = "dir" /\ p \in ds /\ IsListed(new[p], i) THEN ds \cup {c} ELSE ds

\* It keeps the image well-formed.
LEMMA CreateTree ==
    ASSUME NEW f, NEW d, NEW ds, NEW p, NEW i, NEW e, NEW attr, NEW c, NEW new, NEW nds,
           IsCreation(f, d, ds, p, i, e, attr, c, new, nds)
    PROVE  Tree(f, new, nds)
  <1> SUFFICES ASSUME Tree(f, d, ds), p \in Clusters, i \in SlotIdx,
                      IsFirst(i, FreeSlots(d[p])),
                      IsNewEntry(e), attr \in {"file", "dir"}, Describes(e, attr, c),
                      c \in Clusters, Allocated(f, c), Unowned(f, d, ds, c),
                      attr = "dir" => IsNewDirectory(d, c, p),
                      new = WithEntry(d, p, i, e),
                      nds = IF attr = "dir" /\ p \in ds /\ IsListed(new[p], i)
                            THEN ds \cup {c} ELSE ds
               PROVE  Tree(f, new, nds)
    BY Zenon DEF IsCreation
  <1>1. d \in [Clusters -> [SlotIdx -> Slot]] /\ ds \subseteq Clusters /\ e \in Slot
    BY DEF Tree, DirsOK, IsNewEntry, Slot
  <1>2. /\ new \in [Clusters -> [SlotIdx -> Slot]] /\ new[p][i] = e
        /\ \A q \in Clusters : q # p => new[q] = d[q]
    BY <1>1 DEF WithEntry
  <1>3. CASE p \notin ds
    <2>1. \A q \in ds, k \in SlotIdx : SameEntry(d[q][k], new[q][k])
      BY <1>1, <1>2, <1>3 DEF SameEntry
    <2>2. Tree(f, new, ds)
      BY <1>2, <2>1, SameEntriesTree
    <2> QED
      BY <1>3, <2>2
  <1>4. CASE p \in ds
    <2>1. OnlyNew(d, new, ds, p, i)
      BY <1>4, NewEntryView
    <2>2. StartOf(new, p, i) = c /\ (IsDir(new, p, i) <=> attr = "dir")
      BY <1>2 DEF Describes, StartOf, IsDir
    <2>3. IsChild(new, p, i) <=> IsListed(new[p], i)
      BY <1>2 DEF IsChild, IsNewEntry
    <2>4. CASE attr = "dir" /\ IsListed(new[p], i)
      <3>1. c # p
        BY <1>4 DEF Unowned
      <3>2. IsNewDirectory(new, c, p)
        BY <1>2, <2>4, <3>1 DEF IsNewDirectory
      <3>3. Tree(f, new, ds \cup {c})
        BY Zenon, <1>2, <1>4, <2>1, <2>2, <2>3, <2>4, <3>2, NewDirectoryView, NewDirectoryTree
      <3> QED
        BY <1>4, <2>4, <3>3
    <2>5. CASE ~ (attr = "dir" /\ IsListed(new[p], i))
      <3>1. Tree(f, new, ds)
        BY Zenon, <1>2, <1>4, <2>1, <2>2, <2>3, <2>5, NewFileTree
      <3> QED
        BY <2>5, <3>1
    <2> QED
      BY <2>4, <2>5
  <1> QED
    BY <1>3, <1>4

-----------------------------------------------------------------------------
(* Looking up a name *)

\* find_parent_cluster leads from a directory to a directory.
LEMMA ParentIsDirectory ==
    ASSUME NEW f, NEW d, NEW ds, Tree(f, d, ds), NEW c \in ds, c # RootCluster,
           NEW i, IsFirst(i, Named(d[c], DotDot))
    PROVE  ParentCluster(d[c][i].cluster) \in ds
  <1>1. DotsOK(d, ds) /\ ds \subseteq Clusters /\ RootCluster \in ds /\ HasDots(d, c)
    BY DEF Tree, DirsOK, DotsOK
  <1>2. /\ d[c][1].tag = "short" /\ d[c][1].name = DotName
        /\ d[c][2].tag = "short" /\ d[c][2].name = DotDotName /\ d[c][2].attr = "dir"
    BY <1>1 DEF HasDots
  <1>3. EntryName(d[c], 1) = Dot /\ EntryName(d[c], 2) = DotDot
    BY <1>2, DotSlotsNames
  <1>4. IsListed(d[c], 2)
    <2>1. first_byte(d[c][1]) = DotByte /\ first_byte(d[c][2]) = DotByte
      BY <1>1, DotSlotsBytes
    <2>2. \A j \in 1 .. 2 : j = 1 \/ j = 2
      OBVIOUS
    <2>3. DotByte # EndMark /\ DotByte # DeletedMark /\ "dir" # "volume"
      BY DEF DotByte, EndMark, DeletedMark
    <2> QED
      BY Zenon, <1>2, <2>1, <2>2, <2>3 DEF IsListed
  <1>5. DOMAIN d[c] = SlotIdx
    BY <1>1 DEF Tree
  <1>6. 2 \in Named(d[c], DotDot)
    BY <1>3, <1>4, <1>5, SlotNumbers DEF Named
  <1>7. Dot # DotDot
    BY DEF Dot, DotDot
  <1>8. i # 1 /\ i <= 2 /\ i \in SlotIdx
    BY <1>3, <1>5, <1>6, <1>7 DEF IsFirst, Named
  <1>9. i = 2
    BY <1>8, SlotNumbers
  <1>10. PICK p \in ds : StartOf(d, c, 2) = IF p = RootCluster THEN 0 ELSE p
    BY <1>1 DEF DotsOK
  <1>11. p # 0
    BY <1>1, ClusterNumbers
  <1> QED
    BY <1>1, <1>9, <1>10, <1>11 DEF ParentCluster, StartOf

\* An entry that parse_path finds under a name other than "." and ".." is a
\* child, and its FileInfo describes the image.
LEMMA NamedIsCurrent ==
    ASSUME NEW f, NEW d, NEW ds, Tree(f, d, ds), NEW c \in ds,
           NEW name, name \notin {Dot, DotDot}, NEW i \in Named(d[c], name)
    PROVE  FileInfo(d[c], i) \in FileInfos /\ IsCurrent(f, ds, FileInfo(d[c], i))
  <1>1. DotsOK(d, ds) /\ c \in Clusters /\ d \in [Clusters -> [SlotIdx -> Slot]]
    BY DEF Tree, DirsOK
  <1>2. i \in SlotIdx /\ IsListed(d[c], i) /\ EntryName(d[c], i) = name
    BY <1>1 DEF Named
  <1>3. d[c][i].cluster \in Nat /\ d[c][i].size \in Nat /\ d[c][i].attr \in {"file", "dir"}
    BY <1>1, <1>2, ListedType
  <1>4. ~ IsDotEntry(d, c, i)
    <2> SUFFICES ASSUME IsDotEntry(d, c, i)
                 PROVE  FALSE
      OBVIOUS
    <2>1. c # RootCluster /\ i <= 2 /\ HasDots(d, c)
      BY <1>1, <1>2 DEF DotsOK
    <2>2. /\ d[c][1].tag = "short" /\ d[c][1].name = DotName
          /\ d[c][2].tag = "short" /\ d[c][2].name = DotDotName
      BY <2>1 DEF HasDots
    <2>3. EntryName(d[c], 1) = Dot /\ EntryName(d[c], 2) = DotDot
      BY <2>2, DotSlotsNames
    <2>4. i = 1 \/ i = 2
      BY <1>2, <2>1, SlotNumbers
    <2> QED
      BY <1>2, <2>3, <2>4
  <1>5. IsChild(d, c, i)
    BY <1>2, <1>4 DEF IsChild, IsDotEntry
  <1>6. \/ ~ IsDir(d, c, i) /\ StartOf(d, c, i) = 0
        \/ /\ StartOf(d, c, i) \in Clusters \ {RootCluster}
           /\ f[StartOf(d, c, i)] # Free
           /\ IsDir(d, c, i) <=> StartOf(d, c, i) \in ds
    BY <1>2, <1>5 DEF Tree, ChildrenOK
  <1>7. PICK fi : fi = FileInfo(d[c], i)
    OBVIOUS
  <1>8. /\ fi \in FileInfos
        /\ fi.is_directory <=> IsDir(d, c, i)
        /\ fi.start_cluster = StartOf(d, c, i)
    BY Zenon, <1>3, <1>7 DEF FileInfo, FileInfos, IsDir, StartOf
  <1>9. IsCurrent(f, ds, fi)
    BY <1>6, <1>8 DEF IsCurrent
  <1> QED
    BY <1>7, <1>8, <1>9
=============================================================================
