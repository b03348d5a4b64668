----------------------------- MODULE DirEntries -----------------------------
(***************************************************************************)
(* The 32-byte slots of a cluster and the directory listing that           *)
(* list_directory_entries makes of them (src/src/file_system.rs).          *)
(*                                                                         *)
(* A cluster is a function from 1 .. n to slots.  A slot is one of         *)
(*   - a classic entry (FatDir): short name, attribute, cluster, size;     *)
(*   - a long-name entry (LongFileName): sequence number, last flag,       *)
(*     checksum and a fragment of UTF-16 code units;                       *)
(*   - 32 bytes of file contents: their first byte, and whether they end   *)
(*     in the middle of a UTF-8 character;                                 *)
(*   - a blank, known by its first byte (never used, or deleted).          *)
(* Of the attribute byte the code tells apart the LFN value 0x0F, the      *)
(* volume bit 0x08 and the directory bit 0x10.                             *)
(* Sizes and file contents are counted in slots.                           *)
(***************************************************************************)
EXTENDS ShortName

EndMark == 0      \* first byte of a slot that was never used
DeletedMark == 229    \* 0xE5, first byte of a deleted slot

Attrs == {"file", "dir", "volume"}

ShortEntry(name, attr, cluster, size) ==
    [tag |-> "short", name |-> name, attr |-> attr, cluster |-> cluster, size |-> size]

LfnEntry(seq, last, sum, frag) ==
    [tag |-> "lfn", seq |-> seq, last |-> last, sum |-> sum, frag |-> frag]

Text(first, cut) == [tag |-> "text", first |-> first, cut |-> cut]

Blank(first) == [tag |-> "blank", first |-> first]

CodeUnit == 0 .. 65535    \* of UTF-16

ShortSlots == [tag : {"short"}, name : ShortNames, attr : Attrs, cluster : Nat, size : Nat]
LfnSlots == [tag : {"lfn"}, seq : 0 .. 31, last : BOOLEAN, sum : Byte, frag : Seq(CodeUnit)]
TextSlots == [tag : {"text"}, first : Byte, cut : BOOLEAN]
BlankSlots == [tag : {"blank"}, first : {EndMark, DeletedMark}]

Slot == ShortSlots \cup LfnSlots \cup TextSlots \cup BlankSlots

\* entry_chunk[0]; of an LFN entry it is seq_num.
first_byte(s) ==
    CASE s.tag = "short" -> s.name[1]
      [] s.tag = "lfn"   -> s.seq + (IF s.last THEN 64 ELSE 0)
      [] OTHER           -> s.first

\* The slots create_file and mkdir take for a new entry.
IsFreeSlot(s) == first_byte(s) \in {EndMark, DeletedMark}

-----------------------------------------------------------------------------
(* The listing.  Slot i of the cluster cl becomes a FileInfo when no end   *)
(* mark precedes it, it is neither deleted nor a long-name entry, and it   *)
(* is not a volume label.                                                  *)

IsListed(cl, i) ==
    /\ cl[i].tag = "short"
    /\ \A j \in 1 .. i : first_byte(cl[j]) # EndMark
    /\ first_byte(cl[i]) # DeletedMark
    /\ cl[i].attr # "volume"

\* The fragments held when the scan reaches slot i start at j: an entry with
\* the last flag, followed up to i by long-name entries without it.
IsLfnRun(cl, j, i) ==
    /\ j < i
    /\ \A k \in j .. i - 1 :
        /\ cl[k].tag = "lfn"
        /\ ~ IsFreeSlot(cl[k])
        /\ cl[k].last = (k = j)

\* The characters of a fragment: 0x0000 ends it, 0xFFFF is padding.
FragmentChars(frag) ==
    LET NotPadding(u) == u # 65535
        end == CHOOSE n \in 0 .. Len(frag) : /\ \A k \in 1 .. n : frag[k] # 0
                                            /\ n < Len(frag) => frag[n + 1] = 0
    IN  SelectSeq(SubSeq(frag, 1, end), NotPadding)

\* The UTF-16 code units of a run of long-name entries: one fragment per
\* sequence number, the later of two with the same number, in increasing order.
LfnChars(run) ==
    LET Holders(seq) == {k \in 1 .. Len(run) : run[k].seq = seq}
        Latest(seq) == CHOOSE k \in Holders(seq) : \A m \in Holders(seq) : m <= k
        upto[seq \in -1 .. 31] ==
            IF seq = -1 THEN << >>
            ELSE upto[seq - 1] \o (IF Holders(seq) = {} THEN << >>
                                   ELSE FragmentChars(run[Latest(seq)].frag))
    IN  upto[31]

\* The places where a long name of slot i starts: at most one.  The checksum
\* is the one of the entry with the last flag.
LfnStarts(cl, i) ==
    {j \in 1 .. i - 1 : IsLfnRun(cl, j, i) /\ cl[j].sum = lfn_checksum(cl[i].name)}

\* The long names of slot i that are valid UTF-16: at most one.
LongNames(cl, i) ==
    LET texts == {LfnChars(SubSeq(cl, j, i - 1)) : j \in LfnStarts(cl, i)}
    IN  {FromUtf16(s) : s \in {t \in texts : IsUtf16(t)}}

\* FileInfo.name: the long name when there is a valid one, or the short name.
EntryName(cl, i) ==
    IF LongNames(cl, i) = {} THEN short_name_to_string(cl[i].name)
    ELSE CHOOSE name \in LongNames(cl, i) : TRUE

FileInfo(cl, i) ==
    [is_directory |-> cl[i].attr = "dir",
     size |-> cl[i].size,
     start_cluster |-> cl[i].cluster]

FileInfos == [is_directory : BOOLEAN, size : Nat, start_cluster : Nat]

\* The slots whose FileInfo has this name; parse_path takes the first.
Named(cl, name) == {i \in DOMAIN cl : IsListed(cl, i) /\ EntryName(cl, i) = name}

IsFirst(i, S) == i \in S /\ \A j \in S : i <= j
=============================================================================
