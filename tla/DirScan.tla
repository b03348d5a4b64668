------------------------------ MODULE DirScan ------------------------------
(***************************************************************************)
(* The loop of list_directory_entries (src/src/file_system.rs), one slot   *)
(* per step, with its two accumulators: the long-name fragments collected  *)
(* so far and the checksum they have to match.  DirEntries defines the     *)
(* same listing without a loop; the two are compared here.                 *)
(***************************************************************************)
EXTENDS DirEntries

LOCAL INSTANCE SequencesExt

CONSTANTS
    SlotCount,     \* slots in the cluster
    SlotChoices    \* the slots a cluster may hold

VARIABLES
    cl,                   \* the slots of the cluster
    pos,                  \* the slot the loop is at
    lfn_fragments,        \* sequence of [seq, frag]
    expected_checksum,    \* a byte, or NoChecksum
    results,              \* the FileInfos so far, with their names
    done

vars == << cl, pos, lfn_fragments, expected_checksum, results, done >>

NoChecksum == -1

Init ==
    /\ cl \in [1 .. SlotCount -> SlotChoices]
    /\ pos = 1
    /\ lfn_fragments = << >>
    /\ expected_checksum = NoChecksum
    /\ results = << >>
    /\ done = FALSE

slot == cl[pos]

Clear ==
    /\ lfn_fragments' = << >>
    /\ expected_checksum' = NoChecksum

\* The end mark, or the last slot, ends the loop.
Finish ==
    /\ pos > SlotCount \/ (pos <= SlotCount /\ first_byte(slot) = EndMark)
    /\ done' = TRUE
    /\ UNCHANGED << cl, pos, lfn_fragments, expected_checksum, results >>

\* Mutant of SkipDeleted: the fragments collected so far are kept.
SkipDeleted_Keep ==
    /\ first_byte(slot) = DeletedMark
    /\ UNCHANGED << lfn_fragments, expected_checksum, results >>

SkipDeleted ==
    /\ first_byte(slot) = DeletedMark
    /\ Clear
    /\ UNCHANGED results

\* The fragments after frag has replaced the one with the same number, or
\* has been added at the end.
PutFragment(frags, seq, frag) ==
    LET same == {k \in 1 .. Len(frags) : frags[k].seq = seq}
        new == [seq |-> seq, frag |-> frag]
    IN  IF same = {} THEN Append(frags, new)
        ELSE ReplaceAt(frags, CHOOSE k \in same : \A m \in same : k <= m, new)

process_lfn_entry ==
    /\ ~ IsFreeSlot(slot)
    /\ slot.tag = "lfn"
    /\ lfn_fragments' = PutFragment(IF slot.last THEN << >> ELSE lfn_fragments,
                                    slot.seq, slot.frag)
    /\ expected_checksum' = IF slot.last THEN slot.sum ELSE expected_checksum
    /\ UNCHANGED results

\* The code units of the fragments, sorted by sequence number.
assemble_lfn ==
    LET sorted == SortSeq(lfn_fragments, LAMBDA p, q : p.seq < q.seq)
    IN  FlattenSeq([k \in 1 .. Len(sorted) |-> FragmentChars(sorted[k].frag)])

UsesLongName ==
    /\ lfn_fragments # << >>
    /\ expected_checksum # NoChecksum
    /\ expected_checksum = lfn_checksum(slot.name)
    /\ IsUtf16(assemble_lfn)

process_data_entry ==
    /\ ~ IsFreeSlot(slot)
    /\ slot.tag = "short"
    /\ results' = IF slot.attr = "volume" THEN results
                  ELSE Append(results,
                        [name |-> IF UsesLongName THEN FromUtf16(assemble_lfn)
                                  ELSE short_name_to_string(slot.name),
                         info |-> FileInfo(cl, pos)])
    /\ Clear

Next ==
    /\ ~ done
    /\ \/ Finish
       \/ /\ pos <= SlotCount
          /\ SkipDeleted \/ process_lfn_entry \/ process_data_entry
          /\ pos' = pos + 1
          /\ UNCHANGED << cl, done >>

Spec == Init /\ [][Next]_vars

-----------------------------------------------------------------------------
\* The listing DirEntries defines: the listed slots in increasing order.
Listing ==
    LET listed == SetToSortSeq({i \in 1 .. SlotCount : IsListed(cl, i)},
                               LAMBDA i, j : i < j)
    IN  [n \in 1 .. Len(listed) |->
            [name |-> EntryName(cl, listed[n]), info |-> FileInfo(cl, listed[n])]]

\* list_directory_entries, with fragments cleared, replaced, sorted and
\* checked as it goes, returns the listing the slots define, so that a name
\* never takes a fragment from behind a deleted slot or from another entry.
ScanIsListing == done => results = Listing
=============================================================================
