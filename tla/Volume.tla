------------------------------- MODULE Volume -------------------------------
(***************************************************************************)
(* What the rest of the file system (modules Image and Fat32) takes a disk *)
(* for: a FAT and the clusters of the data area, as arrays.  A cluster is  *)
(* a sequence of words of four bytes; a FAT entry has four bits that are   *)
(* not part of its value.                                                  *)
(***************************************************************************)
EXTENDS Integers, Sequences

CONSTANTS
    EndOfChain,   \* the FAT value of the last cluster of a chain
    SearchEnd     \* free clusters are looked for below this one

VARIABLES
    fat,     \* [top, value] for each cluster
    data,    \* the words of each cluster
    rest,    \* the boot sector and the other copies of the FAT
    call     \* the last call: op, and its cluster, slot and words

vars == << fat, data, rest, call >>

Clusters == DOMAIN fat
SlotWords == 8
SizeWord == 7    \* of a slot, from 0

\* words, written over the sequence s behind its first n words.
Over(s, n, words) ==
    [k \in DOMAIN s |-> IF k \in n + 1 .. n + Len(words) THEN words[k - n] ELSE s[k]]

SetWords(c, n, words) ==
    /\ data' = [data EXCEPT ![c] = Over(@, n, words)]
    /\ UNCHANGED << fat, rest >>

\* The first free cluster becomes the end of a chain; or none is found.
Allocate ==
    LET free == {c \in Clusters : c < SearchEnd /\ fat[c].value = 0}
    IN  /\ UNCHANGED << data, rest >>
        /\ \/ free = {} /\ UNCHANGED fat
           \/ \E c \in free :
                  /\ \A b \in free : c <= b
                  /\ fat' = [fat EXCEPT ![c].value = EndOfChain]

\* Slots are counted from 0.
Next ==
    LET c == call'.cluster
        i == call'.slot
        words == call'.words
    IN  \/ call'.op = "allocate" /\ Allocate
        \/ call'.op = "entry" /\ SetWords(c, i * SlotWords, words)
        \/ call'.op = "size" /\ SetWords(c, i * SlotWords + SizeWord, words)
        \/ call'.op = "data" /\ SetWords(c, 0, words)

Spec == [][Next]_vars
=============================================================================
