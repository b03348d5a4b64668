---------------------------- MODULE MCHeapSetup -----------------------------
(***************************************************************************)
(* A heap of five pages that begins in the middle of a table, needs eleven *)
(* frames, and gets every memory map of three regions in twelve frames.    *)
(***************************************************************************)
EXTENDS HeapSetup

MCFrames == 12

Types == {"Usable", "Reserved"}

MCMemoryMaps ==
    {<< [type |-> t1, start |-> 0, end |-> a], [type |-> t2, start |-> a, end |-> b],
        [type |-> t3, start |-> b, end |-> MCFrames] >> :
            t1 \in Types, t2 \in Types, t3 \in Types,
            a \in 0 .. MCFrames \div 2, b \in MCFrames \div 2 .. MCFrames}
=============================================================================
