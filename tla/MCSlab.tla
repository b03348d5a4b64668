------------------------------- MODULE MCSlab -------------------------------
(***************************************************************************)
(* A slab allocator with four pages, and two sizes with the same number of *)
(* trailing zeros.                                                         *)
(***************************************************************************)
EXTENDS Slab

MCStart == 8192
MCSize == 4 * 4096
MCSameClass == {[size |-> 512, align |-> 8], [size |-> 1536, align |-> 8]}
=============================================================================
