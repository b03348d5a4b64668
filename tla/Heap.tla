-------------------------------- MODULE Heap --------------------------------
(***************************************************************************)
(* What a global allocator promises its callers (core::alloc::GlobalAlloc, *)
(* as the collections in src/src/file_system.rs rely on it): a block is in *)
(* the heap, is aligned as its layout asks, and shares no byte with a      *)
(* block that has not been given back.  An allocation may fail at any      *)
(* time, which is a step that changes nothing.                             *)
(*                                                                         *)
(* live is a set: a block that is returned again while it is in use, with  *)
(* the same address and layout, is a step that changes nothing too.  The   *)
(* invariants of the allocators exclude it: what they give out next is not *)
(* in use.                                                                 *)
(***************************************************************************)
EXTENDS HeapBase

VARIABLE live    \* the blocks the callers have

Init == live = {}

\* alloc returns the block b.
Alloc(b) ==
    /\ b.layout \in Layouts
    /\ b.addr % b.layout.align = 0
    /\ InHeap(b.addr, b.layout.size)
    /\ \A c \in live : Apart(b.addr, b.layout.size, c.addr, c.layout.size)
    /\ live' = live \cup {b}

\* dealloc is called for the block b.
Dealloc(b) ==
    /\ b \in live
    /\ live' = live \ {b}

Next ==
    \/ \E b \in live' : Alloc(b)
    \/ \E b \in live : Dealloc(b)

Spec == Init /\ [][Next]_live
=============================================================================
