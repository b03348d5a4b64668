-------------------------------- MODULE Bump --------------------------------
(***************************************************************************)
(* BumpAllocator (src/src/allocator/bump.rs) behind its lock: alloc and    *)
(* dealloc are one step each.                                              *)
(***************************************************************************)
EXTENDS HeapBase, FiniteSets

VARIABLES
    next,          \* the first byte that is not in use
    allocations,   \* the number of blocks in use
    live           \* auxiliary: the blocks the callers have

vars == << next, allocations, live >>

Init ==
    /\ next = HeapStart
    /\ allocations = 0
    /\ live = {}

\* Null is returned when the heap ends before the block.  checked_add does
\* not overflow: a layout is smaller than 2^63 bytes and the heap is below
\* 2^47.
Alloc(l) ==
    LET alloc_start == align_up(next, l.align)
        alloc_end == alloc_start + l.size
    IN  \/ alloc_end > HeapEnd /\ UNCHANGED vars
        \/ /\ alloc_end <= HeapEnd
           /\ next' = alloc_end
           /\ allocations' = allocations + 1
           /\ live' = live \cup {Block(alloc_start, l)}

\* Mutant of Dealloc: the heap is reused one block too early.
Dealloc_Early(b) ==
    /\ allocations' = allocations - 1
    /\ next' = IF allocations' <= 1 THEN HeapStart ELSE next
    /\ live' = live \ {b}

Dealloc(b) ==
    /\ allocations' = allocations - 1
    /\ next' = IF allocations' = 0 THEN HeapStart ELSE next
    /\ live' = live \ {b}

Next ==
    \/ \E l \in Layouts : Alloc(l)
    \/ \E b \in live : Dealloc(b)

Spec == Init /\ [][Next]_vars

-----------------------------------------------------------------------------
AbstractHeap == INSTANCE Heap

\* BumpAllocator is a heap: although it forgets where its blocks are and
\* only counts them, it never hands out memory that is in use.
IsHeap == AbstractHeap!Spec

\* What makes that so, and gives the whole heap back in the end: the counter
\* is the number of blocks in use, blocks end before next, and next is at the
\* start when there are none.
CountsBlocks ==
    /\ allocations = Cardinality(live)
    /\ \A b \in live : b.addr + b.layout.size <= next
    /\ live = {} => next = HeapStart
=============================================================================
