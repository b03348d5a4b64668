----------------------------- MODULE LinkedList -----------------------------
(***************************************************************************)
(* LinkedListAllocator (src/src/allocator/linked_list.rs) behind its lock. *)
(* The list of free regions is a sequence; in memory each region begins    *)
(* with its node.                                                          *)
(***************************************************************************)
EXTENDS HeapBase, Sequences, FiniteSetsExt

VARIABLES
    free,   \* the free regions, from head.next on
    live    \* auxiliary: the blocks the callers have

vars == << free, live >>

NodeSize == 16     \* mem::size_of::<ListNode>()
NodeAlign == 8     \* mem::align_of::<ListNode>()

\* The heap begins where a node may and has room for one; a layout's alignment
\* is a power of two, so it divides a node's or is a multiple of it.
ListHeapOK ==
    /\ HeapOK
    /\ HeapStart % NodeAlign = 0 /\ HeapSize >= NodeSize
    /\ \A l \in Layouts : NodeAlign % l.align = 0 \/ l.align % NodeAlign = 0

Region(a, n) == [addr |-> a, size |-> n]
end_addr(r) == r.addr + r.size

\* Mutant of AlignOf: the alignment of the layout is lost.
AlignOf_Node(l) == NodeAlign

\* size_align: the alignment and the size that alloc and dealloc use for l.
AlignOf(l) == IF l.align < NodeAlign THEN NodeAlign ELSE l.align

SizeOf(l) ==
    LET padded == align_up(l.size, AlignOf(l))
    IN  IF padded < NodeSize THEN NodeSize ELSE padded

\* add_free_region: its two assertions are FreeRegionsHoldNodes.
add_free_region(list, a, n) == << Region(a, n) >> \o list

\* Mutant of CanHold: the rest of a region may be too small for a node.
CanHold_AnyRest(r, l) == align_up(r.addr, AlignOf(l)) + SizeOf(l) <= end_addr(r)

\* alloc_from_region is Ok: the block fits, and the rest is empty or a region.
CanHold(r, l) ==
    LET excess == end_addr(r) - (align_up(r.addr, AlignOf(l)) + SizeOf(l))
    IN  excess = 0 \/ excess >= NodeSize

Init ==
    /\ free = add_free_region(<< >>, HeapStart, HeapSize)
    /\ live = {}

\* Mutant of Rest: the rest of the region begins inside the block.
Rest_Unpadded(r, l) ==
    LET alloc_end == align_up(r.addr, AlignOf(l)) + NodeSize
    IN  Region(alloc_end, end_addr(r) - alloc_end)

\* Mutant of Rest: the rest is not given back to the list.
Rest_Dropped(r, l) == Region(end_addr(r), 0)

\* What is left of the region r behind a block for l.
Rest(r, l) ==
    LET alloc_end == align_up(r.addr, AlignOf(l)) + SizeOf(l)
    IN  Region(alloc_end, end_addr(r) - alloc_end)

\* The first region that can hold the block leaves the list, and what is left
\* of it behind the block goes to the front.  What is left before the block
\* does not come back.
Alloc(l) ==
    LET fitting == {i \in DOMAIN free : CanHold(free[i], l)}
    IN  \/ fitting = {} /\ UNCHANGED vars
        \/ /\ fitting # {}
           /\ LET i == Min(fitting)
                  rest == Rest(free[i], l)
                  others == SubSeq(free, 1, i - 1) \o SubSeq(free, i + 1, Len(free))
              IN  /\ free' = IF rest.size > 0 THEN add_free_region(others, rest.addr, rest.size)
                                              ELSE others
                  /\ live' = live \cup {Block(align_up(free[i].addr, AlignOf(l)), l)}

Dealloc(b) ==
    /\ free' = add_free_region(free, b.addr, SizeOf(b.layout))
    /\ live' = live \ {b}

Next ==
    \/ \E l \in Layouts : Alloc(l)
    \/ \E b \in live : Dealloc(b)

Spec == Init /\ [][Next]_vars

-----------------------------------------------------------------------------
AbstractHeap == INSTANCE Heap

\* LinkedListAllocator is a heap, however its regions are split and reused.
IsHeap == AbstractHeap!Spec

\* The assertions of add_free_region hold: every region, also a rest and a
\* block that was given back, is aligned for a node and large enough for it.
FreeRegionsHoldNodes ==
    \A i \in DOMAIN free : free[i].addr % NodeAlign = 0 /\ free[i].size >= NodeSize

\* A node is never written into a block that is in use, nor into another
\* region: what is free and what is in use, with its padding, share no byte
\* and stay inside the heap.
FreeIsNotLive ==
    /\ \A i \in DOMAIN free :
        /\ InHeap(free[i].addr, free[i].size)
        /\ \A j \in DOMAIN free :
              i # j => Apart(free[i].addr, free[i].size, free[j].addr, free[j].size)
        /\ \A b \in live : Apart(free[i].addr, free[i].size, b.addr, SizeOf(b.layout))
    /\ \A b \in live :
        /\ InHeap(b.addr, SizeOf(b.layout))
        /\ \A c \in live :
              b # c => Apart(b.addr, SizeOf(b.layout), c.addr, SizeOf(c.layout))

\* The bytes that are free or in use.
Known ==
    MapThenSumSet(LAMBDA i : free[i].size, DOMAIN free)
        + MapThenSumSet(LAMBDA b : SizeOf(b.layout), live)

\* dealloc gives back all that alloc took; alloc loses bytes only in front of
\* a block with an alignment larger than a node's, and fewer than that.
LossIsAlignment ==
    [][\/ Known' = Known
       \/ \E b \in live' \ live : Known - Known' \in 1 .. b.layout.align - NodeAlign]_vars
=============================================================================
