-------------------------- MODULE AllocatorsProofs --------------------------
(***************************************************************************)
(* What BumpProofs, LinkedListProofs and FixedSizeBlockProofs show of each *)
(* allocator alone, for the global allocator that it may be.               *)
(***************************************************************************)
EXTENDS Allocators, TLAPS

BumpP == INSTANCE BumpProofs WITH next <- bump_next, live <- bump_live,
    HeapStart <- BumpHeap.start, HeapSize <- BumpHeap.size, Layouts <- BumpHeap.layouts

ListP == INSTANCE LinkedListProofs WITH live <- list_live,
    HeapStart <- LinkedListHeap.start, HeapSize <- LinkedListHeap.size,
    Layouts <- LinkedListHeap.layouts

BlockP == INSTANCE FixedSizeBlockProofs WITH live <- block_live,
    HeapStart <- FixedSizeBlockHeap.start, HeapSize <- FixedSizeBlockHeap.size,
    Layouts <- FixedSizeBlockHeap.layouts

\* The heap of the bump allocator is one that BumpProofs is about.
LEMMA BumpHeapOK == BumpP!HeapOK
  BY HeapsAssumption DEF Bump!HeapOK, BumpP!HeapOK

\* A step of the global allocator is one of the bump allocator, or leaves its
\* state alone.
LEMMA BumpMoves ==
    ASSUME [Next]_vars
    PROVE  [BumpP!Next]_(BumpP!vars)
<1>1. CASE UNCHANGED vars
  BY <1>1 DEF vars, bump_vars, BumpP!vars
<1>2. CASE Next
  <2>1. Bump!Next \/ UNCHANGED bump_vars
    BY <1>2 DEF Next
  <2>2. ASSUME Bump!Next PROVE BumpP!Next
    BY <2>2 DEF Bump!Next, Bump!Alloc, Bump!Dealloc, Bump!Block, Bump!HeapEnd, Bump!align_up,
        Bump!vars, BumpP!Next, BumpP!Alloc, BumpP!Dealloc, BumpP!Block, BumpP!HeapEnd,
        BumpP!align_up, BumpP!vars
  <2> QED
    BY <2>1, <2>2 DEF bump_vars, BumpP!vars
<1> QED
  BY <1>1, <1>2

\* Whichever allocator is built in, and whatever is allocated and given back,
\* BumpAllocator's counter is the number of its blocks and its heap is used
\* from the start again exactly when it has none.
THEOREM BumpStaysCounted == Spec => []CountsBlocks
<1>1. Init => BumpP!Inv
  <2> SUFFICES ASSUME Init PROVE BumpP!Inv
    OBVIOUS
  <2>1. BumpP!Init
    BY DEF Init, Bump!Init, BumpP!Init
  <2> QED
    BY <2>1, BumpHeapOK, BumpP!InitInv
<1>2. BumpP!Inv /\ [Next]_vars => BumpP!Inv'
  <2> SUFFICES ASSUME BumpP!Inv, [Next]_vars PROVE BumpP!Inv'
    OBVIOUS
  <2> QED
    BY BumpHeapOK, BumpMoves, BumpP!NextStep
<1>3. BumpP!Inv => CountsBlocks
  <2>1. BumpP!Cardinality(bump_live) = Bump!Cardinality(bump_live)
    BY DEF BumpP!Cardinality, Bump!Cardinality
  <2> QED
    BY <2>1 DEF BumpP!Inv, BumpP!CountsBlocks, CountsBlocks, Bump!CountsBlocks
<1> QED
  BY <1>1, <1>2, <1>3, PTL DEF Spec

\* So is the heap of the linked-list allocator, for LinkedListProofs.
LEMMA ListHeapsOK == ListP!ListHeapOK
  BY HeapsAssumption DEF LinkedList!ListHeapOK, ListP!ListHeapOK, LinkedList!HeapOK, ListP!HeapOK,
      LinkedList!NodeAlign, ListP!NodeAlign, LinkedList!NodeSize, ListP!NodeSize

\* A step of the global allocator is one of the linked-list allocator, or
\* leaves its state alone.
LEMMA ListMoves ==
    ASSUME [Next]_vars
    PROVE  [ListP!Next]_(ListP!vars)
<1>1. CASE UNCHANGED vars
  BY <1>1 DEF vars, list_vars, ListP!vars
<1>2. CASE Next
  <2>1. LinkedList!Next \/ UNCHANGED list_vars
    BY <1>2 DEF Next
  <2>2. ASSUME LinkedList!Next PROVE ListP!Next
    BY <2>2, ZenonT(40) DEF LinkedList!Next, LinkedList!Alloc, LinkedList!Dealloc, LinkedList!CanHold,
        LinkedList!Rest, LinkedList!add_free_region, LinkedList!Region, LinkedList!end_addr,
        LinkedList!AlignOf, LinkedList!SizeOf, LinkedList!NodeAlign, LinkedList!NodeSize,
        LinkedList!align_up, LinkedList!Block, LinkedList!Min, LinkedList!vars,
        ListP!Next, ListP!Alloc, ListP!Dealloc, ListP!CanHold,
        ListP!Rest, ListP!add_free_region, ListP!Region, ListP!end_addr,
        ListP!AlignOf, ListP!SizeOf, ListP!NodeAlign, ListP!NodeSize,
        ListP!align_up, ListP!Block, ListP!Min, ListP!vars
  <2> QED
    BY <2>1, <2>2 DEF list_vars, ListP!vars
<1> QED
  BY <1>1, <1>2

\* In the global allocator the invariant of LinkedListProofs holds.
LEMMA ListInvariant == Spec => []ListP!Inv
<1>1. Init => ListP!Inv
  <2> SUFFICES ASSUME Init PROVE ListP!Inv
    OBVIOUS
  <2>1. ListP!Init
    BY DEF Init, LinkedList!Init, ListP!Init, LinkedList!add_free_region, ListP!add_free_region,
        LinkedList!Region, ListP!Region
  <2> QED
    BY <2>1, ListHeapsOK, ListP!InitInv
<1>2. ListP!Inv /\ [Next]_vars => ListP!Inv'
  BY ListHeapsOK, ListMoves, ListP!NextStep
<1> QED
  BY <1>1, <1>2, PTL DEF Spec

\* Whichever allocator is built in: LinkedListAllocator meets the assertions of
\* add_free_region, whatever is allocated and given back.
THEOREM NodesFitRegions == Spec => []FreeRegionsHoldNodes
<1>1. ListP!Inv => FreeRegionsHoldNodes
  BY ListP!InvProperties DEF FreeRegionsHoldNodes, LinkedList!FreeRegionsHoldNodes,
      ListP!FreeRegionsHoldNodes, LinkedList!NodeAlign, ListP!NodeAlign,
      LinkedList!NodeSize, ListP!NodeSize
<1> QED
  BY <1>1, ListInvariant, PTL

\* And no byte of its heap is on its list twice, or there while in use.
THEOREM ListedIsFree == Spec => []FreeIsNotLive
<1>1. ListP!Inv => FreeIsNotLive
  <2> SUFFICES ASSUME ListP!Inv PROVE FreeIsNotLive
    OBVIOUS
  <2>1. ListP!FreeIsNotLive
    BY ListP!InvProperties
  <2>2. \A l : LinkedList!SizeOf(l) = ListP!SizeOf(l)
    BY DEF LinkedList!SizeOf, ListP!SizeOf, LinkedList!NodeSize, ListP!NodeSize,
        LinkedList!AlignOf, ListP!AlignOf, LinkedList!NodeAlign, ListP!NodeAlign,
        LinkedList!align_up, ListP!align_up
  <2> QED
    BY <2>1, <2>2 DEF FreeIsNotLive, LinkedList!FreeIsNotLive, ListP!FreeIsNotLive,
        LinkedList!InHeap, ListP!InHeap, LinkedList!HeapEnd, ListP!HeapEnd,
        LinkedList!Apart, ListP!Apart
<1> QED
  BY <1>1, ListInvariant, PTL

\* So are the heap and the block sizes of the fixed-size block allocator.
LEMMA BlockHeapOK == BlockP!HeapOK /\ BlockP!BlockSizesOK
<1>1. BlockP!HeapOK
  BY HeapsAssumption DEF FixedSizeBlock!HeapOK, BlockP!HeapOK
<1>2. BlockP!BlockSizesOK
  BY HeapsAssumption DEF FixedSizeBlock!BlockSizesOK, BlockP!BlockSizesOK,
      FixedSizeBlock!Classes, BlockP!Classes
<1> QED
  BY <1>1, <1>2

\* A step of the global allocator is one of the fixed-size block allocator, or
\* leaves its state alone.
LEMMA BlockMoves ==
    ASSUME [Next]_vars
    PROVE  [BlockP!Next]_(BlockP!vars)
<1>1. CASE UNCHANGED vars
  BY <1>1 DEF vars, block_vars, BlockP!vars
<1>2. CASE Next
  <2>1. FixedSizeBlock!Next \/ UNCHANGED block_vars
    BY <1>2 DEF Next
  <2>2. ASSUME FixedSizeBlock!Next PROVE BlockP!Next
    BY <2>2 DEF FixedSizeBlock!Next, FixedSizeBlock!Alloc, FixedSizeBlock!Dealloc,
        FixedSizeBlock!fallback_alloc, FixedSizeBlock!Give, FixedSizeBlock!Pop,
        FixedSizeBlock!list_index, FixedSizeBlock!ClassLayout, FixedSizeBlock!Classes,
        FixedSizeBlock!Block, FixedSizeBlock!HeapEnd, FixedSizeBlock!vars,
        FixedSizeBlock!Max, FixedSizeBlock!Min,
        FixedSizeBlock!Fallback!Alloc, FixedSizeBlock!Fallback!Dealloc,
        FixedSizeBlock!Fallback!InHeap, FixedSizeBlock!Fallback!Apart,
        FixedSizeBlock!Fallback!HeapEnd,
        BlockP!Next, BlockP!Alloc, BlockP!Dealloc,
        BlockP!fallback_alloc, BlockP!Give, BlockP!Pop,
        BlockP!list_index, BlockP!ClassLayout, BlockP!Classes,
        BlockP!Block, BlockP!HeapEnd, BlockP!vars,
        BlockP!Max, BlockP!Min,
        BlockP!Fallback!Alloc, BlockP!Fallback!Dealloc,
        BlockP!Fallback!InHeap, BlockP!Fallback!Apart, BlockP!Fallback!HeapEnd
  <2> QED
    BY <2>1, <2>2 DEF block_vars, BlockP!vars
<1> QED
  BY <1>1, <1>2

\* Whichever allocator is built in: at any time each block of a class that
\* FixedSizeBlockAllocator has from its fallback is with one caller or once on
\* the list of its class.
THEOREM BlocksStayPartitioned == Spec => []BlocksPartitioned
<1>1. Init => BlockP!Inv /\ BlockP!NoneLost
  <2> SUFFICES ASSUME Init PROVE BlockP!Inv /\ BlockP!NoneLost
    OBVIOUS
  <2>1. BlockP!Init
    BY DEF Init, FixedSizeBlock!Init, BlockP!Init, FixedSizeBlock!Fallback!Init,
        BlockP!Fallback!Init, FixedSizeBlock!Classes, BlockP!Classes
  <2>2. BlockP!NoneLost
    BY <2>1 DEF BlockP!Init, BlockP!Fallback!Init, BlockP!NoneLost
  <2> QED
    BY <2>1, <2>2, BlockP!InitInv
<1>2. BlockP!Inv /\ BlockP!NoneLost /\ [Next]_vars => BlockP!Inv' /\ BlockP!NoneLost'
  <2> SUFFICES ASSUME BlockP!Inv, BlockP!NoneLost, [Next]_vars
               PROVE  BlockP!Inv' /\ BlockP!NoneLost'
    OBVIOUS
  <2> QED
    BY BlockHeapOK, BlockMoves, BlockP!NextStep, BlockP!NoneLostStep
<1>3. BlockP!Inv /\ BlockP!NoneLost => BlocksPartitioned
  <2> SUFFICES ASSUME BlockP!Inv, BlockP!NoneLost PROVE BlocksPartitioned
    OBVIOUS
  <2>1. BlockP!BlocksPartitioned
    BY BlockHeapOK, BlockP!InvPartitions
  <2> QED
    BY <2>1 DEF BlocksPartitioned, FixedSizeBlock!BlocksPartitioned, BlockP!BlocksPartitioned,
        FixedSizeBlock!ClassLayout, FixedSizeBlock!Classes, FixedSizeBlock!list_index,
        FixedSizeBlock!Max, FixedSizeBlock!Min, FixedSizeBlock!Range, FixedSizeBlock!IsInjective,
        BlockP!ClassLayout, BlockP!Classes, BlockP!list_index,
        BlockP!Max, BlockP!Min, BlockP!Range, BlockP!IsInjective
<1> QED
  BY <1>1, <1>2, <1>3, PTL DEF Spec
=============================================================================
