----------------------------- MODULE BumpProofs -----------------------------
(***************************************************************************)
(* BumpAllocator implements the abstract heap, for heaps of every size and *)
(* every set of layouts.                                                   *)
(***************************************************************************)
EXTENDS Bump, FiniteSetTheorems, TLAPS

(* Numbers *)

\* align_up rounds up to a multiple of the alignment.
LEMMA AlignUp ==
    ASSUME NEW a \in Nat, NEW n \in Nat \ {0}
    PROVE  align_up(a, n) \in Nat /\ align_up(a, n) >= a /\ align_up(a, n) % n = 0
<1> DEFINE up == align_up(a, n)
<1>1. a % n \in 0 .. n - 1
  BY SMT
<1>2. a - (a % n) = n * (a \div n)
  BY SMT
<1>3. a \div n \in Nat
  BY SMT
<1>4. \A k \in Nat : (n * k) % n = 0
  BY SMT
<1>5. CASE a % n = 0
  BY <1>5 DEF align_up
<1>6. CASE a % n # 0
  <2>1. up = n * (a \div n + 1)
    BY <1>2, <1>3, <1>6, SMT DEF align_up
  <2>2. up % n = 0
    <3>1. a \div n + 1 \in Nat
      BY <1>3
    <3> QED
      BY <1>4, <2>1, <3>1
  <2>3. up = a - (a % n) + n
    BY <1>6 DEF align_up
  <2>4. up \in Nat /\ up >= a
    BY <1>1, <2>3
  <2> QED
    BY <2>2, <2>4
<1> QED
  BY <1>5, <1>6

-----------------------------------------------------------------------------
\* The invariant that the proof needs: CountsBlocks, with next inside the heap
\* and live a finite set of blocks that begin at or after its start.
Inv ==
    /\ next \in Nat /\ HeapStart <= next /\ next <= HeapEnd
    /\ live \subseteq [addr : Nat, layout : Layouts]
    /\ IsFiniteSet(live)
    /\ \A b \in live : HeapStart <= b.addr
    /\ CountsBlocks

\* A block that Alloc returns is new, aligned and behind all others.
LEMMA NewBlock ==
    ASSUME HeapOK, Inv, NEW l \in Layouts, align_up(next, l.align) + l.size <= HeapEnd
    PROVE  LET b == Block(align_up(next, l.align), l)
           IN  /\ b \in [addr : Nat, layout : Layouts]
               /\ b \notin live
               /\ b.addr % l.align = 0
               /\ b.addr >= next
               /\ InHeap(b.addr, l.size)
               /\ \A c \in live : Apart(b.addr, l.size, c.addr, c.layout.size)
<1> DEFINE b == Block(align_up(next, l.align), l)
<1>1. l.size \in Nat \ {0} /\ l.align \in Nat \ {0}
  BY DEF HeapOK
<1>2. next \in Nat /\ HeapStart <= next /\ HeapStart \in Nat /\ HeapEnd \in Nat
  BY DEF HeapOK, Inv, HeapEnd
<1>3. /\ align_up(next, l.align) \in Nat
      /\ align_up(next, l.align) >= next
      /\ align_up(next, l.align) % l.align = 0
  BY <1>1, <1>2, AlignUp
<1>4. b.addr = align_up(next, l.align) /\ b.layout = l
  BY DEF Block
<1>5. b \in [addr : Nat, layout : Layouts]
  BY <1>3 DEF Block
<1>6. \A c \in live : /\ c.addr \in Nat /\ c.layout.size \in Nat \ {0}
                       /\ c.addr + c.layout.size <= next
  BY DEF HeapOK, Inv, CountsBlocks
<1>7. b \notin live
  BY <1>2, <1>3, <1>4, <1>6
<1>8. InHeap(b.addr, l.size)
  BY <1>1, <1>2, <1>3, <1>4 DEF InHeap
<1>9. \A c \in live : Apart(b.addr, l.size, c.addr, c.layout.size)
  BY <1>1, <1>2, <1>3, <1>4, <1>6 DEF Apart
<1> QED
  BY <1>3, <1>4, <1>5, <1>7, <1>8, <1>9

\* Init establishes the invariant.
LEMMA InitInv ==
    ASSUME HeapOK, Init
    PROVE  Inv
<1>1. HeapStart \in Nat /\ HeapStart <= HeapEnd
  BY DEF HeapOK, HeapEnd
<1>2. IsFiniteSet(live) /\ Cardinality(live) = 0
  BY FS_EmptySet DEF Init
<1> QED
  BY <1>1, <1>2 DEF Init, Inv, CountsBlocks

\* A step of alloc keeps the invariant, and is a step of the abstract heap.
LEMMA AllocStep ==
    ASSUME HeapOK, Inv, NEW l \in Layouts, Alloc(l)
    PROVE  Inv' /\ [AbstractHeap!Next]_live
<1>1. CASE UNCHANGED vars
  BY <1>1 DEF vars, Inv, CountsBlocks
<1>2. CASE ~ UNCHANGED vars
  <2> DEFINE start == align_up(next, l.align)
             b == Block(start, l)
  <2>1. /\ start + l.size <= HeapEnd
        /\ next' = start + l.size
        /\ allocations' = allocations + 1
        /\ live' = live \cup {b}
    BY <1>2 DEF Alloc
  <2>2. /\ b \in [addr : Nat, layout : Layouts]
        /\ b \notin live
        /\ b.addr % l.align = 0
        /\ b.addr >= next
        /\ InHeap(b.addr, l.size)
        /\ \A c \in live : Apart(b.addr, l.size, c.addr, c.layout.size)
    BY <2>1, NewBlock
  <2>3. b.addr = start /\ b.layout = l
    BY DEF Block
  <2>4. l.size \in Nat \ {0} /\ start \in Nat /\ HeapStart \in Nat /\ next \in Nat
    BY <2>2, <2>3 DEF HeapOK, Inv
  <2>5. next' \in Nat /\ HeapStart <= next' /\ next' <= HeapEnd /\ next' >= next
    BY <2>1, <2>2, <2>3, <2>4 DEF Inv
  <2>6. IsFiniteSet(live') /\ Cardinality(live') = Cardinality(live) + 1
    BY <2>1, <2>2, FS_AddElement DEF Inv
  <2>7. \A c \in live' : HeapStart <= c.addr /\ c.addr + c.layout.size <= next'
    <3> SUFFICES ASSUME NEW c \in live' PROVE HeapStart <= c.addr /\ c.addr + c.layout.size <= next'
      OBVIOUS
    <3>1. CASE c = b
      BY <3>1, <2>1, <2>2, <2>3, <2>4 DEF Inv
    <3>2. CASE c \in live
      <4>1. c.addr \in Nat /\ c.layout.size \in Nat
        BY <3>2 DEF HeapOK, Inv
      <4> QED
        BY <3>2, <4>1, <2>4, <2>5 DEF Inv, CountsBlocks
    <3> QED
      BY <3>1, <3>2, <2>1
  <2>8. CountsBlocks'
    BY <2>1, <2>6, <2>7 DEF Inv, CountsBlocks
  <2>9. Inv'
    BY <2>1, <2>2, <2>5, <2>6, <2>7, <2>8 DEF Inv, HeapEnd
  <2>10. AbstractHeap!Alloc(b)
    BY <2>1, <2>2, <2>3 DEF AbstractHeap!Alloc, AbstractHeap!InHeap, AbstractHeap!Apart,
        AbstractHeap!HeapEnd, InHeap, Apart, HeapEnd
  <2> QED
    BY <2>1, <2>9, <2>10 DEF AbstractHeap!Next
<1> QED
  BY <1>1, <1>2

\* A step of dealloc, too: when the counter reaches zero no block is left.
LEMMA DeallocStep ==
    ASSUME HeapOK, Inv, NEW b \in live, Dealloc(b)
    PROVE  Inv' /\ [AbstractHeap!Next]_live
<1>1. live' = live \ {b} /\ allocations' = allocations - 1
  BY DEF Dealloc
<1>2. /\ IsFiniteSet(live') /\ Cardinality(live') = Cardinality(live) - 1
      /\ Cardinality(live') \in Nat
  BY <1>1, FS_RemoveElement, FS_CardinalityType DEF Inv
<1>3. allocations' = Cardinality(live')
  BY <1>1, <1>2 DEF Inv, CountsBlocks
<1>4. allocations' = 0 <=> live' = {}
  BY <1>2, <1>3, FS_EmptySet
<1>5. CASE live' = {}
  <2>1. next' = HeapStart
    BY <1>4, <1>5 DEF Dealloc
  <2>2. HeapStart \in Nat /\ HeapStart <= HeapEnd
    BY DEF HeapOK, HeapEnd
  <2> QED
    BY <1>1, <1>2, <1>3, <1>5, <2>1, <2>2 DEF Inv, CountsBlocks, HeapEnd, AbstractHeap!Next, AbstractHeap!Dealloc
<1>6. CASE live' # {}
  <2>1. next' = next
    BY <1>4, <1>6 DEF Dealloc
  <2> QED
    BY <1>1, <1>2, <1>3, <1>6, <2>1 DEF Inv, CountsBlocks, HeapEnd, AbstractHeap!Next, AbstractHeap!Dealloc
<1> QED
  BY <1>5, <1>6

\* Both together: every step of the allocator keeps the invariant and is a step
\* of the abstract heap or a stutter.
LEMMA NextStep ==
    ASSUME HeapOK, Inv, [Next]_vars
    PROVE  Inv' /\ [AbstractHeap!Next]_live
<1>1. CASE UNCHANGED vars
  BY <1>1 DEF vars, Inv, CountsBlocks
<1>2. CASE Next
  BY <1>2, AllocStep, DeallocStep DEF Next
<1> QED
  BY <1>1, <1>2

\* The allocator counts its blocks: whatever is allocated and given back, in
\* whatever order, BumpAllocator's counter is the number of blocks in use, and
\* the heap is used from its start again once none is.
THEOREM BumpCountsBlocks ==
    ASSUME HeapOK
    PROVE  Spec => []CountsBlocks
<1>1. Inv => CountsBlocks
  BY DEF Inv
<1> QED
  BY <1>1, InitInv, NextStep, PTL DEF Spec

\* BumpAllocator refines the abstract heap: its alloc never returns memory that
\* is misaligned, outside the heap or in use.
THEOREM BumpIsHeap ==
    ASSUME HeapOK
    PROVE  Spec => IsHeap
<1>1. Init => AbstractHeap!Init
  BY DEF Init, AbstractHeap!Init
<1> QED
  BY <1>1, InitInv, NextStep, PTL DEF Spec, IsHeap, AbstractHeap!Spec
=============================================================================
