------------------------ MODULE FixedSizeBlockProofs ------------------------
(***************************************************************************)
(* FixedSizeBlockAllocator implements the abstract heap if its fallback    *)
(* allocator does, for heaps of every size, every list of block sizes that *)
(* are powers of two and every set of layouts.                             *)
(***************************************************************************)
EXTENDS FixedSizeBlock, WellFoundedInduction, TLAPS

(* Numbers *)

\* A multiple of a multiple is a multiple.
LEMMA MultipleOfMultiple ==
    ASSUME NEW a \in Nat, NEW n \in Nat \ {0}, NEW k \in Nat \ {0}, a % n = 0, n % k = 0
    PROVE  a % k = 0
<1>1. a = n * (a \div n) /\ a \div n \in Nat
  BY SMT
<1>2. n = k * (n \div k) /\ n \div k \in Nat
  BY SMT
<1>3. PICK p \in Nat, q \in Nat : a = n * p /\ n = k * q
  BY <1>1, <1>2
<1>4. a = k * (q * p) /\ q * p \in Nat
  BY <1>3, SMT
<1>5. \A j \in Nat : (k * j) % k = 0
  BY SMT
<1> QED
  BY <1>4, <1>5

\* A set of numbers that has an element has a least one.
LEMMA MinIsElement ==
    ASSUME NEW S \in SUBSET Nat, S # {}
    PROVE  Min(S) \in S /\ \A y \in S : Min(S) <= y
<1> DEFINE R == OpToRel(<, Nat)
<1>1. IsWellFoundedOn(R, Nat)
  BY NatLessThanWellFounded
<1>2. PICK x \in S : \A y \in S : ~ (<< y, x >> \in R)
  <2> HIDE DEF R
  <2> QED
    BY <1>1, WFMin
<1>3. \A y \in S : << y, x >> \in R <=> y < x
  BY DEF OpToRel
<1>4. \A y \in S : x <= y
  <2> HIDE DEF R
  <2>1. \A y \in S : ~ (y < x)
    BY <1>2, <1>3, Zenon
  <2> QED
    BY <2>1
<1> QED
  BY <1>4 DEF Min

\* The larger of two numbers.
LEMMA MaxOfTwo ==
    ASSUME NEW a \in Nat, NEW b \in Nat
    PROVE  Max({a, b}) \in Nat /\ Max({a, b}) >= a /\ Max({a, b}) >= b
<1>1. \E x \in {a, b} : \A y \in {a, b} : x >= y
  <2>1. CASE a >= b
    BY <2>1
  <2>2. CASE b >= a
    BY <2>2
  <2> QED
    BY <2>1, <2>2
<1>2. Max({a, b}) \in {a, b} /\ \A y \in {a, b} : Max({a, b}) >= y
  BY <1>1 DEF Max
<1> QED
  BY <1>2

-----------------------------------------------------------------------------
\* What the allocator asks its fallback for when it is asked for l.
Backing(l) ==
    IF list_index(l) = {} THEN l ELSE ClassLayout(Min(list_index(l)))

\* The blocks of a class are as large and as aligned as all its layouts ask.
LEMMA BackingServes ==
    ASSUME HeapOK, BlockSizesOK, NEW l \in Layouts
    PROVE  /\ list_index(l) # {} => Min(list_index(l)) \in Classes
           /\ Backing(l) \in Layouts \cup {ClassLayout(i) : i \in Classes}
           /\ Backing(l).size \in Nat \ {0} /\ Backing(l).align \in Nat \ {0}
           /\ Backing(l).size >= l.size
           /\ \A a \in Nat : a % Backing(l).align = 0 => a % l.align = 0
<1>1. l.size \in Nat \ {0} /\ l.align \in Nat \ {0}
  BY DEF HeapOK
<1>2. CASE list_index(l) = {}
  BY <1>1, <1>2 DEF Backing
<1>3. CASE list_index(l) # {}
  <2> DEFINE i == Min(list_index(l))
             n == BlockSizes[i]
             m == Max({l.size, l.align})
  <2>1. Classes \subseteq Nat
    BY DEF BlockSizesOK, Classes
  <2>2. i \in Classes /\ n >= m
    <3>1. list_index(l) \in SUBSET Nat
      BY <2>1 DEF list_index
    <3>2. i \in list_index(l)
      BY <1>3, <3>1, MinIsElement
    <3> QED
      BY <3>2 DEF list_index
  <2>3. m \in Nat /\ m >= l.size /\ m >= l.align
    BY <1>1, MaxOfTwo
  <2>4. n \in Nat \ {0}
    BY <2>2 DEF BlockSizesOK, Classes
  <2> HIDE DEF m
  <2>5. n >= l.size /\ n >= l.align
    BY <1>1, <2>2, <2>3, <2>4
  <2>6. n % l.align = 0
    BY <2>2, <2>5 DEF BlockSizesOK
  <2>7. Backing(l) = [size |-> n, align |-> n]
    BY <1>3 DEF Backing, ClassLayout
  <2>8. Backing(l) = ClassLayout(i)
    BY <1>3 DEF Backing
  <2> HIDE DEF n
  <2>9. ASSUME NEW a \in Nat, a % n = 0 PROVE a % l.align = 0
    BY <1>1, <2>4, <2>6, <2>9, MultipleOfMultiple
  <2> QED
    BY <2>2, <2>4, <2>5, <2>7, <2>8, <2>9
<1> QED
  BY <1>2, <1>3

-----------------------------------------------------------------------------
AllLayouts == Layouts \cup {ClassLayout(i) : i \in Classes}

TypeInv ==
    /\ list_heads \in [Classes -> Seq(Nat)]
    /\ held \subseteq [addr : Nat, layout : AllLayouts]
    /\ live \subseteq [addr : Nat, layout : Layouts]

\* The fallback is a heap: its blocks are aligned, in the heap and apart.
HeldInv ==
    /\ \A h \in held : h.addr % h.layout.align = 0 /\ InHeap(h.addr, h.layout.size)
    /\ \A g, h \in held : g # h => Apart(g.addr, g.layout.size, h.addr, h.layout.size)

\* A caller's block is one of the fallback's, and of no other caller.
LiveInv ==
    /\ \A b \in live : Block(b.addr, Backing(b.layout)) \in held
    /\ \A b, c \in live : b.addr = c.addr => b = c

\* A block on a list is one of the fallback's, of the class of the list; it is
\* there once, and no caller has it.
ListInv ==
    \A i \in Classes : \A k \in 1 .. Len(list_heads[i]) :
        /\ Block(list_heads[i][k], ClassLayout(i)) \in held
        /\ \A b \in live : b.addr # list_heads[i][k]
        /\ \A j \in Classes : \A m \in 1 .. Len(list_heads[j]) :
               list_heads[i][k] = list_heads[j][m] => i = j /\ k = m

\* The inductive invariant.
Inv == TypeInv /\ HeldInv /\ LiveInv /\ ListInv

\* The layouts that the fallback is asked for have sizes and alignments.
LEMMA LayoutSizes ==
    ASSUME HeapOK, BlockSizesOK, NEW l \in AllLayouts
    PROVE  l.size \in Nat \ {0} /\ l.align \in Nat \ {0}
<1>1. CASE l \in Layouts
  BY <1>1 DEF HeapOK
<1>2. CASE l \in {ClassLayout(i) : i \in Classes}
  <2>1. PICK i \in Classes : l = ClassLayout(i)
    BY <1>2
  <2>2. BlockSizes[i] \in Nat \ {0}
    BY DEF BlockSizesOK, Classes
  <2> QED
    BY <2>1, <2>2 DEF ClassLayout
<1> QED
  BY <1>1, <1>2 DEF AllLayouts

\* A block of the fallback that no caller has may be given to a caller, as a
\* step of the abstract heap: it is large enough, aligned, and apart from the
\* blocks that callers have, which lie in other blocks of the fallback.
LEMMA GiveIsAlloc ==
    ASSUME HeapOK, BlockSizesOK, Inv, NEW l \in Layouts, NEW a \in Nat,
           a % Backing(l).align = 0,
           InHeap(a, Backing(l).size),
           \A b \in live : Apart(a, Backing(l).size, b.addr, Backing(b.layout).size),
           Give(a, l)
    PROVE  AbstractHeap!Next
<1> DEFINE n == Block(a, l)
<1>1. n.addr = a /\ n.layout = l
  BY DEF Block
<1>2. /\ l.size \in Nat \ {0} /\ Backing(l).size \in Nat \ {0}
      /\ Backing(l).size >= l.size
      /\ a % l.align = 0
  BY BackingServes DEF HeapOK
<1>3. InHeap(a, l.size)
  <2>1. HeapStart \in Nat /\ HeapEnd \in Nat
    BY DEF HeapOK, HeapEnd
  <2> QED
    BY <1>2, <2>1 DEF InHeap
<1>4. ASSUME NEW b \in live PROVE Apart(a, l.size, b.addr, b.layout.size)
  <2>1. b.addr \in Nat /\ b.layout \in Layouts
    BY DEF Inv, TypeInv
  <2>2. /\ b.layout.size \in Nat \ {0} /\ Backing(b.layout).size \in Nat \ {0}
        /\ Backing(b.layout).size >= b.layout.size
    BY <2>1, BackingServes DEF HeapOK
  <2>3. Apart(a, Backing(l).size, b.addr, Backing(b.layout).size)
    OBVIOUS
  <2> QED
    BY <1>2, <2>1, <2>2, <2>3 DEF Apart
<1>5. live' = live \cup {n}
  BY DEF Give
<1>6. AbstractHeap!Alloc(n)
  BY <1>1, <1>2, <1>3, <1>4, <1>5 DEF AbstractHeap!Alloc, AbstractHeap!InHeap,
      AbstractHeap!Apart, AbstractHeap!HeapEnd, InHeap, Apart, HeapEnd
<1> QED
  BY <1>5, <1>6 DEF AbstractHeap!Next

\* A new block of the fallback, for a caller.
LEMMA FallbackStep ==
    ASSUME HeapOK, BlockSizesOK, Inv, NEW l \in Layouts, fallback_alloc(Backing(l), l)
    PROVE  Inv' /\ [AbstractHeap!Next]_live
<1>1. CASE UNCHANGED vars
  BY <1>1 DEF vars, Inv, TypeInv, HeldInv, LiveInv, ListInv
<1>2. CASE ~ UNCHANGED vars
  <2>1. PICK a \in HeapStart .. HeapEnd :
            /\ Fallback!Alloc(Block(a, Backing(l)))
            /\ Give(a, l)
            /\ UNCHANGED list_heads
    BY <1>2 DEF fallback_alloc
  <2> DEFINE h == Block(a, Backing(l))
             n == Block(a, l)
  <2>2. /\ h.addr = a /\ h.layout = Backing(l)
        /\ n.addr = a /\ n.layout = l
    BY DEF Block
  <2>3. a \in Nat
    BY DEF HeapOK, HeapEnd
  <2>4. /\ a % Backing(l).align = 0
        /\ InHeap(a, Backing(l).size)
        /\ \A g \in held : Apart(a, Backing(l).size, g.addr, g.layout.size)
        /\ held' = held \cup {h}
    BY <2>1, <2>2 DEF Fallback!Alloc, Fallback!InHeap, Fallback!Apart, Fallback!HeapEnd,
        InHeap, Apart, HeapEnd
  <2>5. live' = live \cup {n} /\ list_heads' = list_heads
    BY <2>1 DEF Give
  <2>6. Backing(l) \in AllLayouts /\ Backing(l).size \in Nat \ {0}
    BY BackingServes DEF AllLayouts
  <2>7. \A g \in held : g.addr \in Nat /\ g.layout.size \in Nat \ {0} /\ g.addr # a
    <3>1. ASSUME NEW g \in held
          PROVE  g.addr \in Nat /\ g.layout.size \in Nat \ {0} /\ g.addr # a
      <4>1. g.addr \in Nat /\ g.layout \in AllLayouts
        BY DEF Inv, TypeInv
      <4>2. g.layout.size \in Nat \ {0}
        BY <4>1, LayoutSizes
      <4>3. Apart(a, Backing(l).size, g.addr, g.layout.size)
        BY <2>4
      <4> QED
        BY <2>3, <2>6, <4>1, <4>2, <4>3 DEF Apart
    <3> QED
      BY <3>1
  <2>8. \A b \in live : /\ Block(b.addr, Backing(b.layout)) \in held
                          /\ Block(b.addr, Backing(b.layout)).addr = b.addr
                          /\ Block(b.addr, Backing(b.layout)).layout = Backing(b.layout)
    BY DEF Inv, LiveInv, Block
  <2>9. \A b \in live : b.addr # a
    BY <2>7, <2>8
  <2>10. \A b \in live : Apart(a, Backing(l).size, b.addr, Backing(b.layout).size)
    BY <2>4, <2>8
  <2>11. AbstractHeap!Next
    BY <2>1, <2>3, <2>4, <2>10, GiveIsAlloc
  <2>12. \A i \in Classes : \A k \in 1 .. Len(list_heads[i]) : list_heads[i][k] # a
    <3>1. ASSUME NEW i \in Classes, NEW k \in 1 .. Len(list_heads[i])
          PROVE  list_heads[i][k] # a
      <4>1. Block(list_heads[i][k], ClassLayout(i)) \in held
        BY DEF Inv, ListInv
      <4>2. Block(list_heads[i][k], ClassLayout(i)).addr = list_heads[i][k]
        BY DEF Block
      <4> QED
        BY <2>7, <4>1, <4>2
    <3> QED
      BY <3>1
  <2>13. TypeInv'
    BY <2>2, <2>3, <2>4, <2>5, <2>6 DEF Inv, TypeInv, Block, AllLayouts
  <2>14. HeldInv'
    <3>1. \A g \in held : Apart(g.addr, g.layout.size, a, Backing(l).size)
      BY <2>4 DEF Apart
    <3> QED
      BY <2>2, <2>4, <3>1 DEF Inv, HeldInv, InHeap, HeapEnd, Apart
  <2>15. LiveInv'
    BY <2>2, <2>4, <2>5, <2>9 DEF Inv, LiveInv, Block
  <2>16. ListInv'
    BY <2>2, <2>4, <2>5, <2>12 DEF Inv, ListInv
  <2> QED
    BY <2>11, <2>13, <2>14, <2>15, <2>16 DEF Inv
<1> QED
  BY <1>1, <1>2

\* The first block of a list, for a caller.
LEMMA PopStep ==
    ASSUME HeapOK, BlockSizesOK, Inv, NEW l \in Layouts, NEW i \in Classes,
           list_heads[i] # << >>,
           Backing(l) = ClassLayout(i),
           Give(Head(list_heads[i]), l), Pop(i), UNCHANGED held
    PROVE  Inv' /\ [AbstractHeap!Next]_live
<1> DEFINE a == list_heads[i][1]
           h == Block(a, Backing(l))
           n == Block(a, l)
<1>1. /\ list_heads[i] \in Seq(Nat)
      /\ 1 \in 1 .. Len(list_heads[i])
      /\ Head(list_heads[i]) = a
      /\ a \in Nat
  BY DEF Inv, TypeInv
<1>2. /\ h.addr = a /\ h.layout = Backing(l)
      /\ n.addr = a /\ n.layout = l
  BY DEF Block
<1>3. h \in held /\ \A b \in live : b.addr # a
  BY <1>1 DEF Inv, ListInv
<1>4. live' = live \cup {n} /\ held' = held
  BY <1>1 DEF Give
<1>5. a % Backing(l).align = 0 /\ InHeap(a, Backing(l).size)
  BY <1>2, <1>3 DEF Inv, HeldInv
<1>6. ASSUME NEW b \in live PROVE Apart(a, Backing(l).size, b.addr, Backing(b.layout).size)
  <2> DEFINE g == Block(b.addr, Backing(b.layout))
  <2>1. g \in held /\ g.addr = b.addr /\ g.layout = Backing(b.layout)
    BY DEF Inv, LiveInv, Block
  <2>2. g # h
    BY <1>2, <1>3, <2>1
  <2> HIDE DEF g, h
  <2> QED
    BY <1>2, <1>3, <2>1, <2>2 DEF Inv, HeldInv
<1>7. AbstractHeap!Next
  BY <1>1, <1>5, <1>6, GiveIsAlloc
<1>8. /\ list_heads' \in [Classes -> Seq(Nat)]
      /\ Len(list_heads'[i]) = Len(list_heads[i]) - 1
      /\ \A k \in 1 .. Len(list_heads'[i]) : list_heads'[i][k] = list_heads[i][k + 1]
      /\ \A j \in Classes \ {i} : list_heads'[j] = list_heads[j]
  BY <1>1 DEF Inv, TypeInv, Pop
<1>9. TypeInv'
  BY <1>1, <1>4, <1>8 DEF Inv, TypeInv, Block, AllLayouts
<1>10. HeldInv'
  BY <1>4 DEF Inv, HeldInv, InHeap, HeapEnd
<1>11. LiveInv'
  BY <1>2, <1>3, <1>4 DEF Inv, LiveInv, Block
<1>12. ListInv'
  <2>1. ASSUME NEW j \in Classes, NEW k \in 1 .. Len(list_heads'[j])
        PROVE  \E m \in 1 .. Len(list_heads[j]) :
                   /\ list_heads'[j][k] = list_heads[j][m]
                   /\ m = (IF j = i THEN k + 1 ELSE k)
                   /\ j = i => m # 1
    <3>1. CASE j = i
      <4>1. Len(list_heads[i]) \in Nat
        BY <1>1
      <4>2. k + 1 \in 1 .. Len(list_heads[i]) /\ k + 1 # 1
        BY <1>8, <3>1, <4>1
      <4> QED
        BY <1>8, <3>1, <4>2
    <3>2. CASE j # i
      BY <1>8, <3>2
    <3> QED
      BY <3>1, <3>2
  <2>2. SUFFICES ASSUME NEW j \in Classes, NEW k \in 1 .. Len(list_heads'[j])
                 PROVE  /\ Block(list_heads'[j][k], ClassLayout(j)) \in held
                        /\ \A b \in live' : b.addr # list_heads'[j][k]
                        /\ \A j2 \in Classes : \A k2 \in 1 .. Len(list_heads'[j2]) :
                               list_heads'[j][k] = list_heads'[j2][k2] => j = j2 /\ k = k2
    BY <1>4 DEF ListInv
  <2>3. PICK m \in 1 .. Len(list_heads[j]) :
            /\ list_heads'[j][k] = list_heads[j][m]
            /\ m = (IF j = i THEN k + 1 ELSE k)
            /\ j = i => m # 1
    BY <2>1
  <2>4. Block(list_heads'[j][k], ClassLayout(j)) \in held
    BY <2>3 DEF Inv, ListInv
  <2>5. list_heads[j][m] # a
    BY <1>1, <2>3 DEF Inv, ListInv
  <2>6. \A b \in live' : b.addr # list_heads'[j][k]
    BY <1>2, <1>4, <2>3, <2>5 DEF Inv, ListInv
  <2>7. ASSUME NEW j2 \in Classes, NEW k2 \in 1 .. Len(list_heads'[j2]),
               list_heads'[j][k] = list_heads'[j2][k2]
        PROVE  j = j2 /\ k = k2
    <3>1. PICK m2 \in 1 .. Len(list_heads[j2]) :
            /\ list_heads'[j2][k2] = list_heads[j2][m2]
            /\ m2 = (IF j2 = i THEN k2 + 1 ELSE k2)
      BY <2>1
    <3>2. j = j2 /\ m = m2
      BY <2>3, <2>7, <3>1 DEF Inv, ListInv
    <3> QED
      BY <2>3, <3>1, <3>2
  <2> QED
    BY <2>4, <2>6, <2>7
<1> QED
  BY <1>7, <1>9, <1>10, <1>11, <1>12 DEF Inv

\* A block of no class goes back to the fallback.
LEMMA FallbackDeallocStep ==
    ASSUME HeapOK, BlockSizesOK, Inv, NEW b \in live,
           list_index(b.layout) = {},
           live' = live \ {b}, Fallback!Dealloc(b), UNCHANGED list_heads
    PROVE  Inv'
<1>1. held' = held \ {b} /\ b \in held
  BY DEF Fallback!Dealloc
<1>2. TypeInv'
  BY <1>1 DEF Inv, TypeInv, AllLayouts
<1>3. HeldInv'
  BY <1>1 DEF Inv, HeldInv, InHeap, HeapEnd
<1>4. LiveInv'
  <2>1. ASSUME NEW c \in live' PROVE Block(c.addr, Backing(c.layout)) \in held'
    <3>1. c \in live /\ c.addr # b.addr
      BY DEF Inv, LiveInv
    <3>2. Block(c.addr, Backing(c.layout)).addr = c.addr
      BY DEF Block
    <3> QED
      BY <1>1, <3>1, <3>2 DEF Inv, LiveInv
  <2>2. \A c, d \in live' : c.addr = d.addr => c = d
    BY DEF Inv, LiveInv
  <2> QED
    BY <2>1, <2>2 DEF LiveInv
<1>5. ListInv'
  <2>1. ASSUME NEW i \in Classes, NEW k \in 1 .. Len(list_heads[i])
        PROVE  Block(list_heads[i][k], ClassLayout(i)) \in held'
    <3>1. list_heads[i][k] # b.addr /\ Block(list_heads[i][k], ClassLayout(i)) \in held
      BY DEF Inv, ListInv
    <3>2. Block(list_heads[i][k], ClassLayout(i)).addr = list_heads[i][k]
      BY DEF Block
    <3> QED
      BY <1>1, <3>1, <3>2
  <2> QED
    BY <2>1 DEF Inv, ListInv
<1> QED
  BY <1>2, <1>3, <1>4, <1>5 DEF Inv

\* A block of a class goes to the head of its list.
LEMMA PushStep ==
    ASSUME HeapOK, BlockSizesOK, Inv, NEW b \in live, NEW i \in Classes,
           Backing(b.layout) = ClassLayout(i),
           live' = live \ {b},
           list_heads' = [list_heads EXCEPT ![i] = << b.addr >> \o @],
           UNCHANGED held
    PROVE  Inv'
<1>1. b.addr \in Nat /\ list_heads[i] \in Seq(Nat)
  BY DEF Inv, TypeInv
<1>2. /\ list_heads' \in [Classes -> Seq(Nat)]
      /\ Len(list_heads'[i]) = Len(list_heads[i]) + 1
      /\ list_heads'[i][1] = b.addr
      /\ \A k \in 2 .. Len(list_heads'[i]) : list_heads'[i][k] = list_heads[i][k - 1]
      /\ \A j \in Classes \ {i} : list_heads'[j] = list_heads[j]
  BY <1>1 DEF Inv, TypeInv
<1>3. TypeInv'
  BY <1>2 DEF Inv, TypeInv, AllLayouts
<1>4. HeldInv'
  BY DEF Inv, HeldInv, InHeap, HeapEnd
<1>5. LiveInv'
  BY DEF Inv, LiveInv
<1>6. \A c \in live' : c \in live /\ c.addr # b.addr
  BY DEF Inv, LiveInv
<1>7. ASSUME NEW j \in Classes, NEW k \in 1 .. Len(list_heads'[j])
      PROVE  \/ j = i /\ k = 1 /\ list_heads'[j][k] = b.addr
             \/ \E m \in 1 .. Len(list_heads[j]) :
                    /\ list_heads'[j][k] = list_heads[j][m]
                    /\ m = (IF j = i THEN k - 1 ELSE k)
  <2>1. CASE j = i /\ k # 1
    <3>1. Len(list_heads[i]) \in Nat
      BY <1>1
    <3>2. k \in 2 .. Len(list_heads'[i]) /\ k - 1 \in 1 .. Len(list_heads[i])
      BY <1>2, <2>1, <3>1
    <3> QED
      BY <1>2, <2>1, <3>2
  <2>2. CASE j = i /\ k = 1
    BY <1>2, <2>2
  <2>3. CASE j # i
    BY <1>2, <2>3
  <2> QED
    BY <2>1, <2>2, <2>3
<1>8. ASSUME NEW j \in Classes, NEW m \in 1 .. Len(list_heads[j])
      PROVE  list_heads[j][m] # b.addr
  BY DEF Inv, ListInv
<1>9. ASSUME NEW j \in Classes, NEW k \in 1 .. Len(list_heads'[j]),
             list_heads'[j][k] = b.addr
      PROVE  j = i /\ k = 1
  <2>1. CASE \E m \in 1 .. Len(list_heads[j]) : list_heads'[j][k] = list_heads[j][m]
    <3>1. PICK m \in 1 .. Len(list_heads[j]) : list_heads'[j][k] = list_heads[j][m]
      BY <2>1
    <3>2. list_heads[j][m] # b.addr
      BY <1>8
    <3> QED
      BY <1>9, <3>1, <3>2
  <2> QED
    BY <1>7, <2>1
<1>10. ListInv'
  <2>1. SUFFICES ASSUME NEW j \in Classes, NEW k \in 1 .. Len(list_heads'[j])
                 PROVE  /\ Block(list_heads'[j][k], ClassLayout(j)) \in held
                        /\ \A c \in live' : c.addr # list_heads'[j][k]
                        /\ \A j2 \in Classes : \A k2 \in 1 .. Len(list_heads'[j2]) :
                               list_heads'[j][k] = list_heads'[j2][k2] => j = j2 /\ k = k2
    BY DEF ListInv
  <2>2. Block(list_heads'[j][k], ClassLayout(j)) \in held
    <3>1. Block(b.addr, ClassLayout(i)) \in held
      BY DEF Inv, LiveInv
    <3> QED
      BY <1>7, <3>1 DEF Inv, ListInv
  <2>3. \A c \in live' : c.addr # list_heads'[j][k]
    BY <1>6, <1>7 DEF Inv, ListInv
  <2>4. ASSUME NEW j2 \in Classes, NEW k2 \in 1 .. Len(list_heads'[j2]),
               list_heads'[j][k] = list_heads'[j2][k2]
        PROVE  j = j2 /\ k = k2
    <3>1. CASE list_heads'[j][k] = b.addr
      <4>1. j = i /\ k = 1
        BY <1>9, <3>1
      <4>2. j2 = i /\ k2 = 1
        BY <1>9, <2>4, <3>1
      <4> QED
        BY <4>1, <4>2
    <3>2. CASE list_heads'[j][k] # b.addr
      <4>1. PICK m \in 1 .. Len(list_heads[j]) :
              /\ list_heads'[j][k] = list_heads[j][m]
              /\ m = (IF j = i THEN k - 1 ELSE k)
        BY <1>7, <3>2
      <4>2. PICK m2 \in 1 .. Len(list_heads[j2]) :
              /\ list_heads'[j2][k2] = list_heads[j2][m2]
              /\ m2 = (IF j2 = i THEN k2 - 1 ELSE k2)
        BY <1>7, <2>4, <3>2
      <4>3. j = j2 /\ m = m2
        BY <2>4, <4>1, <4>2 DEF Inv, ListInv
      <4> QED
        BY <4>1, <4>2, <4>3
    <3> QED
      BY <3>1, <3>2
  <2> QED
    BY <2>2, <2>3, <2>4
<1> QED
  BY <1>3, <1>4, <1>5, <1>10 DEF Inv

\* Init establishes the invariant.
LEMMA InitInv ==
    ASSUME Init
    PROVE  Inv
<1>1. held = {} /\ live = {} /\ list_heads = [i \in Classes |-> << >>]
  BY DEF Init, Fallback!Init
<1>2. \A i \in Classes : 1 .. Len(list_heads[i]) = {}
  BY <1>1
<1> QED
  BY <1>1, <1>2 DEF Inv, TypeInv, HeldInv, LiveInv, ListInv

\* Every step of the allocator keeps the invariant and is a step of the
\* abstract heap or a stutter.
LEMMA NextStep ==
    ASSUME HeapOK, BlockSizesOK, Inv, [Next]_vars
    PROVE  Inv' /\ [AbstractHeap!Next]_live
<1>1. CASE UNCHANGED vars
  BY <1>1 DEF vars, Inv, TypeInv, HeldInv, LiveInv, ListInv
<1>2. ASSUME NEW l \in Layouts, Alloc(l) PROVE Inv' /\ [AbstractHeap!Next]_live
  <2>1. CASE list_index(l) = {} /\ fallback_alloc(l, l)
    <3>1. Backing(l) = l
      BY <2>1 DEF Backing
    <3>2. fallback_alloc(Backing(l), l)
      BY <2>1, <3>1
    <3> QED
      BY <3>2, FallbackStep
  <2>2. CASE list_index(l) # {}
    <3> DEFINE i == Min(list_index(l))
    <3>1. i \in Classes /\ Backing(l) = ClassLayout(i)
      BY <2>2, BackingServes DEF Backing
    <3>2. CASE list_heads[i] = << >> /\ fallback_alloc(ClassLayout(i), l)
      BY <3>1, <3>2, FallbackStep
    <3>3. CASE /\ list_heads[i] # << >>
               /\ Give(Head(list_heads[i]), l) /\ Pop(i) /\ UNCHANGED held
      BY <3>1, <3>3, PopStep
    <3> QED
      BY <1>2, <2>2, <3>2, <3>3 DEF Alloc
  <2> QED
    BY <1>2, <2>1, <2>2 DEF Alloc
<1>3. ASSUME NEW b \in live, Dealloc(b) PROVE Inv' /\ [AbstractHeap!Next]_live
  <2>1. live' = live \ {b}
    BY <1>3 DEF Dealloc
  <2>2. AbstractHeap!Next
    BY <2>1 DEF AbstractHeap!Next, AbstractHeap!Dealloc
  <2>3. CASE list_index(b.layout) = {} /\ Fallback!Dealloc(b) /\ UNCHANGED list_heads
    BY <2>1, <2>2, <2>3, FallbackDeallocStep
  <2>4. CASE list_index(b.layout) # {}
    <3> DEFINE i == Min(list_index(b.layout))
    <3>1. b.layout \in Layouts
      BY DEF Inv, TypeInv
    <3>2. i \in Classes /\ Backing(b.layout) = ClassLayout(i)
      BY <2>4, <3>1, BackingServes DEF Backing
    <3>3. list_heads' = [list_heads EXCEPT ![i] = << b.addr >> \o @] /\ UNCHANGED held
      BY <1>3, <2>4 DEF Dealloc
    <3> HIDE DEF i
    <3> QED
      BY <2>1, <2>2, <3>2, <3>3, PushStep
  <2> QED
    BY <1>3, <2>3, <2>4 DEF Dealloc
<1> QED
  BY <1>1, <1>2, <1>3 DEF Next

\* FixedSizeBlockAllocator refines the abstract heap: however blocks go around
\* through its lists, alloc never returns memory that is misaligned, outside the
\* heap or in use, provided that its fallback allocator does not.
THEOREM FixedSizeBlockIsHeap ==
    ASSUME HeapOK, BlockSizesOK
    PROVE  Spec => IsHeap
<1>1. Init => AbstractHeap!Init
  BY DEF Init, AbstractHeap!Init
<1> QED
  BY <1>1, InitInv, NextStep, PTL DEF Spec, IsHeap, AbstractHeap!Spec

-----------------------------------------------------------------------------
WithCaller(h) == \E b \in live : h = Block(b.addr, Backing(b.layout))

OnList(h) ==
    \E i \in Classes : \E k \in 1 .. Len(list_heads[i]) :
        h = Block(list_heads[i][k], ClassLayout(i))

\* Every block of the fallback is with a caller or on a list.
NoneLost == \A h \in held : WithCaller(h) \/ OnList(h)

\* A block leaves a list only for a caller, and a caller only for a list or the
\* fallback.
LEMMA NoneLostStep ==
    ASSUME HeapOK, BlockSizesOK, Inv, NoneLost, [Next]_vars
    PROVE  NoneLost'
<1>1. CASE UNCHANGED vars
  BY <1>1 DEF vars, NoneLost, WithCaller, OnList
<1>2. ASSUME NEW l \in Layouts, fallback_alloc(Backing(l), l) PROVE NoneLost'
  <2>1. CASE UNCHANGED vars
    BY <1>1, <2>1
  <2>2. CASE ~ UNCHANGED vars
    <3>1. PICK a \in HeapStart .. HeapEnd :
              /\ Fallback!Alloc(Block(a, Backing(l)))
              /\ Give(a, l)
              /\ UNCHANGED list_heads
      BY <1>2, <2>2 DEF fallback_alloc
    <3>2. /\ held' = held \cup {Block(a, Backing(l))}
          /\ live' = live \cup {Block(a, l)}
          /\ list_heads' = list_heads
      BY <3>1 DEF Fallback!Alloc, Give
    <3>3. Block(a, l).addr = a /\ Block(a, l).layout = l
      BY DEF Block
    <3>4. WithCaller(Block(a, Backing(l)))'
      BY <3>2, <3>3 DEF WithCaller
    <3>5. ASSUME NEW h \in held PROVE WithCaller(h)' \/ OnList(h)'
      BY <3>2 DEF NoneLost, WithCaller, OnList
    <3> QED
      BY <3>2, <3>4, <3>5 DEF NoneLost
  <2> QED
    BY <2>1, <2>2
<1>3. ASSUME NEW l \in Layouts, NEW i \in Classes, list_heads[i] # << >>,
             Backing(l) = ClassLayout(i),
             Give(Head(list_heads[i]), l), Pop(i), UNCHANGED held
      PROVE  NoneLost'
  <2> DEFINE a == list_heads[i][1]
  <2>1. list_heads[i] \in Seq(Nat) /\ Head(list_heads[i]) = a
    BY <1>3 DEF Inv, TypeInv
  <2>2. /\ Len(list_heads'[i]) = Len(list_heads[i]) - 1 /\ Len(list_heads[i]) \in Nat
        /\ \A k \in 1 .. Len(list_heads'[i]) : list_heads'[i][k] = list_heads[i][k + 1]
        /\ \A j \in Classes \ {i} : list_heads'[j] = list_heads[j]
    BY <1>3, <2>1 DEF Inv, TypeInv, Pop
  <2>3. live' = live \cup {Block(a, l)} /\ held' = held
    BY <1>3, <2>1 DEF Give
  <2>4. Block(a, l).addr = a /\ Block(a, l).layout = l
    BY DEF Block
  <2>5. ASSUME NEW h \in held, WithCaller(h) PROVE WithCaller(h)'
    BY <2>3, <2>5 DEF WithCaller
  <2>6. ASSUME NEW h \in held, OnList(h) PROVE WithCaller(h)' \/ OnList(h)'
    <3>0. PICK j \in Classes : \E k \in 1 .. Len(list_heads[j]) :
              h = Block(list_heads[j][k], ClassLayout(j))
      BY <2>6 DEF OnList
    <3>1. PICK k \in 1 .. Len(list_heads[j]) : h = Block(list_heads[j][k], ClassLayout(j))
      BY <3>0
    <3>2. CASE j = i /\ k = 1
      BY <1>3, <2>3, <2>4, <3>1, <3>2 DEF WithCaller
    <3>3. CASE j = i /\ k # 1
      <4>1. k - 1 \in 1 .. Len(list_heads'[i]) /\ (k - 1) + 1 = k
        BY <2>2, <3>3
      <4>2. h = Block(list_heads'[i][k - 1], ClassLayout(i))
        BY <2>2, <3>1, <3>3, <4>1
      <4> QED
        BY <4>1, <4>2 DEF OnList
    <3>4. CASE j # i
      BY <2>2, <3>1, <3>4 DEF OnList
    <3> QED
      BY <3>2, <3>3, <3>4
  <2> QED
    BY <2>3, <2>5, <2>6 DEF NoneLost
<1>4. ASSUME NEW b \in live, list_index(b.layout) = {},
             live' = live \ {b}, Fallback!Dealloc(b), UNCHANGED list_heads
      PROVE  NoneLost'
  <2>1. held' = held \ {b}
    BY <1>4 DEF Fallback!Dealloc
  <2>2. Block(b.addr, Backing(b.layout)) = b
    BY <1>4 DEF Block, Backing, Inv, TypeInv
  <2>3. ASSUME NEW h \in held' PROVE WithCaller(h)' \/ OnList(h)'
    BY <1>4, <2>1, <2>2 DEF NoneLost, WithCaller, OnList
  <2> QED
    BY <2>3 DEF NoneLost
<1>5. ASSUME NEW b \in live, NEW i \in Classes, Backing(b.layout) = ClassLayout(i),
             live' = live \ {b},
             list_heads' = [list_heads EXCEPT ![i] = << b.addr >> \o @],
             UNCHANGED held
      PROVE  NoneLost'
  <2>1. list_heads[i] \in Seq(Nat) /\ b.addr \in Nat
    BY DEF Inv, TypeInv
  <2>2. /\ Len(list_heads'[i]) = Len(list_heads[i]) + 1 /\ Len(list_heads[i]) \in Nat
        /\ list_heads'[i][1] = b.addr
        /\ \A k \in 1 .. Len(list_heads[i]) : list_heads'[i][k + 1] = list_heads[i][k]
        /\ \A j \in Classes \ {i} : list_heads'[j] = list_heads[j]
    BY <1>5, <2>1 DEF Inv, TypeInv
  <2>3. ASSUME NEW h \in held, WithCaller(h) PROVE WithCaller(h)' \/ OnList(h)'
    <3>1. PICK c \in live : h = Block(c.addr, Backing(c.layout))
      BY <2>3 DEF WithCaller
    <3>2. CASE c = b
      <4>1. 1 \in 1 .. Len(list_heads'[i])
        BY <2>2
      <4>2. h = Block(list_heads'[i][1], ClassLayout(i))
        BY <1>5, <2>2, <3>1, <3>2
      <4> QED
        BY <4>1, <4>2 DEF OnList
    <3>3. CASE c # b
      BY <1>5, <3>1, <3>3 DEF WithCaller
    <3> QED
      BY <3>2, <3>3
  <2>4. ASSUME NEW h \in held, OnList(h) PROVE OnList(h)'
    <3>0. PICK j \in Classes : \E k \in 1 .. Len(list_heads[j]) :
              h = Block(list_heads[j][k], ClassLayout(j))
      BY <2>4 DEF OnList
    <3>1. PICK k \in 1 .. Len(list_heads[j]) : h = Block(list_heads[j][k], ClassLayout(j))
      BY <3>0
    <3>2. CASE j = i
      <4>1. k + 1 \in 1 .. Len(list_heads'[i])
        BY <2>2, <3>2
      <4>2. h = Block(list_heads'[i][k + 1], ClassLayout(i))
        BY <2>2, <3>1, <3>2
      <4> QED
        BY <4>1, <4>2 DEF OnList
    <3>3. CASE j # i
      BY <2>2, <3>1, <3>3 DEF OnList
    <3> QED
      BY <3>2, <3>3
  <2> QED
    BY <1>5, <2>3, <2>4 DEF NoneLost
<1>6. ASSUME NEW l \in Layouts, Alloc(l) PROVE NoneLost'
  <2>1. CASE list_index(l) = {}
    <3>1. Backing(l) = l /\ fallback_alloc(l, l)
      BY <1>6, <2>1 DEF Backing, Alloc
    <3>2. fallback_alloc(Backing(l), l)
      BY <3>1
    <3> QED
      BY <1>2, <3>2
  <2>2. CASE list_index(l) # {}
    <3> DEFINE i == Min(list_index(l))
    <3>1. i \in Classes /\ Backing(l) = ClassLayout(i)
      BY <2>2, BackingServes DEF Backing
    <3>2. \/ fallback_alloc(ClassLayout(i), l)
          \/ /\ list_heads[i] # << >>
             /\ Give(Head(list_heads[i]), l) /\ Pop(i) /\ UNCHANGED held
      BY <1>6, <2>2 DEF Alloc
    <3> HIDE DEF i
    <3>3. CASE fallback_alloc(ClassLayout(i), l)
      BY <1>2, <3>1, <3>3
    <3> QED
      BY <1>3, <3>1, <3>2, <3>3
  <2> QED
    BY <2>1, <2>2
<1>7. ASSUME NEW b \in live, Dealloc(b) PROVE NoneLost'
  <2>1. live' = live \ {b}
    BY <1>7 DEF Dealloc
  <2>2. CASE list_index(b.layout) = {}
    <3>1. Fallback!Dealloc(b) /\ UNCHANGED list_heads
      BY <1>7, <2>2 DEF Dealloc
    <3> QED
      BY <1>4, <2>1, <2>2, <3>1
  <2>3. CASE list_index(b.layout) # {}
    <3> DEFINE i == Min(list_index(b.layout))
    <3>1. b.layout \in Layouts
      BY DEF Inv, TypeInv
    <3>2. i \in Classes /\ Backing(b.layout) = ClassLayout(i)
      BY <2>3, <3>1, BackingServes DEF Backing
    <3>3. list_heads' = [list_heads EXCEPT ![i] = << b.addr >> \o @] /\ UNCHANGED held
      BY <1>7, <2>3 DEF Dealloc
    <3> HIDE DEF i
    <3> QED
      BY <1>5, <2>1, <3>2, <3>3
  <2> QED
    BY <2>2, <2>3
<1> QED
  BY <1>1, <1>6, <1>7 DEF Next

\* A block of the layout of a class is of that class and of no other.
LEMMA ClassOfBacking ==
    ASSUME HeapOK, BlockSizesOK, NEW l \in Layouts, NEW i \in Classes
    PROVE  Backing(l) = ClassLayout(i) <=> list_index(l) # {} /\ Min(list_index(l)) = i
<1>1. Classes \subseteq Nat /\ \A j \in Classes : BlockSizes[j] \in Nat \ {0}
  BY DEF BlockSizesOK, Classes
<1>2. ASSUME NEW j \in Classes, ClassLayout(j) = ClassLayout(i) PROVE j = i
  <2>1. BlockSizes[j] = BlockSizes[i]
    BY <1>2 DEF ClassLayout
  <2> QED
    BY <1>1, <2>1 DEF BlockSizesOK
<1>3. CASE list_index(l) = {}
  <2>1. SUFFICES ASSUME l = ClassLayout(i) PROVE FALSE
    BY <1>3 DEF Backing
  <2>2. l.size = BlockSizes[i] /\ l.align = BlockSizes[i]
    BY <2>1 DEF ClassLayout
  <2>3. Max({l.size, l.align}) = BlockSizes[i]
    BY <1>1, <2>2 DEF Max
  <2>4. i \in list_index(l)
    BY <1>1, <2>3 DEF list_index
  <2> QED
    BY <1>3, <2>4
<1>4. CASE list_index(l) # {}
  <2>1. Min(list_index(l)) \in Classes
    BY <1>4, BackingServes
  <2>2. Backing(l) = ClassLayout(Min(list_index(l)))
    BY <1>4 DEF Backing
  <2> QED
    BY <1>2, <1>4, <2>1, <2>2
<1> QED
  BY <1>3, <1>4

\* The invariants say of every class what BlocksPartitioned says.
LEMMA InvPartitions ==
    ASSUME HeapOK, BlockSizesOK, Inv, NoneLost
    PROVE  BlocksPartitioned
<1> SUFFICES ASSUME NEW i \in Classes
             PROVE  LET given == {h.addr : h \in {b \in held : b.layout = ClassLayout(i)}}
                        used == {b.addr : b \in {c \in live : list_index(c.layout) # {}
                                                    /\ Min(list_index(c.layout)) = i}}
                    IN  /\ IsInjective(list_heads[i])
                        /\ Range(list_heads[i]) \cap used = {}
                        /\ Range(list_heads[i]) \cup used = given
  BY DEF BlocksPartitioned
<1> DEFINE given == {h.addr : h \in {b \in held : b.layout = ClassLayout(i)}}
           used == {b.addr : b \in {c \in live : list_index(c.layout) # {}
                                       /\ Min(list_index(c.layout)) = i}}
<1>1. DOMAIN list_heads[i] = 1 .. Len(list_heads[i])
  BY DEF Inv, TypeInv
<1>2. IsInjective(list_heads[i])
  BY <1>1 DEF IsInjective, Inv, ListInv
<1>3. Range(list_heads[i]) = {list_heads[i][k] : k \in 1 .. Len(list_heads[i])}
  BY <1>1 DEF Range
<1>4. \A b \in live : list_index(b.layout) # {} /\ Min(list_index(b.layout)) = i
                        <=> Backing(b.layout) = ClassLayout(i)
  BY ClassOfBacking DEF Inv, TypeInv
<1>5. used = {b.addr : b \in {c \in live : Backing(c.layout) = ClassLayout(i)}}
  BY <1>4
<1> HIDE DEF used
<1>6. Range(list_heads[i]) \cap used = {}
  BY <1>3, <1>5 DEF Inv, ListInv
<1>7. ASSUME NEW a \in Range(list_heads[i]) PROVE a \in given
  <2>1. PICK k \in 1 .. Len(list_heads[i]) : a = list_heads[i][k]
    BY <1>3
  <2>2. Block(a, ClassLayout(i)) \in held
    BY <2>1 DEF Inv, ListInv
  <2>3. Block(a, ClassLayout(i)).addr = a /\ Block(a, ClassLayout(i)).layout = ClassLayout(i)
    BY DEF Block
  <2> QED
    BY <2>2, <2>3
<1>8. ASSUME NEW a \in used PROVE a \in given
  <2>1. PICK b \in live : a = b.addr /\ Backing(b.layout) = ClassLayout(i)
    BY <1>5
  <2>2. Block(a, ClassLayout(i)) \in held
    BY <2>1 DEF Inv, LiveInv
  <2>3. Block(a, ClassLayout(i)).addr = a /\ Block(a, ClassLayout(i)).layout = ClassLayout(i)
    BY DEF Block
  <2> QED
    BY <2>2, <2>3
<1>9. ASSUME NEW a \in given PROVE a \in Range(list_heads[i]) \cup used
  <2>1. PICK h \in held : h.layout = ClassLayout(i) /\ a = h.addr
    OBVIOUS
  <2>2. CASE WithCaller(h)
    <3>1. PICK b \in live : h = Block(b.addr, Backing(b.layout))
      BY <2>2 DEF WithCaller
    <3>2. h.addr = b.addr /\ h.layout = Backing(b.layout)
      BY <3>1 DEF Block
    <3> QED
      BY <1>5, <2>1, <3>2
  <2>3. CASE OnList(h)
    <3>1. PICK j \in Classes : \E k \in 1 .. Len(list_heads[j]) :
              h = Block(list_heads[j][k], ClassLayout(j))
      BY <2>3 DEF OnList
    <3>2. PICK k \in 1 .. Len(list_heads[j]) : h = Block(list_heads[j][k], ClassLayout(j))
      BY <3>1
    <3>3. h.addr = list_heads[j][k] /\ h.layout = ClassLayout(j)
      BY <3>2 DEF Block
    <3>4. BlockSizes[j] = BlockSizes[i]
      BY <2>1, <3>3 DEF ClassLayout
    <3>5. j = i
      <4>1. i \in Nat /\ j \in Nat /\ BlockSizes[i] \in Nat /\ BlockSizes[j] \in Nat
        BY DEF BlockSizesOK, Classes
      <4> QED
        BY <3>4, <4>1 DEF BlockSizesOK
    <3> QED
      BY <1>3, <2>1, <3>3, <3>5
  <2> QED
    BY <2>2, <2>3 DEF NoneLost
<1>10. Range(list_heads[i]) \cup used = given
  <2> HIDE DEF given
  <2> QED
    BY <1>7, <1>8, <1>9
<1> QED
  BY <1>2, <1>6, <1>10 DEF used

\* No block of a class is lost or shared: at any time each one that
\* FixedSizeBlockAllocator has from its fallback is with one caller or once on
\* the list of its class.
THEOREM FixedSizeBlocksPartitioned ==
    ASSUME HeapOK, BlockSizesOK
    PROVE  Spec => []BlocksPartitioned
<1>1. Init => NoneLost
  BY DEF Init, Fallback!Init, NoneLost
<1> QED
  BY <1>1, InitInv, NextStep, NoneLostStep, InvPartitions, PTL DEF Spec
=============================================================================
