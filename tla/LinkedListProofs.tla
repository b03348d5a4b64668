-------------------------- MODULE LinkedListProofs --------------------------
(***************************************************************************)
(* LinkedListAllocator implements the abstract heap and meets the          *)
(* assertions of add_free_region, for heaps of every size and every set of *)
(* layouts.                                                                *)
(***************************************************************************)
EXTENDS LinkedList, WellFoundedInduction, TLAPS

(* Numbers *)

\* align_up rounds up to a multiple of the alignment.
LEMMA AlignUp ==
    ASSUME NEW a \in Nat, NEW n \in Nat \ {0}
    PROVE  align_up(a, n) \in Nat /\ align_up(a, n) >= a /\ align_up(a, n) % n = 0
<1> DEFINE up == align_up(a, n)
<1>1. a % n \in 0 .. n - 1
  BY SMT
<1>2. a - (a % n) = n * (a \div n)
  BY SMT
<1>3. a \div n \in Nat
  BY SMT
<1>4. \A k \in Nat : (n * k) % n = 0
  BY SMT
<1>5. CASE a % n = 0
  BY <1>5 DEF align_up
<1>6. CASE a % n # 0
  <2>1. up = n * (a \div n + 1)
    BY <1>2, <1>3, <1>6, SMT DEF align_up
  <2>2. up % n = 0
    <3>1. a \div n + 1 \in Nat
      BY <1>3
    <3> QED
      BY <1>4, <2>1, <3>1
  <2>3. up = a - (a % n) + n
    BY <1>6 DEF align_up
  <2>4. up \in Nat /\ up >= a
    BY <1>1, <2>3
  <2> QED
    BY <2>2, <2>4
<1> QED
  BY <1>5, <1>6

\* A multiple of a multiple is a multiple.
LEMMA MultipleOfMultiple ==
    ASSUME NEW a \in Nat, NEW n \in Nat \ {0}, NEW k \in Nat \ {0}, a % n = 0, n % k = 0
    PROVE  a % k = 0
<1>1. a = n * (a \div n) /\ a \div n \in Nat
  BY SMT
<1>2. n = k * (n \div k) /\ n \div k \in Nat
  BY SMT
<1>3. PICK p \in Nat, q \in Nat : a = n * p /\ n = k * q
  BY <1>1, <1>2
<1>4. a = k * (q * p) /\ q * p \in Nat
  BY <1>3, SMT
<1>5. \A j \in Nat : (k * j) % k = 0
  BY SMT
<1> QED
  BY <1>4, <1>5

\* A set of numbers that has an element has a least one.
LEMMA MinIsElement ==
    ASSUME NEW S \in SUBSET Nat, S # {}
    PROVE  Min(S) \in S /\ \A y \in S : Min(S) <= y
<1> DEFINE R == OpToRel(<, Nat)
<1>1. IsWellFoundedOn(R, Nat)
  BY NatLessThanWellFounded
<1>2. PICK x \in S : \A y \in S : ~ (<< y, x >> \in R)
  <2> HIDE DEF R
  <2> QED
    BY <1>1, WFMin
<1>3. \A y \in S : << y, x >> \in R <=> y < x
  BY DEF OpToRel
<1>4. \A y \in S : x <= y
  <2> HIDE DEF R
  <2>1. \A y \in S : ~ (y < x)
    BY <1>2, <1>3, Zenon
  <2> QED
    BY <2>1
<1> QED
  BY <1>4 DEF Min

-----------------------------------------------------------------------------
\* The regions of the list L can hold nodes.
HoldNodes(L) ==
    \A i \in DOMAIN L : L[i].addr % NodeAlign = 0 /\ L[i].size >= NodeSize

\* The n bytes from a are in the heap and share none with L or the blocks B.
IsSpare(a, n, L, B) ==
    /\ InHeap(a, n)
    /\ \A i \in DOMAIN L : Apart(a, n, L[i].addr, L[i].size)
    /\ \A b \in B : Apart(a, n, b.addr, SizeOf(b.layout))

\* The regions of L and the blocks B, with their padding, share no byte.
Disjoint(L, B) ==
    /\ \A i \in DOMAIN L :
        /\ InHeap(L[i].addr, L[i].size)
        /\ \A j \in DOMAIN L : i # j => Apart(L[i].addr, L[i].size, L[j].addr, L[j].size)
        /\ \A b \in B : Apart(L[i].addr, L[i].size, b.addr, SizeOf(b.layout))
    /\ \A b \in B :
        /\ InHeap(b.addr, SizeOf(b.layout))
        /\ \A c \in B : b # c => Apart(b.addr, SizeOf(b.layout), c.addr, SizeOf(c.layout))

\* The invariant, of a list of regions and a set of blocks: FreeRegionsHoldNodes
\* and FreeIsNotLive, with the blocks aligned so that they can become regions.
IsLayout(L, B) ==
    /\ L \in Seq([addr : Nat, size : Nat])
    /\ B \subseteq [addr : Nat, layout : Layouts]
    /\ HoldNodes(L)
    /\ Disjoint(L, B)
    /\ \A b \in B : b.addr % NodeAlign = 0

Inv == IsLayout(free, live)

-----------------------------------------------------------------------------
\* size_align returns an alignment that serves the node and the layout, and a
\* size that holds both and keeps the next address aligned.
LEMMA SizeAlign ==
    ASSUME ListHeapOK, NEW l \in Layouts
    PROVE  /\ AlignOf(l) \in Nat \ {0}
           /\ AlignOf(l) % NodeAlign = 0
           /\ AlignOf(l) % l.align = 0
           /\ SizeOf(l) \in Nat
           /\ SizeOf(l) >= NodeSize
           /\ SizeOf(l) >= l.size
           /\ SizeOf(l) % NodeAlign = 0
<1>1. l.size \in Nat \ {0} /\ l.align \in Nat \ {0}
  BY DEF ListHeapOK, HeapOK
<1>2. NodeAlign % l.align = 0 \/ l.align % NodeAlign = 0
  BY DEF ListHeapOK
<1>3. /\ AlignOf(l) \in Nat \ {0}
      /\ AlignOf(l) % NodeAlign = 0
      /\ AlignOf(l) % l.align = 0
  <2>1. CASE l.align < NodeAlign
    <3>1. l.align \in 1 .. 7
      BY <1>1, <2>1 DEF NodeAlign
    <3>2. l.align % 8 = l.align
      BY <3>1
    <3>3. 8 % l.align = 0
      BY <1>2, <3>1, <3>2 DEF NodeAlign
    <3> QED
      BY <2>1, <3>3 DEF AlignOf, NodeAlign
  <2>2. CASE ~ (l.align < NodeAlign)
    <3>1. AlignOf(l) = l.align /\ l.align >= 8
      BY <1>1, <2>2 DEF AlignOf, NodeAlign
    <3>2. l.align % l.align = 0
      BY <1>1, SMT
    <3>3. l.align % 8 = 0
      <4>1. CASE l.align = 8
        BY <4>1
      <4>2. CASE l.align > 8
        <5>1. 8 % l.align = 8
          BY <1>1, <4>2, SMT
        <5> QED
          BY <1>2, <5>1 DEF NodeAlign
      <4> QED
        BY <1>1, <3>1, <4>1, <4>2
    <3> QED
      BY <1>1, <3>1, <3>2, <3>3 DEF NodeAlign
  <2> QED
    BY <2>1, <2>2
<1> DEFINE padded == align_up(l.size, AlignOf(l))
<1>4. padded \in Nat /\ padded >= l.size /\ padded % AlignOf(l) = 0
  BY <1>1, <1>3, AlignUp
<1>5. padded % NodeAlign = 0
  <2>1. NodeAlign \in Nat \ {0}
    BY DEF NodeAlign
  <2> QED
    BY <1>3, <1>4, <2>1, MultipleOfMultiple
<1>6. SizeOf(l) = IF padded < NodeSize THEN NodeSize ELSE padded
  BY DEF SizeOf
<1> HIDE DEF padded
<1>7. /\ SizeOf(l) \in Nat
      /\ SizeOf(l) >= NodeSize
      /\ SizeOf(l) >= l.size
      /\ SizeOf(l) % NodeAlign = 0
  BY <1>1, <1>4, <1>5, <1>6 DEF NodeSize, NodeAlign
<1> QED
  BY <1>3, <1>7

\* Where the elements of a concatenation come from.
LEMMA Concatenated ==
    ASSUME NEW S, NEW p \in Seq(S), NEW q \in Seq(S)
    PROVE  /\ p \o q \in Seq(S)
           /\ Len(p \o q) = Len(p) + Len(q)
           /\ \A k \in 1 .. Len(p) : (p \o q)[k] = p[k]
           /\ \A k \in 1 .. Len(q) : (p \o q)[Len(p) + k] = q[k]
<1>1. p \o q \in Seq(S)
  OBVIOUS
<1>2. Len(p) \in Nat /\ Len(q) \in Nat
  OBVIOUS
<1>3. Len(p \o q) = Len(p) + Len(q)
  OBVIOUS
<1>4. \A k \in 1 .. Len(p) : (p \o q)[k] = p[k]
  BY <1>2
<1>5. \A k \in 1 .. Len(q) : (p \o q)[Len(p) + k] = q[k]
  BY <1>2
<1> QED
  BY <1>1, <1>3, <1>4, <1>5

\* A list without its i-th element has the others, each once.
Without(L, i) == SubSeq(L, 1, i - 1) \o SubSeq(L, i + 1, Len(L))

Before(k, i) == IF k < i THEN k ELSE k + 1

LEMMA Removed ==
    ASSUME NEW S, NEW L \in Seq(S), NEW i \in DOMAIN L
    PROVE  /\ Without(L, i) \in Seq(S)
           /\ \A k \in DOMAIN Without(L, i) :
                /\ Before(k, i) \in DOMAIN L
                /\ Before(k, i) # i
                /\ Without(L, i)[k] = L[Before(k, i)]
<1>1. i \in 1 .. Len(L) /\ Len(L) \in Nat /\ DOMAIN L = 1 .. Len(L)
  OBVIOUS
<1> DEFINE p == SubSeq(L, 1, i - 1)
           q == SubSeq(L, i + 1, Len(L))
<1>2. p \in Seq(S) /\ Len(p) = i - 1 /\ \A k \in 1 .. i - 1 : p[k] = L[k]
  BY <1>1
<1>3. q \in Seq(S) /\ Len(q) = Len(L) - i /\ \A k \in 1 .. Len(L) - i : q[k] = L[k + i]
  BY <1>1
<1> HIDE DEF p, q
<1> DEFINE o == p \o q
<1>4. /\ o \in Seq(S)
      /\ Len(o) = Len(p) + Len(q)
      /\ \A k \in 1 .. Len(p) : o[k] = p[k]
      /\ \A k \in 1 .. Len(q) : o[Len(p) + k] = q[k]
  <2>1. p \in Seq(S) /\ q \in Seq(S)
    BY <1>2, <1>3, Zenon
  <2> QED
    BY <2>1, Concatenated, SMT
<1> HIDE DEF o
<1>5. DOMAIN o = 1 .. Len(L) - 1
  BY <1>1, <1>2, <1>3, <1>4
<1>6. ASSUME NEW k \in 1 .. Len(L) - 1, k < i
      PROVE  o[k] = L[k]
  <2>1. k \in 1 .. Len(p) /\ k \in 1 .. i - 1
    BY <1>1, <1>2, <1>6
  <2> QED
    BY <1>2, <1>4, <2>1, Zenon
<1>7. ASSUME NEW k \in 1 .. Len(L) - 1, ~ (k < i)
      PROVE  o[k] = L[k + 1]
  <2> DEFINE j == k - (i - 1)
  <2>1. j \in 1 .. Len(L) - i /\ j + i = k + 1 /\ Len(p) + j = k
    BY <1>1, <1>2, <1>7, SMTT(30)
  <2> HIDE DEF j
  <2>2. o[Len(p) + j] = q[j] /\ q[j] = L[j + i]
    BY <1>3, <1>4, <2>1
  <2> QED
    BY <2>1, <2>2
<1>8. \A k \in DOMAIN o :
        Before(k, i) \in DOMAIN L /\ Before(k, i) # i /\ o[k] = L[Before(k, i)]
  BY <1>1, <1>5, <1>6, <1>7 DEF Before
<1> QED
  BY <1>4, <1>8 DEF o, p, q, Without

\* An element of a sequence is one of its range.
LEMMA ElementType ==
    ASSUME NEW S, NEW L \in Seq(S), NEW i \in DOMAIN L
    PROVE  L[i] \in S
  OBVIOUS

\* The addresses and sizes of regions are numbers.
LEMMA RegionType ==
    ASSUME NEW L \in Seq([addr : Nat, size : Nat]), NEW i \in DOMAIN L
    PROVE  L[i].addr \in Nat /\ L[i].size \in Nat
<1>1. L[i] \in [addr : Nat, size : Nat]
  BY ElementType, Zenon
<1> QED
  BY <1>1

\* A free region can leave the list: its bytes are spare then.
LEMMA TakeRegion ==
    ASSUME NEW L, NEW B, IsLayout(L, B), NEW i \in DOMAIN L
    PROVE  IsLayout(Without(L, i), B) /\ IsSpare(L[i].addr, L[i].size, Without(L, i), B)
<1> DEFINE o == Without(L, i)
           m(k) == Before(k, i)
<1>1. L \in Seq([addr : Nat, size : Nat])
  BY DEF IsLayout
<1>2. o \in Seq([addr : Nat, size : Nat])
  BY <1>1, Removed
<1>3. \A k \in DOMAIN o : m(k) \in DOMAIN L /\ m(k) # i /\ o[k] = L[m(k)]
  BY <1>1, Removed
<1>4. \A j, k \in DOMAIN o : j # k => m(j) # m(k)
  <2>1. DOMAIN o \subseteq Int /\ i \in Int
    BY <1>1, <1>2
  <2> QED
    BY <2>1 DEF Before
<1> HIDE DEF o, m
<1>5. HoldNodes(o)
  BY <1>3 DEF IsLayout, HoldNodes
<1>6. Disjoint(o, B)
  BY <1>3, <1>4, Zenon DEF IsLayout, Disjoint
<1>7. IsSpare(L[i].addr, L[i].size, o, B)
  BY <1>3, Zenon DEF IsLayout, Disjoint, IsSpare
<1> QED
  BY <1>2, <1>5, <1>6, <1>7 DEF IsLayout, o

\* add_free_region: spare bytes that can hold a node become a region.
LEMMA AddRegion ==
    ASSUME ListHeapOK, NEW L, NEW B, IsLayout(L, B),
           NEW a \in Nat, NEW n \in Nat, IsSpare(a, n, L, B),
           a % NodeAlign = 0, n >= NodeSize
    PROVE  IsLayout(add_free_region(L, a, n), B)
<1> DEFINE K == add_free_region(L, a, n)
           r == Region(a, n)
<1>1. L \in Seq([addr : Nat, size : Nat]) /\ r \in [addr : Nat, size : Nat]
      /\ r.addr = a /\ r.size = n
  BY DEF IsLayout, Region
<1> HIDE DEF r
<1>2. /\ K \in Seq([addr : Nat, size : Nat])
      /\ K[1] = r
      /\ \A k \in DOMAIN K : k # 1 => k - 1 \in DOMAIN L /\ K[k] = L[k - 1]
  BY <1>1 DEF add_free_region, r
<1>3. \A i \in DOMAIN L : L[i].addr \in Nat /\ L[i].size \in Nat
  BY <1>1, RegionType
<1>4. \A b \in B : b.addr \in Nat /\ SizeOf(b.layout) \in Nat
  BY SizeAlign DEF IsLayout
<1>5. \A j, k \in DOMAIN K : j # k => j - 1 # k - 1
  BY <1>2
<1> HIDE DEF K
<1>6. HoldNodes(K)
  BY <1>1, <1>2 DEF IsLayout, HoldNodes
<1>7. Disjoint(K, B)
  <2>1. ASSUME NEW i \in DOMAIN K
        PROVE  /\ InHeap(K[i].addr, K[i].size)
               /\ \A b \in B : Apart(K[i].addr, K[i].size, b.addr, SizeOf(b.layout))
    BY <1>1, <1>2, <2>1 DEF IsLayout, Disjoint, IsSpare
  <2>2. ASSUME NEW i \in DOMAIN K, NEW j \in DOMAIN K, i # j
        PROVE  Apart(K[i].addr, K[i].size, K[j].addr, K[j].size)
    <3>1. CASE i = 1
      <4>1. j - 1 \in DOMAIN L /\ K[j] = L[j - 1]
        BY <1>2, <2>2, <3>1
      <4> QED
        BY <1>1, <1>2, <3>1, <4>1 DEF IsSpare
    <3>2. CASE j = 1
      <4>1. i - 1 \in DOMAIN L /\ K[i] = L[i - 1]
        BY <1>2, <2>2, <3>2
      <4>2. Apart(a, n, K[i].addr, K[i].size)
        BY <4>1 DEF IsSpare
      <4> QED
        BY <1>1, <1>2, <3>2, <4>2 DEF Apart
    <3>3. CASE i # 1 /\ j # 1
      <4>1. i - 1 \in DOMAIN L /\ K[i] = L[i - 1] /\ j - 1 \in DOMAIN L /\ K[j] = L[j - 1]
        BY <1>2, <3>3
      <4> QED
        BY <1>5, <2>2, <4>1 DEF IsLayout, Disjoint
    <3> QED
      BY <3>1, <3>2, <3>3
  <2> QED
    BY <2>1, <2>2 DEF IsLayout, Disjoint
<1> QED
  BY <1>2, <1>6, <1>7 DEF IsLayout, K

\* Spare bytes can become a block.
LEMMA AddBlock ==
    ASSUME ListHeapOK, NEW L, NEW B, IsLayout(L, B),
           NEW b \in [addr : Nat, layout : Layouts],
           IsSpare(b.addr, SizeOf(b.layout), L, B), b.addr % NodeAlign = 0
    PROVE  IsLayout(L, B \cup {b})
<1>1. \A i \in DOMAIN L : L[i].addr \in Nat /\ L[i].size \in Nat
  BY RegionType DEF IsLayout
<1>2. \A c \in B \cup {b} : c.addr \in Nat /\ SizeOf(c.layout) \in Nat
  BY SizeAlign DEF IsLayout
<1>3. \A i \in DOMAIN L : Apart(L[i].addr, L[i].size, b.addr, SizeOf(b.layout))
  BY <1>1, <1>2 DEF IsSpare, Apart
<1>4. \A c \in B : Apart(c.addr, SizeOf(c.layout), b.addr, SizeOf(b.layout))
  BY <1>2 DEF IsSpare, Apart
<1>5. Disjoint(L, B \cup {b})
  BY <1>3, <1>4, Zenon DEF IsLayout, Disjoint, IsSpare
<1> QED
  BY <1>5 DEF IsLayout

\* A block that is given back leaves its bytes spare.
LEMMA TakeBlock ==
    ASSUME ListHeapOK, NEW L, NEW B, IsLayout(L, B), NEW b \in B
    PROVE  IsLayout(L, B \ {b}) /\ IsSpare(b.addr, SizeOf(b.layout), L, B \ {b})
<1>1. \A i \in DOMAIN L : L[i].addr \in Nat /\ L[i].size \in Nat
  BY RegionType DEF IsLayout
<1>2. b.addr \in Nat /\ SizeOf(b.layout) \in Nat
  BY SizeAlign DEF IsLayout
<1>3. \A i \in DOMAIN L : Apart(b.addr, SizeOf(b.layout), L[i].addr, L[i].size)
  BY <1>1, <1>2 DEF IsLayout, Disjoint, Apart
<1>4. IsSpare(b.addr, SizeOf(b.layout), L, B \ {b})
  BY <1>3, Zenon DEF IsLayout, Disjoint, IsSpare
<1>5. IsLayout(L, B \ {b})
  BY Zenon DEF IsLayout, Disjoint
<1> QED
  BY <1>4, <1>5

\* Spare bytes are spare in part.
LEMMA SparePart ==
    ASSUME ListHeapOK, NEW L, NEW B, IsLayout(L, B),
           NEW a \in Nat, NEW n \in Nat, IsSpare(a, n, L, B),
           NEW c \in Nat, NEW m \in Nat, a <= c, c + m <= a + n
    PROVE  IsSpare(c, m, L, B)
<1>1. \A i \in DOMAIN L : L[i].addr \in Nat /\ L[i].size \in Nat
  BY RegionType DEF IsLayout
<1>2. \A b \in B : b.addr \in Nat /\ SizeOf(b.layout) \in Nat
  BY SizeAlign DEF IsLayout
<1>3. HeapStart \in Nat /\ HeapEnd \in Nat
  BY DEF ListHeapOK, HeapOK, HeapEnd
<1> QED
  BY <1>1, <1>2, <1>3 DEF IsSpare, InHeap, Apart

-----------------------------------------------------------------------------
\* The invariant is what the two properties say of free and live, and more.
LEMMA InvProperties ==
    ASSUME Inv
    PROVE  FreeRegionsHoldNodes /\ FreeIsNotLive
  BY DEF Inv, IsLayout, HoldNodes, Disjoint, FreeRegionsHoldNodes, FreeIsNotLive

\* init establishes the invariant: the heap is the first region.
LEMMA InitInv ==
    ASSUME ListHeapOK, Init
    PROVE  Inv
<1>1. IsLayout(<< >>, {})
  BY DEF IsLayout, HoldNodes, Disjoint
<1>2. HeapStart \in Nat /\ HeapSize \in Nat
  BY DEF ListHeapOK, HeapOK
<1>3. IsSpare(HeapStart, HeapSize, << >>, {})
  BY <1>2 DEF IsSpare, InHeap, HeapEnd
<1>4. HeapStart % NodeAlign = 0 /\ HeapSize >= NodeSize
  BY DEF ListHeapOK
<1> QED
  BY <1>1, <1>2, <1>3, <1>4, AddRegion DEF Init, Inv

\* A region that can hold a block for l: the block is aligned and inside it,
\* and what is left behind it is empty or a region.
LEMMA BlockInRegion ==
    ASSUME ListHeapOK, NEW l \in Layouts, NEW r \in [addr : Nat, size : Nat], CanHold(r, l)
    PROVE  LET a == align_up(r.addr, AlignOf(l))
               rest == Rest(r, l)
           IN  /\ a \in Nat /\ a % NodeAlign = 0 /\ a % l.align = 0
               /\ r.addr <= a /\ a + SizeOf(l) <= r.addr + r.size
               /\ rest.addr = a + SizeOf(l) /\ rest.addr % NodeAlign = 0
               /\ rest.size \in Nat /\ rest.addr + rest.size = r.addr + r.size
               /\ rest.size > 0 => rest.size >= NodeSize
<1> DEFINE a == align_up(r.addr, AlignOf(l))
           rest == Rest(r, l)
<1>1. l.align \in Nat \ {0} /\ NodeAlign \in Nat \ {0}
  BY DEF ListHeapOK, HeapOK, NodeAlign
<1>2. /\ AlignOf(l) \in Nat \ {0} /\ AlignOf(l) % NodeAlign = 0 /\ AlignOf(l) % l.align = 0
      /\ SizeOf(l) \in Nat /\ SizeOf(l) % NodeAlign = 0
  BY SizeAlign
<1>3. r.addr \in Nat /\ r.size \in Nat
  OBVIOUS
<1>4. a \in Nat /\ a >= r.addr /\ a % AlignOf(l) = 0
  BY <1>2, <1>3, AlignUp
<1>5. a % NodeAlign = 0 /\ a % l.align = 0
  BY <1>1, <1>2, <1>4, MultipleOfMultiple
<1>6. rest.addr = a + SizeOf(l) /\ rest.size = r.addr + r.size - (a + SizeOf(l))
  BY <1>2, <1>3, <1>4 DEF Rest, Region, end_addr
<1>7. \/ r.addr + r.size - (a + SizeOf(l)) = 0
      \/ r.addr + r.size - (a + SizeOf(l)) >= NodeSize
  BY <1>2, <1>3, <1>4 DEF CanHold, end_addr
<1> HIDE DEF a, rest
<1>8. (a + SizeOf(l)) % NodeAlign = 0
  BY <1>2, <1>4, <1>5 DEF NodeAlign
<1>9. /\ a + SizeOf(l) <= r.addr + r.size
      /\ rest.size \in Nat /\ rest.addr + rest.size = r.addr + r.size
      /\ rest.size > 0 => rest.size >= NodeSize
  BY <1>2, <1>3, <1>4, <1>6, <1>7 DEF NodeSize
<1> QED
  BY <1>4, <1>5, <1>6, <1>8, <1>9 DEF a, rest

\* A step of alloc keeps the invariant, and is a step of the abstract heap.
LEMMA AllocStep ==
    ASSUME ListHeapOK, Inv, NEW l \in Layouts, Alloc(l)
    PROVE  Inv' /\ [AbstractHeap!Next]_live
<1>1. CASE UNCHANGED vars
  BY <1>1 DEF vars, Inv
<1>2. CASE ~ UNCHANGED vars
  <2> DEFINE fitting == {j \in DOMAIN free : CanHold(free[j], l)}
             i == Min(fitting)
             r == free[i]
             o == Without(free, i)
             rest == Rest(r, l)
             b == Block(align_up(r.addr, AlignOf(l)), l)
  <2>1. /\ fitting # {}
        /\ free' = IF rest.size > 0 THEN add_free_region(o, rest.addr, rest.size) ELSE o
        /\ live' = live \cup {b}
    BY <1>2 DEF Alloc, Without
  <2>2. free \in Seq([addr : Nat, size : Nat])
    BY DEF Inv, IsLayout
  <2>3. i \in DOMAIN free /\ CanHold(r, l)
    <3>1. fitting \in SUBSET Nat
      BY <2>2
    <3>2. i \in fitting
      BY <2>1, <3>1, MinIsElement
    <3> QED
      BY <3>2
  <2> HIDE DEF i
  <2>4. r \in [addr : Nat, size : Nat]
    BY <2>2, <2>3, ElementType, Zenon
  <2>5. IsLayout(o, live) /\ IsSpare(r.addr, r.size, o, live)
    BY <2>3, TakeRegion DEF Inv
  <2> HIDE DEF r, o
  <2>6. b.addr = align_up(r.addr, AlignOf(l)) /\ b.layout = l
    BY DEF Block
  <2>7. /\ b.addr \in Nat /\ b.addr % NodeAlign = 0 /\ b.addr % l.align = 0
        /\ r.addr <= b.addr /\ b.addr + SizeOf(l) <= r.addr + r.size
        /\ rest.addr = b.addr + SizeOf(l) /\ rest.addr % NodeAlign = 0
        /\ rest.size \in Nat /\ rest.addr + rest.size = r.addr + r.size
        /\ rest.size > 0 => rest.size >= NodeSize
    BY <2>3, <2>4, <2>6, BlockInRegion
  <2>8. b \in [addr : Nat, layout : Layouts]
    BY <2>6, <2>7 DEF Block
  <2> HIDE DEF b, rest
  <2>9. /\ SizeOf(l) \in Nat /\ SizeOf(l) >= l.size /\ l.size \in Nat
        /\ r.addr \in Nat /\ r.size \in Nat /\ rest.addr \in Nat
    BY <2>4, <2>7, SizeAlign DEF ListHeapOK, HeapOK
  <2>10. IsSpare(b.addr, SizeOf(b.layout), o, live)
    BY <2>5, <2>6, <2>7, <2>9, SparePart
  <2>11. IsLayout(o, live')
    BY <2>1, <2>5, <2>7, <2>8, <2>10, AddBlock
  <2>12. IsSpare(rest.addr, rest.size, o, live')
    <3>1. IsSpare(rest.addr, rest.size, o, live)
      <4>1. r.addr <= rest.addr /\ rest.addr + rest.size <= r.addr + r.size
        BY <2>7, <2>9
      <4> QED
        BY <4>1, <2>5, <2>7, <2>9, SparePart
    <3>2. Apart(rest.addr, rest.size, b.addr, SizeOf(b.layout))
      BY <2>6, <2>7, <2>9 DEF Apart
    <3> QED
      BY <2>1, <3>1, <3>2 DEF IsSpare
  <2>13. Inv'
    <3>1. CASE rest.size > 0
      <4>1. IsLayout(add_free_region(o, rest.addr, rest.size), live')
        BY <3>1, <2>7, <2>9, <2>11, <2>12, AddRegion
      <4> QED
        BY <4>1, <2>1, <3>1 DEF Inv
    <3>2. CASE ~ (rest.size > 0)
      BY <2>1, <2>11, <3>2 DEF Inv
    <3> QED
      BY <3>1, <3>2
  <2>14. AbstractHeap!Alloc(b)
    <3>1. InHeap(b.addr, b.layout.size)
      <4>1. HeapEnd \in Nat
        BY DEF ListHeapOK, HeapOK, HeapEnd
      <4> QED
        BY <4>1, <2>6, <2>7, <2>9, <2>10 DEF IsSpare, InHeap
    <3>2. \A c \in live : Apart(b.addr, b.layout.size, c.addr, c.layout.size)
      <4>1. \A c \in live : /\ c.addr \in Nat /\ SizeOf(c.layout) \in Nat
                             /\ c.layout.size \in Nat /\ SizeOf(c.layout) >= c.layout.size
        BY SizeAlign DEF Inv, IsLayout, ListHeapOK, HeapOK
      <4> QED
        BY <4>1, <2>6, <2>7, <2>9, <2>10 DEF IsSpare, Apart
    <3> QED
      BY <2>1, <2>6, <2>7, <3>1, <3>2 DEF AbstractHeap!Alloc, AbstractHeap!InHeap,
          AbstractHeap!Apart, AbstractHeap!HeapEnd, InHeap, Apart, HeapEnd
  <2> QED
    BY <2>1, <2>13, <2>14 DEF AbstractHeap!Next
<1> QED
  BY <1>1, <1>2

\* So does and is a step of dealloc.
LEMMA DeallocStep ==
    ASSUME ListHeapOK, Inv, NEW b \in live, Dealloc(b)
    PROVE  Inv' /\ [AbstractHeap!Next]_live
<1>1. b.addr \in Nat /\ b.layout \in Layouts /\ b.addr % NodeAlign = 0
  BY DEF Inv, IsLayout
<1>2. SizeOf(b.layout) \in Nat /\ SizeOf(b.layout) >= NodeSize
  BY <1>1, SizeAlign
<1>3. /\ IsLayout(free, live \ {b})
      /\ IsSpare(b.addr, SizeOf(b.layout), free, live \ {b})
  BY TakeBlock DEF Inv
<1>4. IsLayout(add_free_region(free, b.addr, SizeOf(b.layout)), live \ {b})
  BY <1>1, <1>2, <1>3, AddRegion
<1>5. Inv'
  BY <1>4 DEF Dealloc, Inv
<1>6. AbstractHeap!Dealloc(b)
  BY DEF Dealloc, AbstractHeap!Dealloc
<1> QED
  BY <1>5, <1>6 DEF AbstractHeap!Next

\* Every step keeps the invariant and is a step of the abstract heap or none.
LEMMA NextStep ==
    ASSUME ListHeapOK, Inv, [Next]_vars
    PROVE  Inv' /\ [AbstractHeap!Next]_live
<1>1. CASE UNCHANGED vars
  BY <1>1 DEF vars, Inv
<1>2. CASE Next
  BY <1>2, AllocStep, DeallocStep DEF Next
<1> QED
  BY <1>1, <1>2

\* The assertions of add_free_region hold in every heap and for all layouts.
THEOREM RegionsHoldNodes ==
    ASSUME ListHeapOK
    PROVE  Spec => []FreeRegionsHoldNodes
<1>1. Inv => FreeRegionsHoldNodes
  BY InvProperties
<1> QED
  BY <1>1, InitInv, NextStep, PTL DEF Spec

\* LinkedListAllocator writes its nodes only into memory that is free, and has
\* no byte on its list twice.
THEOREM FreeStaysApart ==
    ASSUME ListHeapOK
    PROVE  Spec => []FreeIsNotLive
<1>1. Inv => FreeIsNotLive
  BY InvProperties
<1> QED
  BY <1>1, InitInv, NextStep, PTL DEF Spec

\* LinkedListAllocator refines the abstract heap: however its regions are split
\* and reused, alloc never returns memory that is outside the heap, misaligned
\* or in use.
THEOREM LinkedListIsHeap ==
    ASSUME ListHeapOK
    PROVE  Spec => IsHeap
<1>1. Init => AbstractHeap!Init
  BY DEF Init, AbstractHeap!Init
<1> QED
  BY <1>1, InitInv, NextStep, PTL DEF Spec, IsHeap, AbstractHeap!Spec
=============================================================================
