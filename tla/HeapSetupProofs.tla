-------------------------- MODULE HeapSetupProofs ---------------------------
(***************************************************************************)
(* init_heap gives no frame out twice and maps the whole heap, for every   *)
(* memory map, page size and heap.                                         *)
(***************************************************************************)
EXTENDS HeapSetup, TLAPS

(* Numbers *)

\* Quotients grow with the dividend.
LEMMA QuotientGrows ==
    ASSUME NEW n \in Nat \ {0}, NEW a \in Nat, NEW b \in Nat, a <= b
    PROVE  a \div n <= b \div n
<1> DEFINE x == a \div n
           y == b \div n
<1>1. x \in Nat /\ y \in Nat /\ n * x <= a /\ b < n * y + n
  BY SMT
<1> HIDE DEF x, y
<1>2. SUFFICES ASSUME y < x PROVE FALSE
  BY <1>1 DEF x, y
<1>3. PICK d \in Nat : x = y + 1 + d
  <2>1. x - y - 1 \in Nat /\ x = y + 1 + (x - y - 1)
    BY <1>1, <1>2
  <2> QED
    BY <2>1
<1>4. n * x = n * y + n + n * d /\ n * d >= 0
  BY <1>1, <1>3, SMT
<1> QED
  BY <1>1, <1>4, SMT

-----------------------------------------------------------------------------
\* f is one of the frames that allocate_frame has returned in its n calls.
Returned(f, n) ==
    \E p \in usable_frame, k \in 0 .. n - 1 : p[2] = f /\ FramesBefore(p) = k

\* The invariant that the proofs need: FramesUsedOnce, for frames that
\* allocate_frame has returned; and the pages before the loop's are mapped.
Inv ==
    /\ memory_map \in MemoryMaps
    /\ next \in Nat
    /\ page \in Nat /\ FirstPage <= page
    /\ status \in {"frame", "map", "ready", "failed"}
    /\ frame = NoFrame \/ Returned(frame, next)
    /\ status = "map" => frame # NoFrame
    /\ \A f \in Range(mapped) \cup Range(tables) : Returned(f, next)
    /\ FramesUsedOnce
    /\ DOMAIN mapped = FirstPage .. page - 1
    /\ \A p \in FirstPage .. page - 1, k \in 1 .. 3 : TablesFor(p)[k] \in DOMAIN tables
    /\ status = "ready" => page > LastPage

-----------------------------------------------------------------------------
\* What usable_frame yields: frames of usable regions.
LEMMA UsableFrames ==
    ASSUME NEW p \in usable_frame
    PROVE  /\ p[1] \in DOMAIN memory_map
           /\ memory_map[p[1]].type = "Usable"
           /\ p[2] \in memory_map[p[1]].start .. memory_map[p[1]].end - 1
           /\ p = << p[1], p[2] >>
<1>1. PICK i \in DOMAIN memory_map : /\ memory_map[i].type = "Usable"
                                     /\ p \in {i} \X FramesOf(memory_map[i])
  BY DEF usable_frame
<1> QED
  BY <1>1 DEF FramesOf

\* A frame is in one region only.
LEMMA OneRegion ==
    ASSUME memory_map \in MemoryMaps,
           NEW p \in usable_frame, NEW q \in usable_frame, p[2] = q[2]
    PROVE  p = q
<1> DEFINE i == p[1]
           j == q[1]
<1>1. /\ i \in DOMAIN memory_map /\ p = << i, p[2] >>
      /\ p[2] \in memory_map[i].start .. memory_map[i].end - 1
  BY UsableFrames
<1>2. /\ j \in DOMAIN memory_map /\ q = << j, q[2] >>
      /\ q[2] \in memory_map[j].start .. memory_map[j].end - 1
  BY UsableFrames
<1>3. /\ memory_map[i].start \in Nat /\ memory_map[i].end \in Nat
      /\ memory_map[j].start \in Nat /\ memory_map[j].end \in Nat
      /\ i # j => \/ memory_map[i].end <= memory_map[j].start
                  \/ memory_map[j].end <= memory_map[i].start
  BY <1>1, <1>2, MemoryMapAssumption
<1> HIDE DEF i, j
<1>4. i = j
  BY <1>1, <1>2, <1>3
<1> QED
  BY <1>1, <1>2, <1>4

\* allocate_frame returns a usable frame that no earlier call has returned.
LEMMA NextIsNew ==
    ASSUME Inv, NextFrame # NoFrame
    PROVE  /\ Returned(NextFrame, next + 1)
           /\ ~ Returned(NextFrame, next)
           /\ \E i \in DOMAIN memory_map :
                 /\ memory_map[i].type = "Usable"
                 /\ NextFrame \in memory_map[i].start .. memory_map[i].end - 1
<1>1. PICK p \in usable_frame : FramesBefore(p) = next /\ NextFrame = p[2]
  BY DEF NextFrame, Nth
<1>2. next \in 0 .. next + 1 - 1
  BY DEF Inv
<1>3. Returned(NextFrame, next + 1)
  BY <1>1, <1>2 DEF Returned
<1>4. ~ Returned(NextFrame, next)
  <2> SUFFICES ASSUME NEW q \in usable_frame, NEW k \in 0 .. next - 1, q[2] = p[2], FramesBefore(q) = k
               PROVE  FALSE
    BY <1>1 DEF Returned
  <2>1. q = p
    BY OneRegion DEF Inv
  <2>2. next = k
    BY <1>1, <2>1
  <2> QED
    BY <2>2 DEF Inv
<1> QED
  BY <1>1, <1>3, <1>4, UsableFrames

\* What has been returned stays so.
LEMMA StaysReturned ==
    ASSUME NEW f, NEW n \in Nat, Returned(f, n)
    PROVE  Returned(f, n + 1)
<1>1. 0 .. n - 1 \subseteq 0 .. n + 1 - 1
  OBVIOUS
<1> QED
  BY <1>1 DEF Returned

\* No frame has a negative number.
LEMMA NotReturned ==
    ASSUME memory_map \in MemoryMaps, NEW n
    PROVE  ~ Returned(NoFrame, n)
<1> SUFFICES ASSUME NEW p \in usable_frame, p[2] = NoFrame PROVE FALSE
  BY DEF Returned
<1>1. p[1] \in DOMAIN memory_map /\ p[2] \in memory_map[p[1]].start .. memory_map[p[1]].end - 1
  BY UsableFrames
<1>2. memory_map[p[1]].start \in Nat
  BY <1>1, MemoryMapAssumption
<1> QED
  BY <1>1, <1>2 DEF NoFrame

\* A map with a new key and a new value is injective if it was.
LEMMA Extended ==
    ASSUME NEW f, NEW x, NEW v, IsInjective(f), x \notin DOMAIN f, v \notin Range(f)
    PROVE  /\ DOMAIN Extend(f, x, v) = DOMAIN f \cup {x}
           /\ Range(Extend(f, x, v)) = Range(f) \cup {v}
           /\ IsInjective(Extend(f, x, v))
<1> DEFINE g == Extend(f, x, v)
<1>1. DOMAIN g = DOMAIN f \cup {x} /\ g[x] = v /\ \A y \in DOMAIN f : g[y] = f[y]
  BY DEF Extend
<1> HIDE DEF g
<1>2. Range(g) = Range(f) \cup {v}
  BY <1>1 DEF Range
<1>3. IsInjective(g)
  BY <1>1 DEF Range, IsInjective
<1> QED
  BY <1>1, <1>2, <1>3 DEF g

\* The first missing table is one that is missing.
LEMMA FirstMissing ==
    ASSUME Missing(page) # {}
    PROVE  Min(Missing(page)) \in 1 .. 3 /\ TablesFor(page)[Min(Missing(page))] \notin DOMAIN tables
<1> DEFINE S == Missing(page)
<1>1. S \subseteq 1 .. 3 /\ S # {}
  BY DEF Missing
<1> HIDE DEF S
<1>2. \E x \in S : \A y \in S : x <= y
  <2>1. \A y \in S : y = 1 \/ y = 2 \/ y = 3
    BY <1>1
  <2>2. CASE 1 \in S
    BY <2>1, <2>2
  <2>3. CASE 1 \notin S /\ 2 \in S
    BY <2>1, <2>3
  <2>4. CASE 1 \notin S /\ 2 \notin S
    <3>1. 3 \in S
      BY <1>1, <2>1, <2>4
    <3> QED
      BY <2>1, <2>4, <3>1
  <2> QED
    BY <2>2, <2>3, <2>4
<1>3. Min(S) \in S
  BY <1>2 DEF Min
<1> QED
  BY <1>3 DEF S, Missing

\* The invariant holds at the start.
LEMMA InitInv ==
    ASSUME Init
    PROVE  Inv
<1>1. mapped = << >> /\ tables = << >> /\ frame = NoFrame /\ page = FirstPage
  BY DEF Init
<1>2. DOMAIN mapped = {} /\ Range(mapped) = {} /\ Range(tables) = {}
      /\ IsInjective(mapped) /\ IsInjective(tables)
  BY <1>1 DEF Range, IsInjective
<1>3. FramesUsedOnce
  BY <1>2 DEF FramesUsedOnce
<1>4. page \in Nat /\ FirstPage <= page /\ FirstPage .. page - 1 = {}
  <2>1. HeapStart \div PageSize \in Nat
    BY MemoryMapAssumption
  <2> QED
    BY <1>1, <2>1 DEF FirstPage
<1> QED
  BY <1>1, <1>2, <1>3, <1>4 DEF Init, Inv

\* What does not depend on where the boot code is.
LEMMA SameMap ==
    ASSUME UNCHANGED memory_map
    PROVE  /\ usable_frame' = usable_frame
           /\ \A f, n : Returned(f, n)' <=> Returned(f, n)
<1>1. usable_frame' = usable_frame
  BY DEF usable_frame
<1>2. \A p : FramesBefore(p)' = FramesBefore(p)
  BY <1>1 DEF FramesBefore
<1> QED
  BY <1>1, <1>2 DEF Returned

\* A step of the loop that takes a frame keeps the invariant.
LEMMA AllocateFrameInv ==
    ASSUME Inv, AllocateFrame
    PROVE  Inv'
<1>1. UNCHANGED << memory_map, page, tables, mapped >> /\ next' = next + 1 /\ frame' = NextFrame
  BY DEF AllocateFrame, Advance
<1>2. \A f, n : Returned(f, n)' <=> Returned(f, n)
  BY <1>1, SameMap
<1>3. \A f \in Range(mapped) \cup Range(tables) : Returned(f, next) /\ Returned(f, next + 1)
  BY StaysReturned DEF Inv
<1>4. frame' = NoFrame \/ Returned(frame', next + 1)
  BY <1>1, NextIsNew
<1>5. frame' \notin Range(mapped) \cup Range(tables)
  <2>1. CASE NextFrame = NoFrame
    BY <1>1, <1>3, <2>1, NotReturned DEF Inv
  <2>2. CASE NextFrame # NoFrame
    BY <1>1, <1>3, <2>2, NextIsNew
  <2> QED
    BY <2>1, <2>2
<1>6. FramesUsedOnce'
  BY <1>1, <1>5 DEF Inv, FramesUsedOnce
<1>7. status' \in {"failed", "map"} /\ (status' = "map" => frame' # NoFrame)
  BY <1>1 DEF AllocateFrame
<1>8. \A f \in (Range(mapped) \cup Range(tables))' : Returned(f, next)'
  BY <1>1, <1>2, <1>3
<1>9. (frame = NoFrame \/ Returned(frame, next))'
  BY <1>1, <1>2, <1>4
<1>10. (\A p \in FirstPage .. page - 1, k \in 1 .. 3 : TablesFor(p)[k] \in DOMAIN tables)'
  BY <1>1 DEF Inv, TablesFor
<1> QED
  BY <1>1, <1>6, <1>7, <1>8, <1>9, <1>10 DEF Inv

\* So does one that makes a table.
LEMMA CreateTableInv ==
    ASSUME Inv, CreateTable
    PROVE  Inv'
<1>1. UNCHANGED << memory_map, page, frame, mapped >> /\ next' = next + 1
  BY DEF CreateTable, Advance
<1>2. \A f, n : Returned(f, n)' <=> Returned(f, n)
  BY <1>1, SameMap
<1>3. \A f \in Range(mapped) \cup Range(tables) : Returned(f, next) /\ Returned(f, next + 1)
  BY StaysReturned DEF Inv
<1>4. (frame = NoFrame \/ Returned(frame, next))'
  BY <1>1, <1>2, StaysReturned DEF Inv
<1>5. CASE NextFrame = NoFrame
  <2>1. UNCHANGED tables /\ status' = "failed"
    BY <1>5 DEF CreateTable
  <2>2. FramesUsedOnce'
    BY <1>1, <2>1 DEF Inv, FramesUsedOnce
  <2>3. \A f \in (Range(mapped) \cup Range(tables))' : Returned(f, next)'
    BY <1>1, <1>2, <1>3, <2>1
  <2>4. (\A p \in FirstPage .. page - 1, k \in 1 .. 3 : TablesFor(p)[k] \in DOMAIN tables)'
    BY <1>1, <2>1 DEF Inv, TablesFor
  <2> QED
    BY <1>1, <1>4, <2>1, <2>2, <2>3, <2>4 DEF Inv
<1>6. CASE NextFrame # NoFrame
  <2> DEFINE x == TablesFor(page)[Min(Missing(page))]
  <2>1. tables' = Extend(tables, x, NextFrame) /\ status' = status /\ status = "map"
    BY <1>6 DEF CreateTable
  <2>2. x \notin DOMAIN tables
    BY FirstMissing DEF CreateTable
  <2> HIDE DEF x
  <2>3. ~ Returned(NextFrame, next) /\ Returned(NextFrame, next + 1)
    BY <1>6, NextIsNew
  <2>4. NextFrame \notin Range(mapped) \cup Range(tables) /\ frame # NextFrame
    BY <1>3, <1>6, <2>3 DEF Inv
  <2>5. /\ IsInjective(mapped') /\ IsInjective(tables')
        /\ Range(mapped') \cap Range(tables') = {}
        /\ Range(mapped') \cup Range(tables') = Range(mapped) \cup Range(tables) \cup {NextFrame}
    <3>1. /\ IsInjective(mapped) /\ IsInjective(tables)
          /\ Range(mapped) \cap Range(tables) = {} /\ NextFrame \notin Range(tables)
      BY <2>4 DEF Inv, FramesUsedOnce
    <3>2. Range(tables') = Range(tables) \cup {NextFrame} /\ IsInjective(tables')
      <4> DEFINE t == Extend(tables, x, NextFrame)
      <4>1. /\ DOMAIN t = DOMAIN tables \cup {x}
            /\ Range(t) = Range(tables) \cup {NextFrame} /\ IsInjective(t)
        BY <2>2, <3>1, Extended
      <4> HIDE DEF t
      <4>2. tables' = t
        BY <2>1 DEF t
      <4> QED
        BY <4>1, <4>2 DEF Range, IsInjective
    <3> QED
      BY <1>1, <2>4, <3>1, <3>2
  <2>6. FramesUsedOnce'
    <3>1. frame' \notin Range(mapped') \cup Range(tables')
      BY <1>1, <2>4, <2>5 DEF Inv, FramesUsedOnce
    <3>2. \A f \in Range(mapped') \cup Range(tables') :
             \E i \in DOMAIN memory_map :
                /\ memory_map[i].type = "Usable"
                /\ f \in memory_map[i].start .. memory_map[i].end - 1
      BY <1>6, <2>5, NextIsNew DEF Inv, FramesUsedOnce
    <3> QED
      BY <1>1, <2>5, <3>1, <3>2 DEF FramesUsedOnce
  <2>7. \A f \in (Range(mapped) \cup Range(tables))' : Returned(f, next)'
    BY <1>1, <1>2, <1>3, <2>3, <2>5
  <2>8. DOMAIN tables \subseteq DOMAIN tables'
    BY <2>1 DEF Extend
  <2>9. (\A p \in FirstPage .. page - 1, k \in 1 .. 3 : TablesFor(p)[k] \in DOMAIN tables)'
    BY <1>1, <2>8 DEF Inv, TablesFor
  <2> QED
    BY <1>1, <1>4, <2>1, <2>6, <2>7, <2>9 DEF Inv
<1> QED
  BY <1>5, <1>6

\* So does one that maps the page: its frame serves nothing else.
LEMMA MapPageInv ==
    ASSUME Inv, MapPage
    PROVE  Inv'
<1>1. /\ UNCHANGED << memory_map, next, tables >> /\ mapped' = Extend(mapped, page, frame)
      /\ page' = page + 1 /\ frame' = NoFrame /\ status' = "frame" /\ status = "map"
  BY DEF MapPage
<1>2. \A f, n : Returned(f, n)' <=> Returned(f, n)
  BY <1>1, SameMap
<1>3. FirstPage \in Nat /\ page \in Nat /\ page \notin DOMAIN mapped
  <2>1. HeapStart \div PageSize \in Nat
    BY MemoryMapAssumption
  <2> QED
    BY <2>1 DEF Inv, FirstPage
<1>4. Returned(frame, next)
  BY <1>1 DEF Inv
<1>5. /\ IsInjective(mapped) /\ IsInjective(tables) /\ Range(mapped) \cap Range(tables) = {}
      /\ frame \notin Range(mapped) /\ frame \notin Range(tables)
  BY DEF Inv, FramesUsedOnce
<1>6. /\ DOMAIN mapped' = DOMAIN mapped \cup {page}
      /\ Range(mapped') = Range(mapped) \cup {frame} /\ IsInjective(mapped')
  <2> DEFINE m == Extend(mapped, page, frame)
  <2>1. /\ DOMAIN m = DOMAIN mapped \cup {page}
        /\ Range(m) = Range(mapped) \cup {frame} /\ IsInjective(m)
    BY <1>3, <1>5, Extended
  <2> HIDE DEF m
  <2>2. mapped' = m
    BY <1>1 DEF m
  <2> QED
    BY <2>1, <2>2 DEF Range, IsInjective
<1>7. FramesUsedOnce'
  <2>1. frame' \notin Range(mapped') \cup Range(tables')
    BY <1>1, <1>4, <1>6, NotReturned DEF Inv
  <2>2. \E i \in DOMAIN memory_map :
           memory_map[i].type = "Usable" /\ frame \in memory_map[i].start .. memory_map[i].end - 1
    BY <1>4, UsableFrames DEF Returned
  <2>3. \A f \in Range(mapped') \cup Range(tables') :
           \E i \in DOMAIN memory_map :
              /\ memory_map[i].type = "Usable"
              /\ f \in memory_map[i].start .. memory_map[i].end - 1
    BY <1>1, <1>6, <2>2 DEF Inv, FramesUsedOnce
  <2> QED
    BY <1>1, <1>5, <1>6, <2>1, <2>3 DEF FramesUsedOnce
<1>8. \A f \in (Range(mapped) \cup Range(tables))' : Returned(f, next)'
  BY <1>1, <1>2, <1>4, <1>6 DEF Inv
<1>9. (DOMAIN mapped = FirstPage .. page - 1)'
  <2>1. FirstPage .. page = (FirstPage .. page - 1) \cup {page}
    <3>1. FirstPage <= page
      BY DEF Inv
    <3> QED
      BY <1>3, <3>1
  <2> QED
    BY <1>1, <1>3, <1>6, <2>1 DEF Inv
<1>10. (\A p \in FirstPage .. page - 1, k \in 1 .. 3 : TablesFor(p)[k] \in DOMAIN tables)'
  <2>1. \A k \in 1 .. 3 : TablesFor(page)[k] \in DOMAIN tables
    BY DEF MapPage, Missing
  <2>2. \A p \in FirstPage .. page : p \in FirstPage .. page - 1 \/ p = page
    BY <1>3
  <2> QED
    BY <1>1, <1>3, <2>1, <2>2 DEF Inv, TablesFor
<1> QED
  BY <1>1, <1>3, <1>7, <1>8, <1>9, <1>10 DEF Inv

\* Every step keeps the invariant.
LEMMA NextInv ==
    ASSUME Inv, [Next]_vars
    PROVE  Inv'
<1>1. CASE UNCHANGED vars
  <2>1. \A f, n : Returned(f, n)' <=> Returned(f, n)
    BY <1>1, SameMap DEF vars
  <2> QED
    BY <1>1, <2>1 DEF vars, Inv, FramesUsedOnce, TablesFor
<1>2. CASE InitAllocator
  <2>1. \A f, n : Returned(f, n)' <=> Returned(f, n)
    BY <1>2, SameMap DEF InitAllocator
  <2> QED
    BY <1>2, <2>1 DEF InitAllocator, Inv, FramesUsedOnce, TablesFor
<1> QED
  BY <1>1, <1>2, AllocateFrameInv, CreateTableInv, MapPageInv DEF Next

\* The invariant gives HeapIsMapped: the pages of the heap's addresses are those
\* of the loop.
LEMMA InvMapped ==
    ASSUME Inv
    PROVE  HeapIsMapped
<1> SUFFICES ASSUME status = "ready", NEW a \in HeapStart .. HeapStart + HeapSize - 1
             PROVE  /\ a \div PageSize \in DOMAIN mapped
                    /\ Range(TablesFor(a \div PageSize)) \subseteq DOMAIN tables
  BY DEF HeapIsMapped
<1>1. /\ PageSize \in Nat \ {0} /\ HeapStart \in Nat /\ HeapStart + HeapSize - 1 \in Nat
      /\ a \in Nat /\ HeapStart <= a /\ a <= HeapStart + HeapSize - 1
  BY MemoryMapAssumption
<1>2. FirstPage <= a \div PageSize /\ a \div PageSize <= LastPage
  BY <1>1, QuotientGrows DEF FirstPage, LastPage
<1>3. FirstPage \in Nat /\ a \div PageSize \in Nat /\ LastPage \in Nat
  BY <1>1 DEF FirstPage, LastPage
<1> DEFINE p == a \div PageSize
<1>4. p \in FirstPage .. page - 1
  BY <1>2, <1>3 DEF Inv
<1> HIDE DEF p
<1>5. \A k \in 1 .. 3 : TablesFor(p)[k] \in DOMAIN tables
  BY <1>4 DEF Inv
<1>6. Range(TablesFor(p)) = {TablesFor(p)[1], TablesFor(p)[2], TablesFor(p)[3]}
  BY DEF Range, TablesFor
<1>7. Range(TablesFor(p)) \subseteq DOMAIN tables
  BY <1>5, <1>6
<1> QED
  BY <1>4, <1>7 DEF Inv, p

\* BootInfoFrameAllocator gives out no frame twice, to a page of the heap or to
\* a page table, and only usable ones, for every memory map.
THEOREM FramesServeOnce == Spec => []FramesUsedOnce
<1>1. Inv => FramesUsedOnce
  BY DEF Inv
<1> QED
  BY <1>1, InitInv, NextInv, PTL DEF Spec

\* When init_heap tells the allocator of the heap, every byte of it is mapped,
\* wherever the heap begins and ends in its pages.
THEOREM HeapGetsMapped == Spec => []HeapIsMapped
  BY InitInv, NextInv, InvMapped, PTL DEF Spec
=============================================================================
