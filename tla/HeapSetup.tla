----------------------------- MODULE HeapSetup ------------------------------
(***************************************************************************)
(* init_heap (src/src/allocator.rs) with the frames of                     *)
(* BootInfoFrameAllocator (src/src/memory.rs): every page of the heap is   *)
(* mapped to a frame of its own before the allocator may use it.  Physical *)
(* memory is counted in frames.                                            *)
(***************************************************************************)
EXTENDS Integers, Sequences, FiniteSetsExt

CONSTANTS
    PageSize,           \* bytes of a page and of a frame
    HeapStart, HeapSize,
    Entries,            \* entries of a page table
    MemoryMaps          \* memory maps that the bootloader may pass

\* A memory map is a sequence of regions that do not overlap; a region is the
\* frames start .. end - 1.
ASSUME MemoryMapAssumption ==
    /\ PageSize \in Nat \ {0} /\ HeapStart \in Nat /\ HeapSize \in Nat \ {0} /\ Entries \in Nat \ {0}
    /\ \A map \in MemoryMaps : \A i \in DOMAIN map :
           /\ map[i].start \in Nat /\ map[i].end \in Nat
           /\ \A j \in DOMAIN map :
                  i # j => map[i].end <= map[j].start \/ map[j].end <= map[i].start

VARIABLES
    memory_map, next,   \* BootInfoFrameAllocator
    page,               \* the page the loop is at
    frame,              \* the frame for it, once it has been allocated
    tables,             \* page tables below level 4, with the frame of each
    mapped,             \* the pages that are mapped, with the frame of each
    status              \* "frame", "map", and at the end "ready" or "failed"

vars == << memory_map, next, page, frame, tables, mapped, status >>

NoFrame == -1

\* Mutant of FramesOf: the last frame of a region is left out.
FramesOf_Short(r) == r.start .. r.end - 2

\* The frames of a region, (r.start_addr()..r.end_addr()).step_by(4096).
FramesOf(r) == r.start .. r.end - 1

\* The frames of the usable regions, each with the number of its region, ...
usable_frame ==
    UNION {{i} \X FramesOf(memory_map[i]) : i \in {j \in DOMAIN memory_map : memory_map[j].type = "Usable"}}

\* ... which come region by region and in a region from its start.
Before(q, p) == q[1] < p[1] \/ (q[1] = p[1] /\ q[2] < p[2])

FramesBefore(p) == Cardinality({q \in usable_frame : Before(q, p)})

\* usable_frame().nth(n): the frame with n frames before it, if there is one.
Nth(n) == {p \in usable_frame : FramesBefore(p) = n}

\* The frame that allocate_frame returns, or NoFrame.
NextFrame == IF Nth(next) = {} THEN NoFrame ELSE (CHOOSE p \in Nth(next) : TRUE)[2]

\* Mutant of Advance: the first frame is returned again and again.
Advance_Not == next' = next

\* What else allocate_frame does, also when there is no frame.
Advance == next' = next + 1

\* The pages of page_range.
FirstPage == HeapStart \div PageSize

\* Mutant of LastPage: the range does not include its end.
LastPage_Exclusive == (HeapStart + HeapSize - 1) \div PageSize - 1

LastPage == (HeapStart + HeapSize - 1) \div PageSize

\* The tables of the levels 3, 2 and 1 on the way to the page p.
TablesFor(p) == << << 3, p \div (Entries * Entries * Entries) >>,
                   << 2, p \div (Entries * Entries) >>, << 1, p \div Entries >> >>

\* The levels of those that are not there yet, counted from the top.
Missing(p) == {k \in 1 .. 3 : TablesFor(p)[k] \notin DOMAIN tables}

Extend(f, x, v) == [y \in DOMAIN f \cup {x} |-> IF y = x THEN v ELSE f[y]]

Init ==
    /\ memory_map \in MemoryMaps
    /\ next = 0
    /\ page = FirstPage
    /\ frame = NoFrame
    /\ tables = << >>
    /\ mapped = << >>
    /\ status = "frame"

\* frame_allocator.allocate_frame().ok_or(...)? for the page.
AllocateFrame ==
    /\ status = "frame"
    /\ page <= LastPage
    /\ Advance
    /\ frame' = NextFrame
    /\ status' = IF NextFrame = NoFrame THEN "failed" ELSE "map"
    /\ UNCHANGED << memory_map, page, tables, mapped >>

\* mapper.map_to makes the tables that the page needs from the same allocator.
CreateTable ==
    /\ status = "map"
    /\ Missing(page) # {}
    /\ Advance
    /\ \/ /\ NextFrame = NoFrame
          /\ status' = "failed"
          /\ UNCHANGED tables
       \/ /\ NextFrame # NoFrame
          /\ tables' = Extend(tables, TablesFor(page)[Min(Missing(page))], NextFrame)
          /\ UNCHANGED status
    /\ UNCHANGED << memory_map, page, frame, mapped >>

\* The rest of map_to, flush, and the loop goes on.
MapPage ==
    /\ status = "map"
    /\ Missing(page) = {}
    /\ mapped' = Extend(mapped, page, frame)
    /\ page' = page + 1
    /\ frame' = NoFrame
    /\ status' = "frame"
    /\ UNCHANGED << memory_map, next, tables >>

\* ALLOCATOR.lock().init(HEAP_START, HEAP_SIZE)
InitAllocator ==
    /\ status = "frame"
    /\ page > LastPage
    /\ status' = "ready"
    /\ UNCHANGED << memory_map, next, page, frame, tables, mapped >>

Next == AllocateFrame \/ CreateTable \/ MapPage \/ InitAllocator

\* The boot code runs on: interrupts come between its steps, and return.
Spec == Init /\ [][Next]_vars /\ WF_vars(Next)

-----------------------------------------------------------------------------
\* No frame serves two purposes, as two pages, as two tables, or as a page and
\* a table, and all are usable memory: allocate_frame is called by the loop
\* and by map_to in turn.
FramesUsedOnce ==
    /\ IsInjective(mapped)
    /\ IsInjective(tables)
    /\ Range(mapped) \cap Range(tables) = {}
    /\ frame \notin Range(mapped) \cup Range(tables)
    /\ \A f \in Range(mapped) \cup Range(tables) :
           \E i \in DOMAIN memory_map :
               memory_map[i].type = "Usable" /\ f \in memory_map[i].start .. memory_map[i].end - 1

\* When the allocator is told of the heap, each of its bytes is on a mapped
\* page and each page can be reached through its tables.
HeapIsMapped ==
    status = "ready" =>
        \A a \in HeapStart .. HeapStart + HeapSize - 1 :
            /\ a \div PageSize \in DOMAIN mapped
            /\ Range(TablesFor(a \div PageSize)) \subseteq DOMAIN tables

\* The frames init_heap needs: its pages and the tables on the way to them.
Needed ==
    Cardinality(FirstPage .. LastPage)
        + Cardinality(UNION {Range(TablesFor(p)) : p \in FirstPage .. LastPage})

\* init_heap ends, and it fails only when memory is really too small: every
\* usable frame counts.
EndsRight ==
    LET usable == UNION {memory_map[i].start .. memory_map[i].end - 1 :
                             i \in {j \in DOMAIN memory_map : memory_map[j].type = "Usable"}}
    IN  <>(IF Cardinality(usable) >= Needed THEN status = "ready" ELSE status = "failed")
=============================================================================
