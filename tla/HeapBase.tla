------------------------------ MODULE HeapBase ------------------------------
(***************************************************************************)
(* What the heap allocators of src/src/allocator share: the heap's range,  *)
(* the layouts that are asked for, and blocks of memory.  Addresses and    *)
(* sizes are in bytes.                                                     *)
(***************************************************************************)
EXTENDS Integers

CONSTANTS
    HeapStart, HeapSize,   \* HEAP_START, HEAP_SIZE
    Layouts                \* core::alloc::Layout: a size and an alignment

\* A layout's alignment is a power of two; alloc is not called for size 0.
HeapOK ==
    /\ HeapStart \in Nat
    /\ HeapSize \in Nat
    /\ Layouts \subseteq [size : Nat \ {0}, align : Nat \ {0}]

HeapEnd == HeapStart + HeapSize

\* Mutant of align_up: rounds down.
align_up_Down(addr, align) == addr - (addr % align)

align_up(addr, align) ==
    IF addr % align = 0 THEN addr ELSE addr - (addr % align) + align

\* A block that alloc has returned for the layout l.
Block(a, l) == [addr |-> a, layout |-> l]

\* The n bytes from a and the m bytes from b have no byte in common.
Apart(a, n, b, m) == a + n <= b \/ b + m <= a

InHeap(a, n) == HeapStart <= a /\ a + n <= HeapEnd
=============================================================================
