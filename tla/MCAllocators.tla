---------------------------- MODULE MCAllocators ----------------------------
(***************************************************************************)
(* Small heaps for the four allocators.                                    *)
(***************************************************************************)
EXTENDS Allocators, Integers

Layout(n, a) == [size |-> n, align |-> a]

\* 36 bytes from an odd multiple of 8.
MCBumpHeap ==
    [start |-> 8, size |-> 36, layouts |-> {Layout(5, 4), Layout(3, 2), Layout(8, 16)}]

\* Blocks are padded to 16 or 24 bytes, or aligned to 32, and the rest of a
\* region can be 0, 8 (refused) or more bytes.
MCLinkedListHeap ==
    [start |-> 64, size |-> 104, layouts |-> {Layout(1, 1), Layout(20, 4), Layout(32, 32)}]

\* Two classes and a layout of no class; two layouts share the larger class,
\* one because of its alignment.
MCFixedSizeBlockHeap ==
    [start |-> 64, size |-> 48,
     layouts |-> {Layout(3, 1), Layout(5, 16), Layout(10, 2), Layout(24, 8)}]

MCBlockSizes == << 8, 16 >>

\* Five pages: slabs of three objects, slabs of one, and large blocks of two
\* pages.
MCSlabHeap ==
    [start |-> 8192, size |-> 5 * 4096, layouts |-> {Layout(1024, 8), Layout(1536, 4), Layout(5000, 1)}]
=============================================================================
