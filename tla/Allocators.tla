----------------------------- MODULE Allocators -----------------------------
(***************************************************************************)
(* The global allocator (ALLOCATOR in src/src/allocator.rs): the kernel is *)
(* built with one of the four allocators of src/src/allocator, the slab    *)
(* allocator unless a comment is moved.  Each has a heap and layouts of    *)
(* its own here, in which its own boundaries are met.                      *)
(***************************************************************************)
CONSTANTS
    BumpHeap, LinkedListHeap, FixedSizeBlockHeap, SlabHeap,   \* [start, size, layouts]
    BlockSizes,                                               \* of FixedSizeBlock
    MaxLive                                                   \* of Slab

VARIABLES
    chosen,                                              \* the allocator that is built in
    bump_next, allocations, bump_live,
    free, list_live,
    list_heads, held, block_live,
    slab_next, node_caches, slabs, panicked, slab_live

Bump == INSTANCE Bump WITH next <- bump_next, live <- bump_live,
    HeapStart <- BumpHeap.start, HeapSize <- BumpHeap.size, Layouts <- BumpHeap.layouts

LinkedList == INSTANCE LinkedList WITH live <- list_live,
    HeapStart <- LinkedListHeap.start, HeapSize <- LinkedListHeap.size,
    Layouts <- LinkedListHeap.layouts

FixedSizeBlock == INSTANCE FixedSizeBlock WITH live <- block_live,
    HeapStart <- FixedSizeBlockHeap.start, HeapSize <- FixedSizeBlockHeap.size,
    Layouts <- FixedSizeBlockHeap.layouts

Slab == INSTANCE Slab WITH next <- slab_next, live <- slab_live,
    HeapStart <- SlabHeap.start, HeapSize <- SlabHeap.size, Layouts <- SlabHeap.layouts

ASSUME HeapsAssumption ==
    /\ Bump!HeapOK /\ LinkedList!ListHeapOK /\ FixedSizeBlock!HeapOK /\ Slab!HeapOK
    /\ FixedSizeBlock!BlockSizesOK

bump_vars == << bump_next, allocations, bump_live >>
list_vars == << free, list_live >>
block_vars == << list_heads, held, block_live >>
slab_vars == << slab_next, node_caches, slabs, panicked, slab_live >>

vars == << chosen, bump_vars, list_vars, block_vars, slab_vars >>

Init ==
    /\ chosen \in {"Bump", "LinkedList", "FixedSizeBlock", "Slab"}
    /\ Bump!Init
    /\ LinkedList!Init
    /\ FixedSizeBlock!Init
    /\ Slab!Init

Next ==
    /\ UNCHANGED chosen
    /\ \/ /\ chosen = "Bump"
          /\ Bump!Next
          /\ UNCHANGED << list_vars, block_vars, slab_vars >>
       \/ /\ chosen = "LinkedList"
          /\ LinkedList!Next
          /\ UNCHANGED << bump_vars, block_vars, slab_vars >>
       \/ /\ chosen = "FixedSizeBlock"
          /\ FixedSizeBlock!Next
          /\ UNCHANGED << bump_vars, list_vars, slab_vars >>
       \/ /\ chosen = "Slab"
          /\ Slab!Next
          /\ UNCHANGED << bump_vars, list_vars, block_vars >>

Spec == Init /\ [][Next]_vars

-----------------------------------------------------------------------------
\* Whichever is built in is a heap: it never returns memory that is outside
\* the heap, misaligned, or in use.
IsHeap == Bump!IsHeap /\ LinkedList!IsHeap /\ FixedSizeBlock!IsHeap /\ Slab!IsHeap

\* BumpAllocator counts its blocks and starts again exactly when it has none.
CountsBlocks == Bump!CountsBlocks

\* LinkedListAllocator meets the assertions of its add_free_region.
FreeRegionsHoldNodes == LinkedList!FreeRegionsHoldNodes

\* LinkedListAllocator writes no node into memory that is in use or free twice.
FreeIsNotLive == LinkedList!FreeIsNotLive

\* LinkedListAllocator loses bytes only to an alignment above a node's.
LossIsAlignment == LinkedList!LossIsAlignment

\* FixedSizeBlockAllocator has each block of a class in one place.
BlocksPartitioned == FixedSizeBlock!BlocksPartitioned

\* SlabAllocator chains exactly the objects of a slab that no caller has.
FreeChain == Slab!FreeChain

\* SlabAllocator has each slab on the list where alloc and dealloc need it.
SlabsOnLists == Slab!SlabsOnLists

\* SlabAllocator gives callers no byte of its caches, headers and tables.
MetadataIsNotLive == Slab!MetadataIsNotLive

\* SlabAllocator takes a page for a cache only when its slabs are full.
GrowsOnlyWhenFull == Slab!GrowsOnlyWhenFull
=============================================================================
