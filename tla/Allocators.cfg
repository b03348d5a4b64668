CONSTANTS
    BumpHeap <- MCBumpHeap
    LinkedListHeap <- MCLinkedListHeap
    FixedSizeBlockHeap <- MCFixedSizeBlockHeap
    BlockSizes <- MCBlockSizes
    SlabHeap <- MCSlabHeap
    MaxLive = 4
SPECIFICATION Spec
INVARIANTS
    CountsBlocks
    FreeRegionsHoldNodes
    FreeIsNotLive
    BlocksPartitioned
    FreeChain
    SlabsOnLists
    MetadataIsNotLive
PROPERTIES
    IsHeap
    LossIsAlignment
    GrowsOnlyWhenFull
