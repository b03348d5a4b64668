CONSTANTS
    PageSize = 4
    HeapStart = 12
    HeapSize = 20
    Entries = 2
    MemoryMaps <- MCMemoryMaps
SPECIFICATION Spec
INVARIANTS
    FramesUsedOnce
    HeapIsMapped
PROPERTY EndsRight
CHECK_DEADLOCK FALSE
