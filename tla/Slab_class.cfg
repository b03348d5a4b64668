CONSTANTS
    MaxLive = 4
    HeapStart <- MCStart
    HeapSize <- MCSize
    Layouts <- MCSameClass
SPECIFICATION Spec
INVARIANT CacheServesSize
