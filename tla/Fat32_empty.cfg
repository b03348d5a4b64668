CONSTANTS
    LastCluster <- MCLast
    AllocEnd <- MCAllocEnd
    SlotsPerCluster <- MCSlots
    RootCluster <- MCRoot
    InitFat <- MCFat
    InitData <- EmptyData
    InitDirs <- MCDirs
    InitContent <- MCContent
    Calls <- EmptyCalls
    NoCall = NoCall
    NoFile = NoFile
SPECIFICATION FairSpec
INVARIANT PanicOnlyOnEmptyFile
PROPERTY CallsEnd
