CONSTANTS
    LastCluster <- MCLast
    AllocEnd <- MCAllocEnd
    SlotsPerCluster <- MCSlots
    RootCluster <- MCRoot
    InitFat <- MCFat
    InitData <- MCData
    InitDirs <- MCDirs
    InitContent <- MCContent
    Calls <- WriteCalls
    NoCall = NoCall
    NoFile = NoFile
SPECIFICATION Spec
INVARIANTS
    ParsesDirectories
    SizeSynced
    ReadBack
