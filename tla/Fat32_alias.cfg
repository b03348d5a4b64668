CONSTANTS
    LastCluster <- MCLast
    AllocEnd <- MCAllocEnd
    SlotsPerCluster <- MCSlots
    RootCluster <- MCRoot
    InitFat <- MCFat
    InitData <- MCData
    InitDirs <- MCDirs
    InitContent <- MCContent
    Calls <- AliasCalls
    NoCall = NoCall
    NoFile = NoFile
SPECIFICATION Spec
INVARIANT SizeSynced
