CONSTANTS
    LastCluster <- MCLast
    AllocEnd <- MCAllocEnd
    SlotsPerCluster <- MCSlots
    RootCluster <- MCRoot
    InitFat <- MCFat
    InitData <- MCData
    InitDirs <- MCDirs
    InitContent <- MCContent
    Calls <- FileParentCalls
    NoCall = NoCall
    NoFile = NoFile
SPECIFICATION Spec
PROPERTY CreateAddsEntry
