CONSTANTS
    LastCluster <- MCLast
    AllocEnd <- MCAllocEnd
    SlotsPerCluster <- MCSlots
    RootCluster <- MCRoot
    InitFat <- MCFat
    InitData <- MCData
    InitDirs <- MCDirs
    InitContent <- MCContent
    Calls <- TreeCalls
    NoCall = NoCall
    NoFile = NoFile
SPECIFICATION Spec
INVARIANTS
    TypeOK
    ClusterOwnership
    DotEntries
    NothingBehindEndMark
    SessionInDirectory
    DirsAreReachable
    FileIsCurrent
PROPERTIES
    EntriesPersist
    FailedCreateKeepsTree
    CreateLosesNothing
