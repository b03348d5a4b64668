CONSTANTS
    Images <- MCImages
    U32 <- MCU32
    AllocEnd = 8
    Entries <- MCEntries
    Contents <- MCContents
    MaxWrites = 2
SPECIFICATION Spec
INVARIANTS
    ReadsAgree
    NoPanic
PROPERTY IsVolume
CHECK_DEADLOCK FALSE
