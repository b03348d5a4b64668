CONSTANTS
    SlotCount <- MCSlotCount
    SlotChoices <- MCSlotChoices
SPECIFICATION Spec
INVARIANT ScanIsListing
CHECK_DEADLOCK FALSE
