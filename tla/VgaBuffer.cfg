CONSTANTS
    BUFFER_HEIGHT = 3
    BUFFER_WIDTH = 2
    Printable = {"a"}
    Other = {"tab"}
    MaxText = 7
    MaxCall = 3
SPECIFICATION Spec
INVARIANT ShowsText
CHECK_DEADLOCK FALSE
