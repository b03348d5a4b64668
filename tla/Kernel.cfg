SPECIFICATION Spec
INVARIANTS
    NoSelfDeadlock
    NeverLost
PROPERTIES
    InterruptsServed
    FailureReported
