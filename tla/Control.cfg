SPECIFICATION Spec
CONSTANTS
    Plans <- MCPlans
    Buffer = 1
    MaxQueuedPasses = 2
INVARIANTS
    AskIsServed
    AllIsReported
PROPERTIES
    ReportedWhileQuiet
    StreamIsWhole
CHECK_DEADLOCK FALSE
