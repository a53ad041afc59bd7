SPECIFICATION Spec
CONSTANTS
    Servers <- MCServers
    LastID = 3
    Taken <- MCTaken
    MaxAttempts = 2
    Retryable = {"transient"}
    BareReuse = FALSE
INVARIANTS
    NoTraceOfRetried
    CallIDIsIdentity
    BatchIsAnswer
    WithheldIsClosed
PROPERTIES
    TurnEnds
