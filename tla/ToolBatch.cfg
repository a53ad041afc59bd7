SPECIFICATION Spec
CONSTANTS
    MaxParallel = 2
    Plans <- PlansValue
INVARIANTS CallsAreAccountedFor RunAgainIsSafe
PROPERTIES RunsInTurn BatchEnds
CHECK_DEADLOCK FALSE
