\* Messages and cancels of two tasks.
SPECIFICATION Spec
CONSTANTS
    Tasks = {1, 2}
    Messages = {1, 2, 3}
    Cancels = {1, 2}
    Calls = {1, 2}
    Own = {2}
    MaxSteers = 1
    Budgets <- Faults
INVARIANTS OpenCallsAreAskedFor CanceledDoesNotRun SteerIsServed
PROPERTIES ConversationFrees
CHECK_DEADLOCK FALSE
