\* A call that is handed over up to three times.
SPECIFICATION Spec
CONSTANTS
    Calls = {1, 2}
    Never = {1}
    Keys = {1, 2}
    Inputs = {1}
    Budgets <- Faults
INVARIANTS NothingTwice AnswerIsTheCalls HeldRunsIfAccepted WriterIsLetGo
CHECK_DEADLOCK FALSE
