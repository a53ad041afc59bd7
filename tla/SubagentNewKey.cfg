\* A call handed over under another key between two crashes.
SPECIFICATION Spec
CONSTANTS
    Calls = {1, 2}
    Never = {1}
    Keys = {1, 2}
    Inputs = {1}
    Budgets <- KeyBetweenCrashes
INVARIANTS AnswerIsTheCalls
CHECK_DEADLOCK FALSE
