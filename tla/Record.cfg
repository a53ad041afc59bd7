SPECIFICATION Spec
CONSTANTS
    Calls = {1, 2}
    Replay <- NeverThenKeyed
    Budgets <- Faults
INVARIANTS
    LiveIsSeeded
    PendingIsSound
    RepeatsAreSafe
    RecordIsTrue
CHECK_DEADLOCK FALSE
