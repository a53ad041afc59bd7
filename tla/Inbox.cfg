SPECIFICATION Spec
CONSTANTS
    Inputs = {1, 2, 3}
    Content <- TwoAlike
    Delivery = {2, 3}
    Budgets <- Faults
INVARIANTS
    AcceptedIsKept
    InboxIsExact
CHECK_DEADLOCK FALSE
