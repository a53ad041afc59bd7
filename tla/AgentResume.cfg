\* Calls left pending, and every way to answer them, with a failing subscriber.
SPECIFICATION Spec
CONSTANTS
    d1 = d1
    d2 = d2
    s1 = s1
    f1 = f1
    h1 = h1
    Deliveries = {}
    Steers = {}
    FollowUps = {}
    Mute = {}
    Hosts = {h1}
    HookAppends = TRUE
    MaxTurns = 1
    MaxRuns = 3
    MaxFailures = 1
    MaxAborts = 0
INVARIANTS ConversationIsWhole
