\* A delivery, a steer that no model answers and a follow-up, over two turns.
SPECIFICATION Spec
CONSTANTS
    d1 = d1
    d2 = d2
    s1 = s1
    f1 = f1
    h1 = h1
    Deliveries = {d1}
    Steers = {s1}
    FollowUps = {f1}
    Mute = {s1}
    Hosts = {}
    HookAppends = FALSE
    MaxTurns = 2
    MaxRuns = 1
    MaxFailures = 0
    MaxAborts = 0
INVARIANTS QueueIsKept
PROPERTIES NothingForgotten
