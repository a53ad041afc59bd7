\* Two deliveries against the runs they start, an abort, holds and a failure.
SPECIFICATION Spec
CONSTANTS
    d1 = d1
    d2 = d2
    s1 = s1
    f1 = f1
    h1 = h1
    Deliveries = {d1, d2}
    Steers = {}
    FollowUps = {}
    Mute = {}
    Hosts = {}
    HookAppends = FALSE
    MaxTurns = 1
    MaxRuns = 0
    MaxFailures = 1
    MaxAborts = 1
INVARIANTS MarkTracksItem JoinedWasCarried
PROPERTIES ImplementsMailbox AbortStopsDelivery DeliverySettles
