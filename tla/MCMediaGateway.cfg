CONSTANTS
    d1 = d1
    d2 = d2
    Candidates <- MCCandidates
    Holdable = {d1}
    OnDemand = FALSE
    OfflinePolls = 2
    BackoffPolls = 2
    NoDevice = NoDevice
    Ids = {s1}
    Handlers = {h1}
    Timeout = 3
    Sweep = 1
    MaxStall = 1
    MaxRound = 1
    NoSession = NoSession
    Free = Free
    New = New
SPECIFICATION FairSpec
INVARIANTS
    TypeOK
    SessionsLive
PROPERTIES
    OldSessionsEnd
    HealthyIsKept
    FollowsSelection
    PublisherReturns
