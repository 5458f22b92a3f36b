CONSTANTS
    Requests = {r1}
    History = 2
    Ttl = 0
    Limit = 2
    MaxPoseDt = 1
    OdomDelay = 0
    MaxStall = 1
    Path = 2
    AgeCap = 8
    NoSnapshot = NoSnapshot
    Modes = {"dev", "flight"}
    Attempts = 2
    LookTimeout = 2
    PlannerWait = 1
    OdomMaxAge = 0
    Nothing = Nothing
SPECIFICATION Spec
INVARIANTS
    TypeOK
    GoalAnchored
    HoldRecent
    LastAttemptFinds
    PictureInTime
    UnreadServedFresh
