CONSTANTS
    Clients = {c1, c2}
    Tokens = {t1, t2, t3}
    Handlers = {h1, h2}
    NoClient = NoClient
    MaxPaired = 1
    NonceTTL = 1
    AccessTTL = 1
    RefreshTTL = 3
    StaleTTL = 2
    MaxTime = 4
SPECIFICATION Spec
INVARIANT PairedLimit
