CONSTANTS
    Clients = {c1, c2}
    Tokens = {t1, t2, t3}
    Handlers = {h1, h2}
    NoClient = NoClient
    MaxPaired = 1
    NonceTTL = 1
    AccessTTL = 1
    RefreshTTL = 4
    StaleTTL = 2
    MaxTime = 5
SYMMETRY Symmetry
SPECIFICATION Spec
INVARIANTS
    TypeOK
    TokensOfPaired
    SessionEndIsFinal
PROPERTIES
    SessionsKept
    ImplementsCredentials
