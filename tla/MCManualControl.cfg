\* Two pilots, two requests in flight, two leases.
CONSTANTS
    Clients = {c1, c2}
    Handlers = {h1, h2}
    LeaseIds = {l1, l2}
    NoClient = NoClient
    NoLease = NoLease
    TTL = 4
    InputTimeout = 1
    MaxStall = 1
    Configs <- MCConfigs
SPECIFICATION FairSpec
INVARIANTS
    TypeOK
    LeaseConsistent
    LeaseRunsOut
    DeadmanNeutral
PROPERTIES
    ImplementsLease
    NeutralBeforeTimeout
    LeaseFreed
