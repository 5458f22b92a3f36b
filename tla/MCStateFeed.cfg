CONSTANTS
    Clients = {c1}
    Broadcaster = b
    Publishers = {b, p}
    NoValue = NoValue
    Nobody = Nobody
    Hold = 2
    MaxStall = 1
    Period = 1
    Capacity = 2
    Reports <- MCReports
SPECIFICATION FairSpec
INVARIANTS
    TypeOK
    ReadyIsRecent
    NewestQueued
PROPERTIES
    ClientLearns
