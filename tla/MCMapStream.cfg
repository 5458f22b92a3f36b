CONSTANTS
    Tiles = {0, 1}
    Poses = {0, 2}
    VisibleRadius = 0
    VisibleLimit = 1
    RetentionRadius = 1
    RetentionLimit = 2
    HistoryLimit = 1
    DenseInterval = 1
    MaxSequence = 3
    MaxMoves = 1
    SnapshotBurst = 2
    DeltaBurst = 1
    Chunks = 2
    NoTile = NoTile
SPECIFICATION FairSpec
INVARIANTS
    TypeOK
    SequencesAgree
    CursorHonest
    ShownIsAccounted
PROPERTIES
    ViewerConverges
    SpinsOnHiddenOnly
