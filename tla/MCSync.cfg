SPECIFICATION MCSpec
CONSTANTS
    w1 = w1
    w2 = w2
    i1 = i1
    i2 = i2
    NoRow = NoRow
    None = None
    Integrators = {i1, i2}
    Workers = {w1, w2}
    Window = 2
    Overlap = 1
    Lag = 1
    Ahead = 0
    Behind = 1
    MaxClock = 3
    InitialRow <- EmptyRow
INVARIANTS
    SyncTypeOK
    NoGap
PROPERTIES
    CatchesUp
    OverwritesSeen
    RevokedForever
CHECK_DEADLOCK FALSE
