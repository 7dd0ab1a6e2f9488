SPECIFICATION MCSpec
CONSTANTS
    w1 = w1
    w2 = w2
    i1 = i1
    i2 = i2
    NoRow = NoRow
    None = None
    Integrators = {}
    Workers = {w1, w2}
    Window = 3
    Overlap = 2
    Lag = 1
    Ahead = 1
    Behind = 1
    MaxClock = 1
    InitialRow <- MCNoRow
PROPERTY
    OverwritesSeen
CHECK_DEADLOCK FALSE
