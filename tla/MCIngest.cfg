SPECIFICATION MCFairIngest
CONSTANTS
    h1 = h1
    h2 = h2
    r1 = r1
    r2 = r2
    e1 = e1
    e2 = e2
    e3 = e3
    e4 = e4
    p1 = p1
    p2 = p2
    c1 = c1
    Cursors = {c1}
    None = None
    Handlers = {h1, h2}
    Orders = {r1, r2}
    Events = {e1, e2, e3, e4, p1, p2}
    Bodies <- MCBodies
    Pages <- MCPages
    MaxClock = 1
INVARIANTS
    IngestTypeOK
    NormalizedIsStored
    AckedIsStored
    ProjectionIsNewest
PROPERTIES
    OnlyForward
    Redelivered
CHECK_DEADLOCK FALSE
