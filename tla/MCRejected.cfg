SPECIFICATION DesktopSpec
CONSTANTS
    o1 = o1
    o2 = o2
    a = a
    b = b
    k1 = k1
    k2 = k2
    t1 = t1
    t2 = t2
    q1 = q1
    q2 = q2
    None = None
    Absent = Absent
    Torn = Torn
    Blank = Blank
    Origins = {o1}
    Actors = {a}
    Keys = {k1, k2}
    MaxGenerations = 1
    MaxStarts = 0
    MaxSends = 2
    Revocable <- MCRevocable
    Tabs = {t1}
    Faulty = {"recover", "send", "discard"}
    Queries = {q1, q2}
    MaxPanels = 2
    MaxReads = 3
INVARIANT
    RejectedHasNoEffect
CHECK_DEADLOCK FALSE
