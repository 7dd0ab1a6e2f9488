SPECIFICATION BrowserSpec
CONSTANTS
    o1 = o1
    o2 = o2
    a = a
    b = b
    k1 = k1
    k2 = k2
    t1 = t1
    t2 = t2
    q1 = q1
    q2 = q2
    None = None
    Absent = Absent
    Torn = Torn
    Blank = Blank
    Origins = {o1, o2}
    Actors = {a, b}
    Keys = {k1, k2}
    MaxGenerations = 2
    MaxStarts = 1
    MaxSends = 2
    Revocable <- MCRevocable
    Tabs = {t1, t2}
    Faulty = {}
    Queries = {q1, q2}
    MaxPanels = 2
    MaxReads = 3
INVARIANT
    NoReplacement
CHECK_DEADLOCK FALSE
