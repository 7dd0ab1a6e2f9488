SPECIFICATION TransactionsSpec
CONSTANTS
    m = m
    p1 = p1
    p2 = p2
    plat = plat
    clr = clr
    c = c
    o1 = o1
    o2 = o2
    f1 = f1
    f2 = f2
    w1 = w1
    w2 = w2
    t1 = t1
    t2 = t2
    adm = adm
    fin = fin
    k1 = k1
    k2 = k2
    k3 = k3
    k4 = k4
    h1 = h1
    h2 = h2
    h3 = h3
    worker = worker
    None = None
    MaxOperation = 8
    Merchants = {m}
    Promoters = {p1, p2}
    PlatformAccount = plat
    Clearing = clr
    Parent <- MCParent
    TermsOf <- MCTermsOf
    Customers = {c}
    Orders = {o1, o2}
    Refunds = {f1, f2}
    Payouts = {w1, w2}
    References = {t1, t2}
    Actors = {adm, fin}
    Keys = {k1, k2, k3, k4}
    Requests <- MCTransactions
    Handlers = {h1, h2, h3}
    Workers = {worker}
    Rank <- MCRank
SYMMETRY Swap
INVARIANTS
    CommissionTypeOK
    ExactlyOnce
    SeenIsCurrent
    OnlyExchangesDeadlock
PROPERTIES
    KeepsLedger
CHECK_DEADLOCK FALSE
