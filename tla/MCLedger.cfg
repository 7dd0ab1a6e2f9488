SPECIFICATION MCSpec
CONSTANTS
    m = m
    p1 = p1
    p2 = p2
    plat = plat
    clr = clr
    c = c
    o1 = o1
    o2 = o2
    f1 = f1
    f2 = f2
    w1 = w1
    w2 = w2
    t1 = t1
    adm = adm
    fin = fin
    k1 = k1
    k2 = k2
    k3 = k3
    f3 = f3
    None = None
    MaxOperation = 20
    Merchants = {m}
    Promoters = {p1, p2}
    PlatformAccount = plat
    Clearing = clr
    Parent <- MCParent
    TermsOf <- MCTermsOf
    Customers = {c}
    Orders = {o1, o2}
    Refunds = {f1, f2, f3}
    Payouts = {w1, w2}
    References = {t1}
    Actors = {adm, fin}
    Keys = {k1, k2, k3}
    Requests <- MCRequests
    MaxPaid = 20
    SomeTerms <- MCTerms
    Offers <- MCOffers
    Purchases <- MCPurchases
    Fast = 1
    Slow = 1
    MaxVersions = 3
    MaxTime = 2
INVARIANTS
    Books
    NeverOverdrawn
    AllocationsExact
    RefundNeverStuck
    Attribution
    PayoutControl
    LoopAgrees
    NearlyProportional
    RuleOfItsTime
CHECK_DEADLOCK FALSE
