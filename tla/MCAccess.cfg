SPECIFICATION FairAccess
CONSTANTS
    a1 = a1
    a2 = a2
    i1 = i1
    k1 = k1
    k2 = k2
    None = None
    Requests <- MCRequests
    Admins = {a1, a2}
    Integrator = i1
    Expiring = {a2}
    Consumers = {k1, k2}
    Tables <- MCTables
    MaxEvents = 1
INVARIANTS
    AccessTypeOK
    OneHolder
    DeliveredWasHandled
PROPERTIES
    OneRoot
    LastAdminStays
    Delivered
CHECK_DEADLOCK FALSE
