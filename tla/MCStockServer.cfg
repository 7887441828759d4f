SPECIFICATION FairSpec
CONSTANTS
    c1 = c1
    c2 = c2
    c3 = c3
    w1 = w1
    w2 = w2
    Clients = {c1, c2, c3}
    Workers = {w1, w2}
    NumItem = 2
    ID <- MCID
    Initial <- MCInitial
    Orders <- MCOrders
    Capacity = 1
    Loads <- MCLoads
    DiskFails = TRUE
INVARIANTS
    TypeOK
    EntryLocks
    OneOwner
    ConnectionsCounted
PROPERTIES
    ImplementsExchange
    EveryLineAnswered
    ClosedOnceLeft
CHECK_DEADLOCK FALSE
