SPECIFICATION FairSpec
CONSTANTS
    c1 = c1
    c2 = c2
    c3 = c3
    Clients = {c1, c2, c3}
    NumItem = 1
    ID <- MCID
    Initial <- MCInitial
    Orders <- MCOrders
    SetSize = 2
    Loads <- MCLoads
    Window = 1
    DiskFails = TRUE
INVARIANTS
    TypeOK
    PoolConsistent
    ReadyAccounted
    SavedWhenQuiet
PROPERTIES
    ImplementsExchange
    EveryLineAnswered
    ClosedOnceLeft
CHECK_DEADLOCK FALSE
