SPECIFICATION Spec
CONSTANTS
    c1 = c1
    c2 = c2
    c3 = c3
    w1 = w1
    w2 = w2
    Clients = {c1, c2}
    Workers = {w1, w2}
    NumItem = 2
    ID <- MCID
    Initial <- MCInitial
    Orders <- MCTrades
    Capacity = 2
    Loads <- MCTraders
    DiskFails = FALSE
INVARIANTS
    SavedWhenQuiet
CHECK_DEADLOCK FALSE
