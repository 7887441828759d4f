SPECIFICATION PoliteSpec
CONSTANTS
    c1 = c1
    c2 = c2
    c3 = c3
    w1 = w1
    w2 = w2
    Clients = {c1, c2}
    Workers = {w1}
    NumItem = 2
    ID <- MCID
    Initial <- MCInitial
    Orders <- MCTrades
    Capacity = 2
    Loads <- MCVisitors
    DiskFails = FALSE
PROPERTIES
    EveryConnectionServed
CHECK_DEADLOCK FALSE
