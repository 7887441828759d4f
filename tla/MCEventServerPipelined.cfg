SPECIFICATION FairSpec
CONSTANTS
    c1 = c1
    c2 = c2
    c3 = c3
    Clients = {c1, c2}
    NumItem = 1
    ID <- MCID
    Initial <- MCInitial
    Orders <- MCTrades
    SetSize = 2
    Loads <- MCPair
    Window = 2
    DiskFails = FALSE
PROPERTIES
    EveryLineAnswered
CHECK_DEADLOCK FALSE
