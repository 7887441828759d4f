SPECIFICATION FairSpec
CONSTANTS
    Producers = {p1, p2}
    Consumers = {c1, c2}
    Values = {v1, v2}
    N = 2
    MaxInserts = 4
INVARIANTS
    TypeOK
    SemaphoresBalance
PROPERTIES
    ImplementsFifo
    
CHECK_DEADLOCK FALSE
