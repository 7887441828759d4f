SPECIFICATION Spec
CONSTANTS
    MAX_HEAP = 152
    CHUNKSIZE = 40
    INITCHUNKSIZE = 32
    BIG = 36
    Ids = {1, 2, 200}
    Sizes = {4, 16, 28}
    MaxOps = 5
    NumTraces = 2
    Secs = {1, 4}
    UTIL_WEIGHT = 60
    AVG_LIBC_THRUPUT = 2
INVARIANTS
    TypeOK
    HeapTiled
    FreeListExact
    DriverContent
    IndexSound
PROPERTIES
    ImplementsAllocator
CHECK_DEADLOCK FALSE
