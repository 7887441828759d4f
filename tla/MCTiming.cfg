SPECIFICATION Spec
CONSTANTS
    Platforms = {"i386", "other"}
    Half = 8
    Sec = 4
    MAX_ETIME = 3
    K = 2
    MAXSAMPLES = 3
    EpsInverse = 4
    CACHE_BYTES = 2
    THRESHOLD = 2
    RECORDTHRESH = 3
    NEVENT = 2
    Repeats = 2
    Starts = {0, 7, 62}
    Costs = {1, 5}
    Gaps = {1, 3, 5}
    KChoices = {1, 3}
    SampleChoices = {2, 4}
    CacheChoices = {1}
    MaxQuiet = 1
    MaxMeasures = 2
INVARIANTS
    TypeOK
    BestKept
    DurationsExact
CHECK_DEADLOCK FALSE
