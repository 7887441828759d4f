SPECIFICATION FairSpec
CONSTANTS
    MAXJOBS = 2
    MaxChildren = 3
    MaxStops = 2
INVARIANTS
    TypeOK
    NoJobLost
PROPERTIES
    TableSound
    ZombiesReaped
    PromptReturns
CHECK_DEADLOCK FALSE
