SPECIFICATION FairSpec
CONSTANTS
    MAX_COMMANDS = 3
    Items = 2
    Capacity = 1
    Dirs <- MCDirs
    MAXHISTORY = 2
    Lines <- MCLines
    Fragments <- MCFragments
    Fused <- MCFused
    Earlier <- MCEarlier
    MaxLines = 2
    MaxStarts = 2
INVARIANTS
    TypeOK
    HistorySound
    PipelineSound
PROPERTIES
    PipelineEnds
CHECK_DEADLOCK FALSE
