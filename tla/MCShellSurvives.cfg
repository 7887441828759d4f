SPECIFICATION Spec
CONSTANTS
    MAXJOBS = 2
    MaxChildren = 2
    MaxStops = 1
INVARIANTS
    ShellSurvives
CHECK_DEADLOCK FALSE
