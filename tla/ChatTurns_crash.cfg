SPECIFICATION Spec
CONSTANTS
    MaxTurns = 2
    StreamsBreak = FALSE
    DiskFaults = TRUE
    OverBudget = TRUE
    MaxNews = 1
    MaxStops = 0
    MaxCrashes = 2
INVARIANTS
    TypeOK
    ClearedStaysCleared
CHECK_DEADLOCK FALSE
