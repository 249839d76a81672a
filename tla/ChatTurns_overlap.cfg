SPECIFICATION FairSpec
CONSTANTS
    MaxTurns = 2
    StreamsBreak = TRUE
    DiskFaults = FALSE
    OverBudget = TRUE
    MaxNews = 0
    MaxStops = 0
    MaxCrashes = 0
INVARIANTS
    NoDuplicateLines
    ListedTurnRuns
PROPERTY TurnsEnd
CHECK_DEADLOCK FALSE
