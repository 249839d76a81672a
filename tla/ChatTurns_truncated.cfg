SPECIFICATION Spec
CONSTANTS
    MaxTurns = 2
    StreamsBreak = FALSE
    DiskFaults = FALSE
    OverBudget = TRUE
    MaxNews = 0
    MaxStops = 0
    MaxCrashes = 1
INVARIANT ArchivedPrefix
CHECK_DEADLOCK FALSE
