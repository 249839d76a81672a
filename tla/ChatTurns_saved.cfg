SPECIFICATION Spec
CONSTANTS
    MaxTurns = 2
    StreamsBreak = FALSE
    DiskFaults = FALSE
    OverBudget = TRUE
    MaxNews = 0
    MaxStops = 0
    MaxCrashes = 0
INVARIANT ConsolidationIsSaved
CHECK_DEADLOCK FALSE
