SPECIFICATION SlowModelSpec
CONSTANTS
    MaxTurns = 1
    StreamsBreak = FALSE
    DiskFaults = FALSE
    OverBudget = FALSE
    MaxNews = 0
    MaxStops = 1
    MaxCrashes = 0
PROPERTY StopCancels
CHECK_DEADLOCK FALSE
