SPECIFICATION Spec
CONSTANTS
    MaxTurns = 1
    StreamsBreak = TRUE
    DiskFaults = FALSE
    OverBudget = FALSE
    MaxNews = 1
    MaxStops = 0
    MaxCrashes = 0
INVARIANT ConversationKept
\* or, in its place, one of:
\*   INVARIANT ClearedStaysCleared
CHECK_DEADLOCK FALSE
