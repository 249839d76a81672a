SPECIFICATION Spec
CONSTANTS
    MaxTurns = 2
    StreamsBreak = TRUE
    DiskFaults = FALSE
    OverBudget = FALSE
    MaxNews = 0
    MaxStops = 0
    MaxCrashes = 0
INVARIANT OneTurnAtATime
\* or, in its place, one of:
\*   INVARIANT StreamingTurnIsListed
\*   INVARIANT ConversationKept
\*   INVARIANT SaveIsAtomic
CHECK_DEADLOCK FALSE
