SPECIFICATION Spec
CONSTANTS
    MaxTurns = 3
    StreamsBreak = FALSE
    DiskFaults = FALSE
    OverBudget = TRUE
    MaxNews = 2
    MaxStops = 1
    MaxCrashes = 0
INVARIANTS
    ConversationKept
    AnswersOnDisk
    OneTurnAtATime
    StreamingTurnIsListed
PROPERTIES
    ImplementsConversation
CHECK_DEADLOCK FALSE
