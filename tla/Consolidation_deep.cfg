SPECIFICATION FairSpec
CONSTANTS
    Sessions = {s1}
    Shapes <- AllShapes
    Base = 1
    Target = 4
    Slack = 1
    MaxRounds = 2
    MaxFailures = 3
    DiskFaults = TRUE
    MaxMessages = 6
INVARIANTS
    ArchivedOnceInOrder
    SlicesInRange
    LastMessageStays
    RawNeedsStreak
    FactsHaveHistory
PROPERTY
    NewWorksInTheEnd
CHECK_DEADLOCK FALSE
