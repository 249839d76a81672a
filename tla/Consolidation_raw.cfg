SPECIFICATION Spec
CONSTANTS
    Sessions = {s1}
    Shapes <- AllShapes
    Base = 1
    Target = 4
    Slack = 1
    MaxRounds = 2
    MaxFailures = 2
    DiskFaults = TRUE
    MaxMessages = 4
INVARIANT RawArchiveLosesNothing
CHECK_DEADLOCK FALSE
