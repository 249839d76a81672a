SPECIFICATION Spec
CONSTANTS
    Sessions = {s1}
    Shapes <- AllShapes
    Base = 4
    Target = 4
    Slack = 1
    MaxRounds = 5
    MaxFailures = 3
    DiskFaults = FALSE
    MaxMessages = 4
INVARIANT SlicesInRange
CHECK_DEADLOCK FALSE
