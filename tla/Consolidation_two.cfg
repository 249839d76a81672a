SPECIFICATION Spec
CONSTANTS
    Sessions = {s1, s2}
    Shapes <- AllShapes
    Base = 1
    Target = 4
    Slack = 1
    MaxRounds = 2
    MaxFailures = 2
    DiskFaults = FALSE
    MaxMessages = 4
INVARIANT RawNeedsStreak
\* or, in its place, one of:
\*   INVARIANT MemoryKeepsFacts
CHECK_DEADLOCK FALSE
