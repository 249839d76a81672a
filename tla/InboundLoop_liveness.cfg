SPECIFICATION FairSpec
CONSTANTS
    Sessions = {s1, s2}
    InboundCap = 1
    OutboundCap = 1
    QueueCap = 1
    MaxPublished = 2
    Hung = {}
PROPERTIES
    EveryMessageAnswered
    ShutdownCompletes
    ImplementsMailbox
CHECK_DEADLOCK FALSE
