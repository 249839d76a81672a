SPECIFICATION FairSpecPatient
CONSTANTS
    Sessions = {s1, s2}
    InboundCap = 1
    OutboundCap = 1
    QueueCap = 1
    MaxPublished = 2
    Hung = {}
PROPERTY WorkersFinish
CHECK_DEADLOCK FALSE
