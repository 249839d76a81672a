SPECIFICATION FairSpecHung
CONSTANTS
    Sessions = {s1, s2}
    InboundCap = 1
    OutboundCap = 1
    QueueCap = 1
    MaxPublished = 3
    Hung = {s1}
PROPERTY SessionsDoNotBlock
CHECK_DEADLOCK FALSE
