SPECIFICATION Spec
CONSTANTS
    Sessions = {s1, s2}
    InboundCap = 1
    OutboundCap = 1
    QueueCap = 1
    MaxPublished = 2
    Hung = {}
INVARIANT OutboundOutlivesWorkers
\* or, in its place, one of:
\*   INVARIANT WaitCoversWorkers
CHECK_DEADLOCK FALSE
