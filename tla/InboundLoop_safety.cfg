SPECIFICATION Spec
CONSTANTS
    Sessions = {s1, s2}
    InboundCap = 2
    OutboundCap = 1
    QueueCap = 1
    MaxPublished = 3
    Hung = {}
SYMMETRY Symmetry
INVARIANTS
    TypeOK
    GaplessBacklog
    OneReplyInOrder
    RepliesNeverOvertake
    WaitGroupCountsWorkers
    ExitedWorkerLeftNothing
PROPERTY TurnsFollowBusOrder
CHECK_DEADLOCK FALSE
