SPECIFICATION FairSpec
CONSTANTS
    HbEnabled = TRUE
    HbInboundCap = 1
    Consolidators = {s1}
    Builders = {}
    MaxHbTurns = 1
    Jobs = {a, b}
    Intervals = {0}
    Day = 2
    Minute = 1
    CronWired = TRUE
    CronSaves = TRUE
    MaxClock = 5
    Events <- TheEvents
    AllowFrom = {"u"}
    GroupPolicy = "mention"
    MaxDeliveries = 2
    Outbox <- TheOutbox
    ChunkSize = 2
    MaxStarts = 2
    WsClients = {w1, w2}
    RemoteAddr <- OwnAddress
    WsOutbox <- WsReplies
    SharedOutbound = FALSE
    Stoppers = {k1, k2}
INVARIANT StopWaits
\* or, in its place, one of:
\*   INVARIANT NoPanic
CHECK_DEADLOCK FALSE
