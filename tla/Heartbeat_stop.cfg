SPECIFICATION HbSpec
CONSTANTS
    HbEnabled = FALSE
    HbInboundCap = 1
    Consolidators = {s1}
    Builders = {}
    MaxHbTurns = 1
INVARIANT ShutdownIsComplete
CHECK_DEADLOCK FALSE
