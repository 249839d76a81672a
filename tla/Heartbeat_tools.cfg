SPECIFICATION HbFairSpec
CONSTANTS
    HbEnabled = FALSE
    HbInboundCap = 1
    Consolidators = {s1}
    Builders = {}
    MaxHbTurns = 1
INVARIANT TurnsHaveTheirTools
CHECK_DEADLOCK FALSE
