SPECIFICATION Spec
CONSTANTS
    Templates <- OneTemplate
    MemoryFiles <- OneMemoryFile
    Onboards = {o1, o2}
    Gateways = {g1}
    AtOnce = FALSE
    MaxOutages = 1
    Results <- SomeResults
    KeepRecent = 1
    MaxCalls = 2
    MaxMessages = 8
    Callers = {c1, c2}
    Fallbacks = 2
    Tries = 2
    Threshold = 2
    MaxRequests = 1
    InitialFiles <- Files
    ToolCalls <- SomeCalls
    ReadBudget = 1
    t1 = t1
    t2 = t2
    s1 = s1
    Tasks = {t1, t2}
    TaskSession <- OneSession
    Cancellers = {k1, k2}
    MaxCancels = 1
    NoSession = none
INVARIANTS
    ToolsTypeOK
    PagesAdvance
CHECK_DEADLOCK FALSE
