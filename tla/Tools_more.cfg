SPECIFICATION Spec
CONSTANTS
    Templates <- OneTemplate
    MemoryFiles <- OneMemoryFile
    Onboards = {o1, o2}
    Gateways = {g1}
    AtOnce = TRUE
    MaxOutages = 1
    Results <- SomeResults
    KeepRecent = 1
    MaxCalls = 2
    MaxMessages = 8
    Callers = {c1, c2}
    Fallbacks = 2
    Tries = 2
    Threshold = 2
    MaxRequests = 1
    InitialFiles <- Files
    ToolCalls <- SomeCalls
    ReadBudget = 1
    t1 = t1
    t2 = t2
    s1 = s1
    Tasks = {t1, t2}
    TaskSession <- OneSession
    Cancellers = {k1, k2}
    MaxCancels = 2
    NoSession = none
INVARIANT LaidOutWhole
\* or, in its place, one of:
\*   PROPERTY CustomisationStays
\*   INVARIANT CancelBySessionReaches
\*   INVARIANT PagesMeet
\*   INVARIANT ResultsAreShort
\*   PROPERTY RecordStays
CHECK_DEADLOCK FALSE
