SPECIFICATION Spec
CONSTANTS
    Sessions = {s1, s2}
    Shapes <- FewShapes
    Base = 1
    Target = 4
    Slack = 1
    MaxRounds = 1
    MaxFailures = 2
    DiskFaults = FALSE
    MaxMessages = 4
SYMMETRY Symmetry
INVARIANTS
    TypeOK
    ArchivedOnceInOrder
    SlicesInRange
    FactsHaveHistory
CHECK_DEADLOCK FALSE
