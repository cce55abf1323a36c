SPECIFICATION FairSpec
CONSTANTS
    Callers = {g1, g2}
    Rows = 2
    Depths <- MCDepths
    MaxVersions = 3
CHECK_DEADLOCK FALSE
INVARIANTS WholeAndCurrent ConnectionReleased
PROPERTIES CallsReturn
