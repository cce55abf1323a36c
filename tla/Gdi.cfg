SPECIFICATION Spec
CONSTANTS
    Callers = {g1, g2}
    Threads = {t1, t2}
    MaxVersions = 2
    MaxMoves = 2
SYMMETRY Symmetric
INVARIANTS HandlesReturned ReleaseOrder CurrentImage
