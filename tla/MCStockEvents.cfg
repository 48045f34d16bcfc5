CONSTANTS
    Handlers = {h1, h2}
    Res = {r1, r2}
    TotalStock = 2
    None = None
    MaxChanges = 4
    MaxCounted = 3
    MaxFaults = 1
SPECIFICATION Spec
SYMMETRY Symmetry
INVARIANTS TypeOK ViewerCurrent EndAnnounced
CHECK_DEADLOCK FALSE
