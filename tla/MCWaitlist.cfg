CONSTANTS
    Users = {1, 2, 3}
    Calls = {c1, c2}
    TotalStock = 1
    MaxLag = 1
    MaxTime = 3
    MaxAvailable = 2
SPECIFICATION Spec
SYMMETRY Symmetry
INVARIANTS IndInv PositionWithinTotal
PROPERTIES NoQueueJump PositionSettles
CHECK_DEADLOCK FALSE
