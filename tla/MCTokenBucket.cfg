CONSTANTS
    Requests = {q1, q2, q3}
    Capacity = 4
    Cost = 2
    Window = 5
    RetryAfter = 3
    MaxLag = 1
    MaxTime = 9
    None = None
SPECIFICATION Spec
SYMMETRY Symmetry
INVARIANTS AllowanceBound IndInv
PROPERTIES RetryAfterHonoured
CHECK_DEADLOCK FALSE
