CONSTANTS
    Requests = {q1, q2}
    Res = {r1, r2}
    Keys = {k1}
    Users = {u1}
    NoKey = NoKey
    None = None
    TotalStock = 1
    MaxFaults = 0
    ItemForeignKey = TRUE
SPECIFICATION Spec
INVARIANT NoWaiterLost
CHECK_DEADLOCK FALSE
