CONSTANTS
    Requests = {q1, q2, q3}
    Res = {r1, r2}
    Keys = {k1}
    Users = {u1}
    NoKey = NoKey
    None = None
    TotalStock = 1
    MaxFaults = 1
    ItemForeignKey = FALSE
SPECIFICATION FairSpec
PROPERTIES HoldsEnd
CHECK_DEADLOCK FALSE
