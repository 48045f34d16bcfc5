CONSTANTS
    Requests = {q1, q2, q3, q4}
    Res = {r1, r2}
    Keys = {k1}
    Users = {}
    NoKey = NoKey
    None = None
    TotalStock = 1
    MaxFaults = 0
    ItemForeignKey = TRUE
    WorkerEnabled = TRUE
    MaxCrashes = 0
SPECIFICATION RSpec
SYMMETRY Symmetry
INVARIANT BuyersWithinStock
CHECK_DEADLOCK FALSE
