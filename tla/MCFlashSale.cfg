CONSTANTS
    Requests = {q1, q2, q3, q4}
    Res = {r1, r2}
    Keys = {k1}
    Users = {u1, u2}
    NoKey = NoKey
    None = None
    TotalStock = 1
    MaxFaults = 1
    ItemForeignKey = TRUE
SPECIFICATION Spec
SYMMETRY Symmetry
INVARIANTS NoOversell StockBounded NoOrphanHold IndInv
PROPERTIES ConfirmedIsFinal
CHECK_DEADLOCK FALSE
