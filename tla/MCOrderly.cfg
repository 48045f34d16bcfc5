CONSTANTS
    Requests = {q1, q2, q3, q4}
    Res = {r1, r2, r3}
    Keys = {k1, k2}
    Users = {u1}
    NoKey = NoKey
    None = None
    TotalStock = 2
    MaxFaults = 0
    ItemForeignKey = TRUE
SPECIFICATION OrderlySpec
SYMMETRY Symmetry
INVARIANTS LedgerExact ConfirmNotRefused
PROPERTIES ImplementsLedger
CHECK_DEADLOCK FALSE
