CONSTANTS
    Requests = {q1, q2, q3}
    Res = {r1}
    Keys = {}
    Users = {}
    NoKey = NoKey
    None = None
    TotalStock = 1
    MaxFaults = 1
    ItemForeignKey = TRUE
    WorkerEnabled = TRUE
    MaxCrashes = 1
SPECIFICATION FairRSpec
INVARIANTS ConfirmedIffOrdered
PROPERTIES StartupConserves DriftCorrected
CHECK_DEADLOCK FALSE
