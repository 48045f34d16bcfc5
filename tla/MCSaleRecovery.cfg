CONSTANTS
    Updates = {u1, u2}
    Targets = {"active", "paused"}
    None = None
    MaxUpdates = 2
    MaxRestarts = 2
    MaxCrashes = 2
    MaxFaults = 1
SPECIFICATION Spec
INVARIANTS CorrectedBeforeUse EquippedWhenServing
CHECK_DEADLOCK FALSE
