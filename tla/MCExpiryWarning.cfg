CONSTANTS
    Period = 6
    Lo = 11
    Hi = 18
    TTL = 24
    Jitter = 1
    MaxTime = 40
    MaxRestarts = 2
    MaxFaults = 1
    None = None
SPECIFICATION Spec
INVARIANTS IndInv WarnedInTime WarnedAtMostTwice
CHECK_DEADLOCK FALSE
