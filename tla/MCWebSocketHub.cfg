CONSTANTS
    c1 = c1
    c2 = c2
    u1 = u1
    Clients = {c1, c2}
    Users = {u1}
    None = None
    UserOf <- MCUserOf
    SendCap = 1
    MaxMessages = 2
    MaxEvents = 1
SPECIFICATION FairSpec
INVARIANTS MissedIsLeaving NoPanic
PROPERTY ConnectionsReleased
CHECK_DEADLOCK FALSE
