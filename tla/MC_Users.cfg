CONSTANTS
    Logins = {l1, l2, l3}
    Passwords = {p1, p2}
    MaxFailed = 2
    Lockout = 1
    SessionTTL = 1
    MaxTime = 1
    MaxInFlight = 2
    MaxCommands = 2
    MaxActs = 1
SPECIFICATION Spec
INVARIANTS
    TypeOK
    RevocationHolds
    LockoutCounts
    OnlyEntitledAct
CHECK_DEADLOCK FALSE
SYMMETRY Symmetry
