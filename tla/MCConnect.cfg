CONSTANTS
    Pods = {p1, p2}
    MaxConns = 2
    MaxJti = 2
    MaxCrashes = 1
    Requests = {r1}
SPECIFICATION Spec
INVARIANTS
    TypeOK
    RevokedCannotSend
    LiveOwnerKept
    NewestIsRouted
PROPERTIES
    RevokedDrains
CHECK_DEADLOCK FALSE
