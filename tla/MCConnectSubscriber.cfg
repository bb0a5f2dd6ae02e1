CONSTANTS
    Pods = {p1, p2}
    MaxConns = 2
    MaxJti = 1
    MaxCrashes = 0
    Requests = {}
SPECIFICATION Spec
INVARIANTS
    SubscriberKept
CHECK_DEADLOCK FALSE
