CONSTANTS
    Runs = {1}
    Conversations = {c1}
    Actors = {ann}
    Requests = {q1}
    Workers = {w1, w2}
    Tools = {t1}
    Times = {0}
    TTL = 1
    None = None
    Slots = {s1, s2}
    MaxCalls = 2
    MaxFaults = 3
SPECIFICATION WSpec
INVARIANTS
    InvokedOnce
    OneExecution
    DeliveryAgrees
PROPERTIES
    EveryTurnEnds
CHECK_DEADLOCK FALSE
