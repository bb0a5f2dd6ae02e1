CONSTANTS
    Runs = {1, 2}
    Conversations = {c1}
    Actors = {ann, bob}
    Requests = {q1}
    Workers = {w1}
    Tools = {t1}
    Times = {0}
    TTL = 1
    None = None
    Slots = {s1}
    MaxCalls = 0
    MaxFaults = 1
SPECIFICATION WSpec
PROPERTIES
    EveryTurnEnds
CHECK_DEADLOCK FALSE
