CONSTANTS
    Runs = {1, 2}
    Conversations = {c1}
    Actors = {ann, bob}
    Requests = {q1}
    Workers = {w1, w2}
    Tools = {t1}
    Times = {0, 2}
    TTL = 2
    None = None
SYMMETRY Interchangeable
SPECIFICATION Spec
INVARIANTS
    TypeOK
    OneRunning
    NeverReclaimed
    CancelWins
    ProjectionAgrees
    ToolsSettled
    QueueOrder
    ContextSettled
    OneRunPerRequest
PROPERTIES
    TerminalFrozen
    ImplementsTurns
