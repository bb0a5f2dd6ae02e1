CONSTANTS
    Procs = {q1, q2, q3}
    MaxTokens = 2
    MaxTime = 1
    MaxBack = 0
SPECIFICATION Spec
INVARIANTS
    FamilyGone
CHECK_DEADLOCK FALSE
