CONSTANTS
    Procs = {q1, q2, q3, q4, q5}
    MaxTokens = 3
    MaxTime = 2
    MaxBack = 1
SPECIFICATION Spec
INVARIANTS
    TypeOK
    NoneSurvives
    AccessExact
    FreshLoginWorks
    FamilyGoneSqlite
SYMMETRY Symmetry
CHECK_DEADLOCK FALSE
