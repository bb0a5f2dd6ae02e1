CONSTANTS
    Pods = {p1}
    Editors = {}
    Callers = {}
    Period = 2
    Jitter = 1
    Cutoff = 2
    Orphan = 1
    Stale = 0
    Hour = 2
    RunsPerHour = 3
    MaxTasks = 2
    MaxFaults = 1
    MaxEdits = 0
    Horizon = 3
    MaxTime = 3
SPECIFICATION Spec
INVARIANTS
    ShutdownMarksAborted
