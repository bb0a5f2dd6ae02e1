CONSTANTS
    Pods = {p1}
    Editors = {e1}
    Callers = {c1}
    Period = 2
    Jitter = 1
    Cutoff = 2
    Orphan = 1
    Stale = 0
    Hour = 2
    RunsPerHour = 3
    MaxTasks = 3
    MaxFaults = 0
    MaxEdits = 2
    Horizon = 0
    MaxTime = 3
SPECIFICATION Spec
INVARIANTS
    AlertsAgree
    DisabledStaysQuiet
