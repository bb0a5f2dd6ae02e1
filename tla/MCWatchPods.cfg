CONSTANTS
    Pods = {p1, p2}
    Editors = {}
    Callers = {}
    Period = 2
    Jitter = 1
    Cutoff = 1
    Orphan = 1
    Stale = 0
    Hour = 2
    RunsPerHour = 3
    MaxTasks = 3
    MaxFaults = 2
    MaxEdits = 0
    Horizon = 2
    MaxTime = 4
SPECIFICATION Spec
INVARIANTS
    AtMostOncePerSlot
    OneScheduledPerPod
PROPERTIES
    EveryExecutionEnds
    DueIsTaken
