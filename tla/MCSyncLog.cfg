CONSTANTS
    Entities = {a}
    Writers = {w1}
    MaxChanges = 1
    Limit = 1
    Capacity = 1
    MaxFaults = 1
    MaxDrops = 1
    OtherTraffic = TRUE
SPECIFICATION Spec
INVARIANTS
    CursorNamesRow
PROPERTIES
    CountsConverge
    RepairsEnd
CHECK_DEADLOCK FALSE
