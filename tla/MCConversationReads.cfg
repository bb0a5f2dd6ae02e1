SPECIFICATION Spec
CONSTANTS
    None = None
    Limit = 2
    MaxEvents = 3
    MaxFaults = 2
INVARIANTS
    CopyExact
    ServerNotAhead
    OnePageOutstanding
PROPERTIES
    NothingAfterRevocation
    EverythingArrives
CHECK_DEADLOCK FALSE
