SPECIFICATION MCSpec
CONSTANTS
    Events = {e1}
    Procs = {p1, p2}
    NoProc = NoProc
    e1 = e1
    p1 = p1
    p2 = p2
    MaxAttempts = 2
    MaxDeliveries = 2
    Addresses = 2
    MaxRecords = 1
    RestartLimit = 1
    MaxFaults = 2
INVARIANTS
    SupervisorTypeOK
    ExposedTreesDie
    PostsAccounted
PROPERTIES
    Recovers
    EventSettles
CHECK_DEADLOCK FALSE
