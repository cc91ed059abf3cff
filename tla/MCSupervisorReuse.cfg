SPECIFICATION MCSpec
CONSTANTS
    Events = {e1}
    Procs = {p1}
    NoProc = NoProc
    e1 = e1
    p1 = p1
    p2 = p2
    MaxAttempts = 1
    MaxDeliveries = 1
    Addresses = 1
    MaxRecords = 1
    RestartLimit = 1
    MaxFaults = 0
PROPERTIES
    StrangersSpared
CHECK_DEADLOCK FALSE
