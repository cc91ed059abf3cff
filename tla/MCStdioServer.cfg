SPECIFICATION Spec
CONSTANTS
    MaxRequests = 3
    MaxPending = 2
    MaxFaults = 1
INVARIANTS
    Answered
    SessionsStopped
PROPERTIES
    ServerReturns
CHECK_DEADLOCK FALSE
