CONSTANTS
    s1 = s1
    s2 = s2
    cancel = cancel
    run = run
    shutdown = shutdown
    io = io
    Sessions = {s1, s2}
    Calls = {cancel, run, shutdown, io}
    Op <- MCOp
    Target <- MCTarget
    Deadlines = {"timeout"}
    ExitCodes = {"zero", "xcpu"}
    MaxActive = 1
    MaxCompleted = 1
    MaxFaults = 1
    NoCall = NoCall
SPECIFICATION Spec
CONSTRAINT Cases
INVARIANTS TypeOK SlotAccounting OwnedUntilDead StopReasonReported
PROPERTIES RefinesContract StoppedSessionEnds CallsEnd
CHECK_DEADLOCK FALSE
