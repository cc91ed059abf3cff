CONSTANTS
    JobIds = {1, 2}
    Tenants = {t1}
    Keys = {k1, k2}
    Specs <- MCSpecs
    Owners = {1}
    Results = {"succeeded", "executor_lost"}
    NoRow = NoRow
    MaxJobs = 2
    MaxQueued = 1
    MaxQueuedPerTenant = 1
    MaxWrites = 5
    MaxDeliveries = 1
SPECIFICATION StoreSpec
CONSTRAINT Bounded
INVARIANTS StoreTypeOK UniqueKeys AdmissionBounds TerminalObserved CancelWins NotificationCommitted
PROPERTIES NoNotificationLost OutputNeverForgotten
CHECK_DEADLOCK FALSE
