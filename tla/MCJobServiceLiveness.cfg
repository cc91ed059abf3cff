CONSTANTS
    k1 = k1
    k2 = k2
    JobIds = {1}
    Tenants = {t1}
    Keys = {k1, k2}
    Specs <- MCSpecs
    Owners <- MCOwners
    Results <- MCResults
    NoRow = NoRow
    MaxJobs = 2
    MaxQueued = 2
    MaxQueuedPerTenant = 2
    Controllers = {c1}
    Workers = 1
    FaultKinds = {"store", "readback", "output", "session"}
    MaxFaults = 1
    MaxRestarts = 1
    MaxDeliveries = 0
SPECIFICATION LiveSpec
PROPERTIES JobSettles CancelSettles CloseCompletes
