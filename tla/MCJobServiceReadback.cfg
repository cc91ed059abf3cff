CONSTANTS
    k1 = k1
    k2 = k2
    JobIds = {1}
    Tenants = {t1}
    Keys = {k1, k2}
    Specs <- MCSpecs
    Owners <- MCOwners
    Results <- MCResults
    NoRow = NoRow
    MaxJobs = 2
    MaxQueued = 2
    MaxQueuedPerTenant = 2
    Controllers = {c1}
    Workers = 1
    FaultKinds = {"readback"}
    MaxFaults = 1
    MaxRestarts = 0
    MaxDeliveries = 0
SPECIFICATION Spec
INVARIANTS CommittedOutputExists
