CONSTANTS
    k1 = k1
    k2 = k2
    JobIds = {1, 2}
    Tenants = {t1}
    Keys = {k1, k2}
    Specs <- MCSpecs
    Owners <- MCOwners
    Results <- MCResults
    NoRow = NoRow
    MaxJobs = 2
    MaxQueued = 2
    MaxQueuedPerTenant = 2
    Controllers = {c1, c2}
    Workers = 1
    FaultKinds = {"store", "cleaner", "session", "signal", "submit"}
    MaxFaults = 2
    MaxRestarts = 1
    MaxDeliveries = 1
SPECIFICATION Spec
CONSTRAINT SafetyCases
SYMMETRY ControllerSymmetry
INVARIANTS TypeOK NoFalseLoss OneNotification AtMostOneStart CommittedOutputExists OutputAccounted CapacityRespected
PROPERTIES TerminalImmutable StoreSpec
