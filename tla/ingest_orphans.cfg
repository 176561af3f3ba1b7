SPECIFICATION Spec
CONSTANTS
    Instances = {i1}
    LeadershipEnabled = FALSE
    StartLedger = 1
    PageLimit = 2
    BatchSize = 1
    ReorgCheckInterval = 2
    ReorgMaxDepth = 1
    LeaseMayLapse = TRUE
    TipMayRegress = FALSE
    MaxLedger = 4
    MaxForks = 2
    MaxFaults = 0
PROPERTIES RollbackPurgesOrphans
