SPECIFICATION Spec
CONSTANTS
    Instances = {i1}
    LeadershipEnabled = FALSE
    StartLedger = 1
    PageLimit = 2
    BatchSize = 1
    ReorgCheckInterval = 2
    ReorgMaxDepth = 1
    LeaseMayLapse = FALSE
    TipMayRegress = FALSE
    MaxLedger = 3
    MaxForks = 2
    MaxFaults = 1
INVARIANT PurgedIsReindexed
