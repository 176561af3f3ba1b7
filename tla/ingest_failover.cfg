SPECIFICATION FairSpec
CONSTANTS
    Instances = {i1, i2}
    LeadershipEnabled = TRUE
    StartLedger = 1
    PageLimit = 2
    BatchSize = 1
    ReorgCheckInterval = 3
    ReorgMaxDepth = 1
    LeaseMayLapse = FALSE
    TipMayRegress = FALSE
    MaxLedger = 2
    MaxForks = 2
    MaxFaults = 1
PROPERTIES NoNewGaps
