SPECIFICATION FairSpec
CONSTANTS
    Instances = {i1, i2}
    LeadershipEnabled = TRUE
    StartLedger = 1
    PageLimit = 2
    BatchSize = 2
    ReorgCheckInterval = 3
    ReorgMaxDepth = 1
    LeaseMayLapse = TRUE
    TipMayRegress = TRUE
    MaxLedger = 2
    MaxForks = 2
    MaxFaults = 1
PROPERTIES CatchesUp HashesRepaired
