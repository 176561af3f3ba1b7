SPECIFICATION FairSpec
CONSTANTS
    Instances = {i1, i2}
    LeaseTtl = 5
    RenewInterval = 2
    MaxDelay = 1
    MaxFaults = 3
INVARIANTS TypeOK AtMostOneLeader
PROPERTIES KeepsPromise LeaderEmerges
