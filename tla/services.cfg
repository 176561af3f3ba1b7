SPECIFICATION ServicesSpec
CONSTANTS
    Requests = {r1, r2, r3}
    Limit = 1
    MaxLimiterFaults = 2
    MaxExpiries = 2
    Migrators = {p1, p2}
    LastFile = 2
    Plan <- TwoFiles
    MaxMigrationFaults = 2
    Instances = {i1, i2}
    CacheCalls = {c1, c2}
    LastVersion = 1
    MaxCacheFaults = 1
    LastSeq = 5
    PageLimit = 2
    MaxChanges = 2
    NodeCount = 3
    Calls = {k1, k2}
    LagThreshold = 0
    LastLedger = 1
    Entries = {e1}
    Workers = {w1, w2}
    Hashes = {h1}
    MaxAttempts = 3
    PoisonThreshold = 2
    BatchSize = 1
    MaxFaults = 2
    MaxAdmin = 1
INVARIANTS ServicesTypeOK LimitHolds MigrationsInOrder WalkIsExact FailsOnlyWhenAllDid
PROPERTIES StalenessEnds Settles
CHECK_DEADLOCK FALSE
