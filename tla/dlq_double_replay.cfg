SPECIFICATION Spec
CONSTANTS
    Entries = {e1}
    Workers = {w1, w2}
    Hashes = {h1}
    MaxAttempts = 2
    PoisonThreshold = 2
    BatchSize = 1
    MaxFaults = 0
    MaxAdmin = 0
INVARIANT NoDoubleReplay
CHECK_DEADLOCK FALSE
