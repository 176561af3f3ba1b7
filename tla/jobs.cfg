SPECIFICATION JobsSpec
CONSTANTS
    OutboxRows = {1}
    Subs = {s1}
    Relays = {w1, w2}
    RelayLimit = 1
    MaxFailures = 2
    SendOutcomes = {TRUE, FALSE}
    MaxRelayFaults = 2
    MaxUserCalls = 1
    Jobs = {j1}
    Runners = {r1, r2}
    Quota = 1
    MaxAsking = 2
    MaxJobFaults = 2
    Work = {j1, j2}
    Ticks = {t1, t2}
    Urgent = {j1}
    MaxTries = 2
    MaxTickFaults = 1
    AuditEntries = {e1, e2, e3}
    Flushes = {f1, f2}
    MaxBatch = 2
    MaxFlushAttempts = 1
    MaxOutages = 3
    LastMonth = 7
    MaxCreateFailures = 1
INVARIANTS JobsTypeOK NothingForgotten BreakerHolds SucceededIsComplete JobsInReach EntriesConserved CurrentMonthInsertable
PROPERTIES EveryRowDispatched EveryJobEnds EveryJobSettles
CHECK_DEADLOCK FALSE
