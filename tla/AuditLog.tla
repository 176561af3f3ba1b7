------------------------------ MODULE AuditLog ------------------------------
(***************************************************************************)
(* The audit log's batched writer (indexer/src/audit/auditLogger.js): an   *)
(* in-process queue that a timer drains every 500 ms without waiting for   *)
(* the last flush, so several flushes may have a batch in flight.  A       *)
(* failed batch goes back to the front of the queue, entry by entry until  *)
(* its attempts run out.                                                   *)
(***************************************************************************)
EXTENDS Integers, Sequences, SequencesExt, FiniteSets

CONSTANTS
    AuditEntries,   \* requests that are logged
    Flushes,        \* _flushQueue calls that may overlap
    MaxBatch,       \* MAX_BATCH_SIZE
    MaxFlushAttempts,
    MaxOutages      \* bound: failed inserts

ASSUME AuditAssumption ==
    /\ MaxBatch \in Nat \ {0} /\ MaxFlushAttempts \in Nat /\ MaxOutages \in Nat

VARIABLES
    logQueue,       \* _queue
    flushed,        \* a flush's batch (empty: no flush)
    flushAttempts,  \* _flushAttempts
    inserted,       \* rows of api_audit_log, per entry
    dropped,        \* entries given up
    logged,         \* history: entries created
    outages

auditVars == <<logQueue, flushed, flushAttempts, inserted, dropped, logged, outages>>

AuditInit ==
    /\ logQueue = <<>> /\ flushed = [f \in Flushes |-> <<>>]
    /\ flushAttempts = [e \in AuditEntries |-> 0] /\ inserted = [e \in AuditEntries |-> 0]
    /\ dropped = {} /\ logged = {} /\ outages = 0

Outage == outages < MaxOutages /\ outages' = outages + 1

createAuditLogEntry(e) ==
    /\ e \notin logged
    /\ logged' = logged \cup {e}
    /\ logQueue' = Append(logQueue, e)
    /\ UNCHANGED <<flushed, flushAttempts, inserted, dropped, outages>>

StartFlush(f) ==
    /\ flushed[f] = <<>> /\ logQueue # <<>>
    /\ LET n == IF Len(logQueue) < MaxBatch THEN Len(logQueue) ELSE MaxBatch
       IN  /\ flushed' = [flushed EXCEPT ![f] = SubSeq(logQueue, 1, n)]
           /\ logQueue' = SubSeq(logQueue, n + 1, Len(logQueue))
    /\ UNCHANGED <<flushAttempts, inserted, dropped, logged, outages>>

Written(f) == [e \in AuditEntries |-> IF e \in ToSet(flushed[f]) THEN inserted[e] + 1 ELSE inserted[e]]

InsertCommits(f) ==
    /\ flushed[f] # <<>>
    /\ inserted' = Written(f)
    /\ flushed' = [flushed EXCEPT ![f] = <<>>]
    /\ UNCHANGED <<logQueue, flushAttempts, dropped, logged, outages>>

\* Mutant: an entry is tried once more than MAX_FLUSH_ATTEMPTS allows.
GivenUpLate(e) == flushAttempts[e] > MaxFlushAttempts

GivenUp(e) == flushAttempts[e] >= MaxFlushAttempts

\* Mutant: a failed batch is not put back.
RequeueNothing(batch) == <<>>

Requeued(batch) ==
    FoldLeft(LAMBDA retryable, e : IF GivenUp(e) THEN retryable ELSE Append(retryable, e), <<>>, batch)

\* The insert fails, or commits and its answer is lost.
InsertFails(f) ==
    LET batch == flushed[f]
        gone  == {e \in ToSet(batch) : GivenUp(e)}
    IN  /\ batch # <<>> /\ Outage
        /\ inserted' \in {inserted, Written(f)}
        /\ flushAttempts' = [e \in AuditEntries |-> IF e \in ToSet(batch) \ gone THEN flushAttempts[e] + 1
                                                    ELSE flushAttempts[e]]
        /\ logQueue' = Requeued(batch) \o logQueue
        /\ dropped' = dropped \cup gone
        /\ flushed' = [flushed EXCEPT ![f] = <<>>]
        /\ UNCHANGED logged

AuditNext ==
    \/ \E e \in AuditEntries : createAuditLogEntry(e)
    \/ \E f \in Flushes : StartFlush(f) \/ InsertCommits(f) \/ InsertFails(f)

AuditSpec == AuditInit /\ [][AuditNext]_auditVars
-----------------------------------------------------------------------------
(* Properties. *)

AuditTypeOK ==
    /\ logQueue \in Seq(AuditEntries) /\ flushed \in [Flushes -> Seq(AuditEntries)]
    /\ flushAttempts \in [AuditEntries -> 0..MaxFlushAttempts]
    /\ inserted \in [AuditEntries -> Nat]
    /\ dropped \subseteq logged /\ logged \subseteq AuditEntries
    /\ outages \in 0..MaxOutages

Places(e) == {<<"queue", i>> : i \in {k \in DOMAIN logQueue : logQueue[k] = e}}
             \cup {<<"batch", f>> : f \in {g \in Flushes : e \in ToSet(flushed[g])}}

\* Overlapping flushes that put their batches back at the front neither lose nor
\* double an entry: it waits in exactly one place until it is inserted or has used up
\* MAX_FLUSH_ATTEMPTS, and a row of its own comes only from each insert whose answer
\* was lost.
EntriesConserved ==
    \A e \in logged :
        /\ Cardinality(Places(e)) <= 1
        /\ Places(e) = {} => inserted[e] > 0 \/ e \in dropped
        /\ e \in dropped => Places(e) = {} /\ flushAttempts[e] = MaxFlushAttempts
        /\ inserted[e] <= 1 + flushAttempts[e]
=============================================================================
