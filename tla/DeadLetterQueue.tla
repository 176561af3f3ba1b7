--------------------------- MODULE DeadLetterQueue ---------------------------
(***************************************************************************)
(* The dead letter queue (indexer/src/deadLetterQueue.js) and the admin    *)
(* routes that write it (routes/admin.js).  A worker is one call of        *)
(* processRetries: index.js starts one every minute in every instance      *)
(* without waiting for the last, so several run at once.  Each await of    *)
(* processRetries and recordFailure ends a step; a database statement is   *)
(* atomic.                                                                 *)
(*                                                                         *)
(* Time is abstracted to what the claim compares: whether an entry's       *)
(* next_retry_at has come, and whether its claim is older than             *)
(* STALE_CLAIM_MS.  An error's class and stack hash are one value.         *)
(***************************************************************************)
EXTENDS Integers, FiniteSets

CONSTANTS
    Entries,          \* dead_letter_queue ids
    Workers,          \* processRetries calls that may overlap
    Hashes,           \* error classes / stack hashes
    MaxAttempts,      \* DLQ_MAX_ATTEMPTS
    PoisonThreshold,  \* DLQ_POISON_THRESHOLD
    BatchSize,        \* DLQ_BATCH_SIZE
    MaxFaults,        \* bound: crashes and failed statements
    MaxAdmin          \* bound: admin calls

ASSUME QueueAssumption ==
    /\ IsFiniteSet(Entries)
    /\ MaxAttempts \in Nat \ {0} /\ PoisonThreshold \in Nat \ {0} /\ BatchSize \in Nat \ {0}
    /\ MaxFaults \in Nat /\ MaxAdmin \in Nat
    /\ Hashes # {}

VARIABLES
    state,       \* state column ("absent": no row yet)
    attempts,    \* retry_count
    hash,        \* stack_hash
    scheduled,   \* entries whose next_retry_at is not NULL
    due,         \* of these, the ones it has come for
    reason,      \* resolved_reason ("replayed": the NULL processRetries writes)
    stale,       \* 'retrying' entries whose updated_at is older than STALE_CLAIM_MS
    handled,     \* history: entries whose handler has succeeded
    stage, todo, current, error, poison,  \* a worker: its place, the claimed rows left (as
                 \* returned by the claim), the row in hand, the hash of the error caught and
                 \* whether DLQ_POISON_THRESHOLD open rows were counted with it
    retryReq,    \* admin retries between their SELECT and their UPDATE
    faults, adminCalls

rowVars == <<state, attempts, hash, scheduled, due, reason, stale>>
workerVars == <<stage, todo, current, error, poison>>
vars == <<rowVars, handled, workerVars, retryReq, faults, adminCalls>>

AHash == CHOOSE h \in Hashes : TRUE
NoRow == [id |-> "none", tries |-> 0]

Init ==
    /\ state = [e \in Entries |-> "absent"] /\ attempts = [e \in Entries |-> 0]
    /\ hash = [e \in Entries |-> AHash] /\ reason = [e \in Entries |-> "none"]
    /\ scheduled = {} /\ due = {} /\ stale = {} /\ handled = {}
    /\ stage = [w \in Workers |-> "idle"] /\ todo = [w \in Workers |-> {}]
    /\ current = [w \in Workers |-> NoRow] /\ error = [w \in Workers |-> AHash]
    /\ poison = [w \in Workers |-> FALSE]
    /\ retryReq = {} /\ faults = 0 /\ adminCalls = 0

Fault == faults < MaxFaults /\ faults' = faults + 1

-----------------------------------------------------------------------------
(* Time, and new entries. *)

\* Every entry is scheduled for replay after a backoff.
enqueue(e) ==
    /\ state[e] = "absent"
    /\ \E h \in Hashes : hash' = [hash EXCEPT ![e] = h]
    /\ state' = [state EXCEPT ![e] = "queued"]
    /\ scheduled' = scheduled \cup {e}
    /\ UNCHANGED <<attempts, due, reason, stale, handled, workerVars, retryReq, faults, adminCalls>>

BackoffElapses(e) ==
    /\ e \in scheduled \ due
    /\ due' = due \cup {e}
    /\ UNCHANGED <<state, attempts, hash, scheduled, reason, stale, handled, workerVars,
                   retryReq, faults, adminCalls>>

ClaimGoesStale(e) ==
    /\ state[e] = "retrying" /\ e \notin stale
    /\ stale' = stale \cup {e}
    /\ UNCHANGED <<state, attempts, hash, scheduled, due, reason, handled, workerVars,
                   retryReq, faults, adminCalls>>

-----------------------------------------------------------------------------
(* processRetries *)

Goto(w, label) == stage' = [stage EXCEPT ![w] = label]

\* The end of an iteration: its locals go out of scope.
Continue(w) ==
    /\ Goto(w, "next")
    /\ current' = [current EXCEPT ![w] = NoRow]
    /\ error' = [error EXCEPT ![w] = AHash]
    /\ poison' = [poison EXCEPT ![w] = FALSE]

\* Mutant: a crashed worker's claims are never taken over.
ClaimableQueuedOnly == {e \in Entries : state[e] = "queued" /\ e \in due}

Claimable == {e \in Entries : \/ state[e] = "queued" /\ e \in due
                              \/ state[e] = "retrying" /\ e \in stale}

\* One statement claims up to DLQ_BATCH_SIZE rows and returns them as they are.
claim(w) ==
    /\ stage[w] = "idle"
    /\ Claimable # {}
    /\ \E S \in SUBSET Claimable :
         /\ Cardinality(S) <= BatchSize
         /\ Cardinality(S) < BatchSize => S = Claimable
         /\ state' = [e \in Entries |-> IF e \in S THEN "retrying" ELSE state[e]]
         /\ stale' = stale \ S
         /\ todo' = [todo EXCEPT ![w] = {[id |-> e, tries |-> attempts[e]] : e \in S}]
    /\ Goto(w, "next")
    /\ UNCHANGED <<attempts, hash, scheduled, due, reason, handled, current, error, poison,
                   retryReq, faults, adminCalls>>

NextEntry(w) ==
    /\ stage[w] = "next"
    /\ \/ /\ todo[w] = {}
          /\ Goto(w, "idle") /\ UNCHANGED <<todo, current>>
       \/ \E row \in todo[w] :
            /\ todo' = [todo EXCEPT ![w] = @ \ {row}]
            /\ current' = [current EXCEPT ![w] = row]
            /\ Goto(w, "handling")
    /\ UNCHANGED <<rowVars, handled, error, poison, retryReq, faults, adminCalls>>

HandlerReturns(w) ==
    /\ stage[w] = "handling"
    /\ \/ Goto(w, "succeeded") /\ handled' = handled \cup {current[w].id} /\ UNCHANGED error
       \/ Goto(w, "gone") /\ UNCHANGED <<handled, error>>
       \/ \E h \in Hashes : /\ error' = [error EXCEPT ![w] = h]
                            /\ Goto(w, "failed") /\ UNCHANGED handled
    /\ UNCHANGED <<rowVars, todo, current, poison, retryReq, faults, adminCalls>>

\* The UPDATE of markResolved; it has no condition on the row's state.
Resolve(e, why) ==
    /\ state' = [state EXCEPT ![e] = "resolved"]
    /\ reason' = [reason EXCEPT ![e] = why]
    /\ scheduled' = scheduled \ {e} /\ due' = due \ {e} /\ stale' = stale \ {e}
    /\ UNCHANGED <<attempts, hash>>

\* Mutant: a deleted contract is closed as if its entry had been replayed.
markResolvedAsReplayed(w) ==
    /\ stage[w] \in {"succeeded", "gone"} /\ Resolve(current[w].id, "replayed")
    /\ Continue(w)
    /\ UNCHANGED <<handled, todo, retryReq, faults, adminCalls>>

markResolved(w) ==
    /\ \/ stage[w] = "succeeded" /\ Resolve(current[w].id, "replayed")
       \/ stage[w] = "gone" /\ Resolve(current[w].id, "contract deleted")
    /\ Continue(w)
    /\ UNCHANGED <<handled, todo, retryReq, faults, adminCalls>>

\* recordFailure reads how many open rows have the error's hash ...
CountSameHash(w) ==
    /\ stage[w] = "failed"
    /\ LET same == {e \in Entries : state[e] \notin {"absent", "resolved"} /\ hash[e] = error[w]}
       IN  poison' = [poison EXCEPT ![w] = Cardinality(same) >= PoisonThreshold]
    /\ Goto(w, "counted")
    /\ UNCHANGED <<rowVars, handled, todo, current, error, retryReq, faults, adminCalls>>

\* Mutant: one attempt too many.
nextStateOffByOne(tries, isPoison) ==
    IF tries > MaxAttempts \/ isPoison THEN "quarantined" ELSE "queued"

nextStateAfterFailure(tries, isPoison) ==
    IF tries >= MaxAttempts \/ isPoison THEN "quarantined" ELSE "queued"

\* ... writes the row, from the retry_count it was claimed with and whatever its
\* state is by now ...
WriteFailure(w) ==
    LET e     == current[w].id
        tries == current[w].tries + 1
        new   == nextStateAfterFailure(tries, poison[w])
    IN  /\ stage[w] = "counted"
        /\ state' = [state EXCEPT ![e] = new]
        /\ attempts' = [attempts EXCEPT ![e] = tries]
        /\ hash' = [hash EXCEPT ![e] = error[w]]
        /\ scheduled' = IF new = "queued" THEN scheduled \cup {e} ELSE scheduled \ {e}
        /\ due' = due \ {e} /\ stale' = stale \ {e}
        /\ \/ new = "queued" /\ Continue(w)
           \/ new = "quarantined" /\ Goto(w, "grouping") /\ UNCHANGED <<current, error, poison>>
        /\ UNCHANGED <<reason, handled, todo, retryReq, faults, adminCalls>>

\* ... and, if it quarantined the row, quarantines the open rows of the same hash.
QuarantineGroup(w) ==
    LET group == {e \in Entries \ {current[w].id} :
                    hash[e] = error[w] /\ state[e] \in {"queued", "retrying"}}
    IN  /\ stage[w] = "grouping"
        /\ state' = [e \in Entries |-> IF e \in group THEN "quarantined" ELSE state[e]]
        /\ scheduled' = scheduled \ group /\ due' = due \ group /\ stale' = stale \ group
        /\ Continue(w)
        /\ UNCHANGED <<attempts, hash, reason, handled, todo, retryReq, faults, adminCalls>>

\* A failed markResolved after a success is caught like a failure of the handler;
\* any other failed statement, or a crash, abandons the rows left in the batch.
StatementFails(w) ==
    /\ stage[w] = "succeeded" /\ Fault
    /\ \E h \in Hashes : error' = [error EXCEPT ![w] = h]
    /\ Goto(w, "failed")
    /\ UNCHANGED <<rowVars, handled, todo, current, poison, retryReq, adminCalls>>

Abandon(w) ==
    /\ stage[w] # "idle" /\ Fault
    /\ stage' = [stage EXCEPT ![w] = "idle"]
    /\ todo' = [todo EXCEPT ![w] = {}]
    /\ current' = [current EXCEPT ![w] = NoRow]
    /\ error' = [error EXCEPT ![w] = AHash]
    /\ poison' = [poison EXCEPT ![w] = FALSE]
    /\ UNCHANGED <<rowVars, handled, retryReq, adminCalls>>

-----------------------------------------------------------------------------
(* The admin routes. *)

AdminCall == adminCalls < MaxAdmin /\ adminCalls' = adminCalls + 1

\* Mutant: the attempt budget is not given back.
RequeueKeepsAttempts(S) ==
    /\ state' = [e \in Entries |-> IF e \in S THEN "queued" ELSE state[e]]
    /\ scheduled' = scheduled \cup S /\ due' = due \cup S /\ stale' = stale \ S
    /\ UNCHANGED <<attempts, hash, reason>>

Requeue(S) ==
    /\ state' = [e \in Entries |-> IF e \in S THEN "queued" ELSE state[e]]
    /\ attempts' = [e \in Entries |-> IF e \in S THEN 0 ELSE attempts[e]]
    /\ scheduled' = scheduled \cup S /\ due' = due \cup S /\ stale' = stale \ S
    /\ UNCHANGED <<hash, reason>>

\* POST /dlq/:id/retry looks at the state first ...
RetryCheck(e) ==
    /\ AdminCall
    /\ state[e] \notin {"absent", "resolved"}
    /\ retryReq' = retryReq \cup {e}
    /\ UNCHANGED <<rowVars, handled, workerVars, faults>>

\* ... and then writes whatever the state has become.
RetryWrite(e) ==
    /\ e \in retryReq
    /\ retryReq' = retryReq \ {e}
    /\ Requeue({e})
    /\ UNCHANGED <<handled, workerVars, faults, adminCalls>>

\* POST /dlq/:id/resolve
resolve(e) ==
    /\ AdminCall
    /\ state[e] # "absent"
    /\ Resolve(e, "manually resolved")
    /\ UNCHANGED <<handled, workerVars, retryReq, faults>>

\* POST /dlq/replay
requeueByErrorClass(h) ==
    /\ AdminCall
    /\ Requeue({e \in Entries : /\ hash[e] = h /\ state[e] \in {"queued", "quarantined"}
                                /\ e \notin due})
    /\ UNCHANGED <<handled, workerVars, retryReq, faults>>

-----------------------------------------------------------------------------
WorkerStep(w) ==
    \/ NextEntry(w) \/ HandlerReturns(w) \/ markResolved(w) \/ CountSameHash(w)
    \/ WriteFailure(w) \/ QuarantineGroup(w)

Next ==
    \/ \E e \in Entries : \/ enqueue(e) \/ BackoffElapses(e) \/ ClaimGoesStale(e)
                          \/ RetryCheck(e) \/ RetryWrite(e) \/ resolve(e)
    \/ \E w \in Workers : claim(w) \/ WorkerStep(w) \/ StatementFails(w) \/ Abandon(w)
    \/ \E h \in Hashes : requeueByErrorClass(h)

Spec == Init /\ [][Next]_vars

\* Time passes, the minute timer keeps starting processRetries, handlers return and
\* a request that has read the row writes it.
QueueFairness ==
    /\ \A e \in Entries : WF_vars(BackoffElapses(e)) /\ WF_vars(ClaimGoesStale(e))
                          /\ WF_vars(RetryWrite(e))
    /\ \A w \in Workers : WF_vars(claim(w)) /\ WF_vars(WorkerStep(w))
-----------------------------------------------------------------------------
(* Properties. *)

Stages == {"idle", "next", "handling", "succeeded", "gone", "failed", "counted", "grouping"}

\* A row as a claim returns it; only its retry_count is read.
Rows == [id : Entries, tries : 0..(MaxAttempts - 1)]

RowTypeOK ==
    /\ state \in [Entries -> {"absent", "queued", "retrying", "quarantined", "resolved"}]
    /\ attempts \in [Entries -> 0..MaxAttempts] /\ hash \in [Entries -> Hashes]
    /\ reason \in [Entries -> {"none", "replayed", "contract deleted", "manually resolved"}]
    /\ scheduled \subseteq Entries /\ due \subseteq scheduled
    /\ stale \subseteq {e \in Entries : state[e] = "retrying"}

WorkerTypeOK ==
    /\ stage \in [Workers -> Stages] /\ todo \in [Workers -> SUBSET Rows]
    /\ current \in [Workers -> Rows \cup {NoRow}] /\ error \in [Workers -> Hashes]
    /\ poison \in [Workers -> BOOLEAN]

TypeOK ==
    /\ RowTypeOK /\ WorkerTypeOK
    /\ handled \subseteq Entries /\ retryReq \subseteq Entries
    /\ faults \in 0..MaxFaults /\ adminCalls \in 0..MaxAdmin

\* An entry waiting for a replay can get one: it is scheduled, and it has attempts
\* left under DLQ_MAX_ATTEMPTS, however failures, quarantines, admin retries and a
\* second claim of the same row interleave.
QueuedIsRetriable ==
    \A e \in Entries :
        /\ state[e] = "queued" => e \in scheduled
        /\ state[e] \in {"queued", "retrying"} => attempts[e] < MaxAttempts

\* "no entry is ever lost": one that the processor closed as replayed went through
\* its handler, even when another worker or a failed write came in between.
ReplayedWasHandled == \A e \in Entries : reason[e] = "replayed" => e \in handled

\* "no entry is ever lost": an open entry is eventually replayed, closed or
\* quarantined for an operator, across crashes, failed writes and stale claims.
Settles ==
    \A e \in Entries : state[e] \in {"queued", "retrying"} ~> state[e] \in {"quarantined", "resolved"}

\* processRetries: "two processor instances never replay the same entry".
NoDoubleReplay ==
    \A v, w \in Workers : v # w /\ stage[v] = "handling" /\ stage[w] = "handling"
                            => current[v].id # current[w].id
=============================================================================
