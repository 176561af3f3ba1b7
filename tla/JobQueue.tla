------------------------------ MODULE JobQueue ------------------------------
(***************************************************************************)
(* The shared job queue (indexer/src/jobs/scheduler.js).  A tick is one    *)
(* call of a worker's tick(): a timer starts one every 250 ms without      *)
(* waiting for the last, in every process that runs startJobWorker.  Each  *)
(* statement is atomic and claimJob is one transaction.                    *)
(*                                                                         *)
(* A heartbeat's age is abstracted to younger or older than                *)
(* JOB_HEARTBEAT_MS, available_at to passed or not.  attempts stops        *)
(* counting at max_attempts: the code only compares it with that limit.    *)
(***************************************************************************)
EXTENDS Integers, FiniteSets

CONSTANTS
    Work,          \* jobs ids
    Ticks,         \* tick() calls that may overlap
    Urgent,        \* jobs of a higher priority class than the rest
    MaxTries,      \* max_attempts
    MaxTickFaults  \* bound: crashes and failed statements

ASSUME JobQueueAssumption ==
    /\ Urgent \subseteq Work /\ MaxTries \in Nat \ {0} /\ MaxTickFaults \in Nat

VARIABLES
    status,     \* "none" before it is enqueued
    tries,      \* attempts
    beat,       \* heartbeat_at: "null", "fresh" or "old"
    available,  \* jobs whose available_at has come
    tick,       \* a tick: its place and its job
    done,       \* history: jobs whose handler has returned
    tickFaults

jobQueueVars == <<status, tries, beat, available, tick, done, tickFaults>>

NoWork == "none"
Off    == [at |-> "off", id |-> NoWork]

JobQueueInit ==
    /\ status = [j \in Work |-> "none"] /\ tries = [j \in Work |-> 0]
    /\ beat = [j \in Work |-> "null"] /\ available = {}
    /\ tick = [t \in Ticks |-> Off]
    /\ done = {} /\ tickFaults = 0

TickFault == tickFaults < MaxTickFaults /\ tickFaults' = tickFaults + 1

\* An idempotency key that is known only has its payload replaced.
enqueueJob(j) ==
    /\ status[j] = "none"
    /\ status' = [status EXCEPT ![j] = "queued"]
    /\ available' \in {available, available \cup {j}}
    /\ UNCHANGED <<tries, beat, tick, done, tickFaults>>

BecomesAvailable(j) ==
    /\ status[j] = "queued" /\ j \notin available
    /\ available' = available \cup {j}
    /\ UNCHANGED <<status, tries, beat, tick, done, tickFaults>>

HeartbeatAges(j) ==
    /\ beat[j] = "fresh"
    /\ beat' = [beat EXCEPT ![j] = "old"]
    /\ UNCHANGED <<status, tries, available, tick, done, tickFaults>>

Stale == {j \in Work : status[j] = "running" /\ beat[j] = "old"}

\* One transaction requeues the stale jobs, whatever their attempts, and takes an
\* available one of the highest class.
claimJob(t) ==
    LET ready == {j \in Work : (status[j] = "queued" \/ j \in Stale) /\ j \in available}
    IN  /\ tick[t].at = "off"
        /\ \E j \in ready :
             /\ ready \cap Urgent # {} => j \in Urgent
             /\ status' = [i \in Work |-> IF i = j THEN "running"
                                          ELSE IF i \in Stale THEN "queued" ELSE status[i]]
             /\ tries' = [tries EXCEPT ![j] = IF @ < MaxTries THEN @ + 1 ELSE @]
             /\ beat' = [i \in Work |-> IF i = j THEN "fresh" ELSE IF i \in Stale THEN "null" ELSE beat[i]]
             /\ tick' = [tick EXCEPT ![t] = [at |-> "handling", id |-> j]]
        /\ UNCHANGED <<available, done, tickFaults>>

\* Mutant: the heartbeat does not look at the status.
heartbeatAnyStatus(t) ==
    /\ tick[t].at = "handling"
    /\ beat' = [beat EXCEPT ![tick[t].id] = "fresh"]
    /\ UNCHANGED <<status, tries, available, tick, done, tickFaults>>

\* The handler reports progress: only a job that is still running is touched.
heartbeatJob(t) ==
    /\ tick[t].at = "handling" /\ status[tick[t].id] = "running"
    /\ beat[tick[t].id] = "old"
    /\ beat' = [beat EXCEPT ![tick[t].id] = "fresh"]
    /\ UNCHANGED <<status, tries, available, tick, done, tickFaults>>

HandlerEnds(t) ==
    /\ tick[t].at = "handling"
    /\ \/ /\ tick' = [tick EXCEPT ![t].at = "completing"]
          /\ done' = done \cup {tick[t].id}
       \/ tick' = [tick EXCEPT ![t].at = "failing"] /\ UNCHANGED done
    /\ UNCHANGED <<status, tries, beat, available, tickFaults>>

\* Neither completeJob nor failJob looks at the job's state or its worker.
completeJob(t) ==
    LET j == tick[t].id
    IN  /\ tick[t].at = "completing"
        /\ status' = [status EXCEPT ![j] = "completed"] /\ beat' = [beat EXCEPT ![j] = "null"]
        /\ tick' = [tick EXCEPT ![t] = Off]
        /\ UNCHANGED <<tries, available, done, tickFaults>>

\* Mutant: a failure is always retried.
afterFailureAlwaysRetry(n) == "queued"

afterFailure(n) == IF n < MaxTries THEN "queued" ELSE "failed"

failJob(t) ==
    LET j == tick[t].id
    IN  /\ tick[t].at = "failing"
        /\ status' = [status EXCEPT ![j] = afterFailure(tries[j])]
        /\ available' = available \ {j} /\ beat' = [beat EXCEPT ![j] = "null"]
        /\ tick' = [tick EXCEPT ![t] = Off]
        /\ UNCHANGED <<tries, done, tickFaults>>

\* A completeJob that throws is a failure of the job; a failJob that throws is dropped.
TickStatementFails(t) ==
    /\ tick[t].at \in {"completing", "failing"} /\ TickFault
    /\ tick' = [tick EXCEPT ![t] = IF @.at = "completing" THEN [@ EXCEPT !.at = "failing"] ELSE Off]
    /\ UNCHANGED <<status, tries, beat, available, done>>

TickCrash(t) ==
    /\ tick[t].at # "off" /\ TickFault
    /\ tick' = [tick EXCEPT ![t] = Off]
    /\ UNCHANGED <<status, tries, beat, available, done>>

cancelJob(j) ==
    /\ status[j] \in {"queued", "running"}
    /\ status' = [status EXCEPT ![j] = "cancelled"] /\ beat' = [beat EXCEPT ![j] = "null"]
    /\ UNCHANGED <<tries, available, tick, done, tickFaults>>

-----------------------------------------------------------------------------
TickStep(t) == claimJob(t) \/ HandlerEnds(t) \/ completeJob(t) \/ failJob(t)

JobQueueNext ==
    \/ \E j \in Work : enqueueJob(j) \/ BecomesAvailable(j) \/ HeartbeatAges(j) \/ cancelJob(j)
    \/ \E t \in Ticks : TickStep(t) \/ heartbeatJob(t) \/ TickStatementFails(t) \/ TickCrash(t)

JobQueueSpec == JobQueueInit /\ [][JobQueueNext]_jobQueueVars

\* Time passes, ticks keep coming, and handlers and statements return.
JobQueueFairness ==
    /\ \A j \in Work : WF_jobQueueVars(BecomesAvailable(j)) /\ WF_jobQueueVars(HeartbeatAges(j))
    /\ \A t \in Ticks : WF_jobQueueVars(TickStep(t))
-----------------------------------------------------------------------------
(* Properties. *)

JobQueueTypeOK ==
    /\ status \in [Work -> {"none", "queued", "running", "completed", "failed", "cancelled"}]
    /\ tries \in [Work -> 0..MaxTries] /\ beat \in [Work -> {"null", "fresh", "old"}]
    /\ available \subseteq Work /\ done \subseteq Work
    /\ tick \in [Ticks -> [at : {"off", "handling", "completing", "failing"}, id : Work \cup {NoWork}]]
    /\ tickFaults \in 0..MaxTickFaults

\* A job is never out of everyone's reach: a running one has a heartbeat to grow old,
\* though heartbeats, completions, failures and cancellations of workers that lost
\* their claim write it too, and one that counts as completed was handled.
JobsInReach ==
    \A j \in Work : /\ status[j] = "running" <=> beat[j] # "null"
                    /\ status[j] = "completed" => j \in done

\* Every job ends: a dead worker's job is taken over, and failures run out of attempts.
EveryJobSettles ==
    \A j \in Work : status[j] \in {"queued", "running"} ~> status[j] \in {"completed", "failed", "cancelled"}
=============================================================================
