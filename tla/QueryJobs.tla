----------------------------- MODULE QueryJobs -----------------------------
(***************************************************************************)
(* The asynchronous query jobs (indexer/src/jobs/queryJobs.js) of one API  *)
(* key in one process that serves HTTP and runs the maintenance            *)
(* (INDEXER_ROLE "all").  Submissions, cancellations, runners and the      *)
(* startup maintenance interleave at every await; the queue, the runners   *)
(* and the cancelled set are memory, the rows and the result files outlive *)
(* the process.                                                            *)
(*                                                                         *)
(* Two requests may carry the same idempotency key: a job stands for its   *)
(* key.  An export is abstracted to its file: being written, whole, capped *)
(* by the quota, or mixed when two runners write it.                       *)
(***************************************************************************)
EXTENDS Integers, Sequences, FiniteSets

CONSTANTS
    Jobs,           \* query_jobs rows (idempotency keys)
    Runners,        \* QUERY_JOBS_WORKERS slots
    Quota,          \* quotaFor(tier).concurrent
    MaxAsking,      \* bound: requests between a job's quota check and its insert
    MaxJobFaults    \* bound: crashes, failed statements and failed exports

ASSUME QueryJobsAssumption ==
    /\ IsFiniteSet(Jobs) /\ IsFiniteSet(Runners)
    /\ Quota \in Nat \ {0} /\ MaxAsking \in Nat \ {0} /\ MaxJobFaults \in Nat

VARIABLES
    job,         \* row: status, result_path set?, partial, expires_at
    file,        \* what is on disk under the job's path
    keyActive,   \* isApiKeyActive
    up, maint,   \* is the process up; where startQueryJobMaintenance is, its rows left
    queue,       \* ids waiting
    runner,      \* a slot: its place, its job, why it stops
    cancelled,   \* ids being cancelled
    asking,      \* submissions past their checks, per job
    cancels,     \* cancelJob calls between read and write: ids seen queued
    stuck,       \* history: jobs whose own statement failed since the process started
    twice,       \* history: ids that were in the queue or a runner when pushed again
    jobFaults

jobMemory == <<queue, runner, cancelled, asking, cancels>>
queryVars == <<job, file, keyActive, up, maint, jobMemory, stuck, twice, jobFaults>>

NoJob    == "none"
NewJob   == [status |-> "none", path |-> FALSE, partial |-> FALSE, expires |-> "never"]
FreeSlot == [at |-> "idle", id |-> NoJob, stop |-> "none"]

QueryInit ==
    /\ job = [j \in Jobs |-> NewJob] /\ file = [j \in Jobs |-> "none"] /\ keyActive = TRUE
    /\ up = TRUE /\ maint = [at |-> "done", todo |-> {}]
    /\ queue = <<>> /\ runner = [r \in Runners |-> FreeSlot] /\ cancelled = {}
    /\ asking = [j \in Jobs |-> 0] /\ cancels = {}
    /\ stuck = {} /\ twice = {} /\ jobFaults = 0

JobFault == jobFaults < MaxJobFaults /\ jobFaults' = jobFaults + 1

Status(S) == {j \in Jobs : job[j].status \in S}
Active    == Status({"queued", "running"})

-----------------------------------------------------------------------------
(* The queue. *)

\* pump() hands the head of the queue to each free slot, in one go.
Pump(q, slots) ==
    LET free  == {r \in Runners : slots[r].at = "idle"}
        n     == IF Len(q) < Cardinality(free) THEN Len(q) ELSE Cardinality(free)
        order == CHOOSE f \in [free -> 1..Cardinality(free)] : \A r, s \in free : r # s => f[r] # f[s]
    IN  /\ queue' = SubSeq(q, n + 1, Len(q))
        /\ runner' = [r \in Runners |-> IF r \in free /\ order[r] <= n
                                        THEN [at |-> "starting", id |-> q[order[r]], stop |-> "none"]
                                        ELSE slots[r]]

Held == {runner[r].id : r \in Runners} \cup {queue[i] : i \in DOMAIN queue}

\* The quota is compared with the rows there are before this one is inserted.
SubmitCheck(j) ==
    /\ up /\ keyActive /\ asking[j] < MaxAsking
    /\ job[j].status = "none"
    /\ Cardinality(Active) < Quota
    /\ asking' = [asking EXCEPT ![j] = @ + 1]
    /\ UNCHANGED <<job, file, keyActive, up, maint, queue, runner, cancelled, cancels, stuck, twice, jobFaults>>

\* ON CONFLICT DO NOTHING: the loser of a race returns the winner's job.
createQueryJob(j) ==
    /\ asking[j] > 0
    /\ asking' = [asking EXCEPT ![j] = @ - 1]
    /\ IF job[j].status = "none"
       THEN /\ job' = [job EXCEPT ![j].status = "queued"]
            /\ twice' = IF j \in Held THEN twice \cup {j} ELSE twice
            /\ Pump(Append(queue, j), runner)
       ELSE UNCHANGED <<job, twice, queue, runner>>
    /\ UNCHANGED <<file, keyActive, up, maint, cancelled, cancels, stuck, jobFaults>>

\* cancelJob reads the row ...
CancelRead(j) ==
    /\ up /\ j \in Active /\ j \notin cancels
    /\ cancelled' = cancelled \cup {j}
    /\ cancels' = IF job[j].status = "queued" THEN cancels \cup {j} ELSE cancels
    /\ UNCHANGED <<job, file, keyActive, up, maint, queue, runner, asking, stuck, twice, jobFaults>>

\* ... and writes what it decided, whatever the row is by now.
CancelWrite(j) ==
    /\ j \in cancels
    /\ cancels' = cancels \ {j}
    /\ job' = [job EXCEPT ![j].status = "cancelled"]
    /\ UNCHANGED <<file, keyActive, up, maint, queue, runner, cancelled, asking, stuck, twice, jobFaults>>

CancelFails(j) ==
    /\ j \in cancels /\ JobFault
    /\ cancels' = cancels \ {j} /\ stuck' = stuck \cup {j}
    /\ UNCHANGED <<job, file, keyActive, up, maint, queue, runner, cancelled, asking, twice>>

-----------------------------------------------------------------------------
(* runJob *)

Slot(r, place) == runner' = [runner EXCEPT ![r].at = place]

\* runJob has returned: the slot is free and pump() runs again.
Return(r) == Pump(queue, [runner EXCEPT ![r] = FreeSlot])

\* The row is read; a job that is not queued any more, or cancelled, is skipped, and
\* its id stays in the cancelled set.
LoadJob(r) ==
    /\ runner[r].at = "starting"
    /\ IF job[runner[r].id].status = "queued" /\ runner[r].id \notin cancelled
       THEN Slot(r, "claiming") /\ UNCHANGED queue
       ELSE Return(r)
    /\ UNCHANGED <<job, file, keyActive, up, maint, cancelled, asking, cancels, stuck, twice, jobFaults>>

Others(r) == {s \in Runners \ {r} : runner[s].id = runner[r].id
                                     /\ runner[s].at \in {"exporting", "finishing"}}

\* The row goes to running and the file is created anew.
StartExport(r) ==
    LET j == runner[r].id
    IN  /\ runner[r].at = "claiming"
        /\ job' = [job EXCEPT ![j].status = "running", ![j].path = TRUE]
        /\ file' = [file EXCEPT ![j] = IF Others(r) = {} THEN "writing" ELSE "mixed"]
        /\ Slot(r, "exporting")
        /\ UNCHANGED <<keyActive, up, maint, queue, cancelled, asking, cancels, stuck, twice, jobFaults>>

\* Before a batch is written the cancelled set, then the key, are looked at.
StopExport(r) ==
    /\ runner[r].at = "exporting"
    /\ runner[r].id \in cancelled \/ ~keyActive
    /\ file' = [file EXCEPT ![runner[r].id] = "none"]
    /\ runner' = [runner EXCEPT ![r].at = "finishing", ![r].stop = "stopped"]
    /\ UNCHANGED <<job, keyActive, up, maint, queue, cancelled, asking, cancels, stuck, twice, jobFaults>>

\* The last batch is written, or the rows or bytes run out of quota.
EndExport(r) ==
    /\ runner[r].at = "exporting"
    /\ \E stop \in {"none", "quota"} :
         /\ runner' = [runner EXCEPT ![r].at = "finishing", ![r].stop = stop]
         /\ file' = [file EXCEPT ![runner[r].id] =
                        IF @ # "writing" THEN @ ELSE IF stop = "quota" THEN "capped" ELSE "whole"]
    /\ UNCHANGED <<job, keyActive, up, maint, queue, cancelled, asking, cancels, stuck, twice, jobFaults>>

\* Mutant: a stopped job is finished like one that has written every batch.
RecordSucceededAlways(r) ==
    LET j == runner[r].id
    IN  job' = [job EXCEPT ![j] = [status |-> "succeeded", path |-> TRUE, partial |-> FALSE,
                                   expires |-> "set"]]

RecordEnd(r) ==
    LET j == runner[r].id
    IN  job' = [job EXCEPT ![j] =
                  IF runner[r].stop = "stopped"
                  THEN [@ EXCEPT !.status = "cancelled", !.path = FALSE]
                  ELSE [@ EXCEPT !.status = "succeeded", !.partial = (runner[r].stop = "quota"),
                                 !.expires = "set"]]

FinishJob(r) ==
    /\ runner[r].at = "finishing"
    /\ RecordEnd(r)
    /\ cancelled' = cancelled \ {runner[r].id}
    /\ Return(r)
    /\ UNCHANGED <<file, keyActive, up, maint, asking, cancels, stuck, twice, jobFaults>>

\* The export, or the update that ends it, throws: no file, and the row fails.
JobThrows(r) ==
    /\ runner[r].at \in {"exporting", "finishing"} /\ JobFault
    /\ file' = [file EXCEPT ![runner[r].id] = "none"]
    /\ Slot(r, "failing")
    /\ UNCHANGED <<job, keyActive, up, maint, queue, cancelled, asking, cancels, stuck, twice>>

RecordFailed(r) ==
    /\ runner[r].at = "failing"
    /\ job' = [job EXCEPT ![runner[r].id].status = "failed", ![runner[r].id].path = FALSE]
    /\ cancelled' = cancelled \ {runner[r].id}
    /\ Return(r)
    /\ UNCHANGED <<file, keyActive, up, maint, asking, cancels, stuck, twice, jobFaults>>

\* The statements before the try block, and the one in the catch block, only reach the
\* log: the row stays as it is.
RunnerFails(r) ==
    /\ runner[r].at \in {"starting", "claiming", "failing"} /\ JobFault
    /\ stuck' = stuck \cup {runner[r].id}
    /\ cancelled' = IF runner[r].at = "failing" THEN cancelled \ {runner[r].id} ELSE cancelled
    /\ Return(r)
    /\ UNCHANGED <<job, file, keyActive, up, maint, asking, cancels, twice>>

-----------------------------------------------------------------------------
(* Crash, restart and maintenance. *)

ProcessCrash ==
    /\ up /\ JobFault
    /\ up' = FALSE /\ maint' = [at |-> "down", todo |-> {}]
    /\ queue' = <<>> /\ runner' = [r \in Runners |-> FreeSlot] /\ cancelled' = {}
    /\ asking' = [j \in Jobs |-> 0] /\ cancels' = {} /\ stuck' = {}
    /\ UNCHANGED <<job, file, keyActive, twice>>

\* startApi listens before the maintenance has run.
ProcessStart ==
    /\ ~up
    /\ up' = TRUE /\ maint' = [at |-> "list", todo |-> {}]
    /\ UNCHANGED <<job, file, keyActive, jobMemory, stuck, twice, jobFaults>>

ListRunning ==
    /\ maint.at = "list"
    /\ maint' = [at |-> "failing", todo |-> Status({"running"})]
    /\ UNCHANGED <<job, file, keyActive, up, jobMemory, stuck, twice, jobFaults>>

\* A job that was running before the restart, or was started since.
FailInterrupted ==
    /\ maint.at = "failing"
    /\ \E j \in maint.todo : /\ job' = [job EXCEPT ![j].status = "failed"]
                             /\ maint' = [maint EXCEPT !.todo = @ \ {j}]
    /\ UNCHANGED <<file, keyActive, up, jobMemory, stuck, twice, jobFaults>>

\* Mutant: only interrupted jobs are looked after.
ListNothing ==
    /\ maint.at = "failing" /\ maint.todo = {}
    /\ maint' = [at |-> "resuming", todo |-> {}]
    /\ UNCHANGED <<job, file, keyActive, up, jobMemory, stuck, twice, jobFaults>>

ListQueued ==
    /\ maint.at = "failing" /\ maint.todo = {}
    /\ maint' = [at |-> "resuming", todo |-> Status({"queued"})]
    /\ UNCHANGED <<job, file, keyActive, up, jobMemory, stuck, twice, jobFaults>>

\* The ids are pushed in the order the rows were created in.
ResumeQueued ==
    /\ maint.at = "resuming"
    /\ maint' = [at |-> "done", todo |-> {}]
    /\ \E ids \in [1..Cardinality(maint.todo) -> maint.todo] :
         /\ \A i, k \in DOMAIN ids : i # k => ids[i] # ids[k]
         /\ Pump(queue \o ids, runner)
    /\ twice' = twice \cup (maint.todo \cap Held)
    /\ UNCHANGED <<job, file, keyActive, up, cancelled, asking, cancels, stuck, jobFaults>>

\* A failed statement ends the maintenance until the next restart.
MaintenanceFails ==
    /\ maint.at \in {"list", "failing", "resuming"} /\ JobFault
    /\ maint' = [at |-> "done", todo |-> {}]
    /\ stuck' = stuck \cup Active
    /\ UNCHANGED <<job, file, keyActive, up, jobMemory, twice>>

RetentionEnds(j) ==
    /\ job[j].expires = "set" /\ job' = [job EXCEPT ![j].expires = "past"]
    /\ UNCHANGED <<file, keyActive, up, maint, jobMemory, stuck, twice, jobFaults>>

sweepExpiredJobs(j) ==
    /\ up /\ maint.at = "done"
    /\ job[j].expires = "past" /\ job[j].status # "expired"
    /\ file' = [file EXCEPT ![j] = IF job[j].path THEN "none" ELSE @]
    /\ job' = [job EXCEPT ![j].status = "expired", ![j].path = FALSE]
    /\ UNCHANGED <<keyActive, up, maint, jobMemory, stuck, twice, jobFaults>>

RevokeKey ==
    /\ keyActive /\ keyActive' = FALSE
    /\ UNCHANGED <<job, file, up, maint, jobMemory, stuck, twice, jobFaults>>

-----------------------------------------------------------------------------
RunnerStep(r) ==
    LoadJob(r) \/ StartExport(r) \/ StopExport(r) \/ EndExport(r) \/ FinishJob(r) \/ RecordFailed(r)

MaintenanceStep == ListRunning \/ FailInterrupted \/ ListQueued \/ ResumeQueued

QueryNext ==
    \/ \E j \in Jobs : \/ SubmitCheck(j) \/ createQueryJob(j)
                       \/ CancelRead(j) \/ CancelWrite(j) \/ CancelFails(j)
                       \/ RetentionEnds(j) \/ sweepExpiredJobs(j)
    \/ \E r \in Runners : RunnerStep(r) \/ JobThrows(r) \/ RunnerFails(r)
    \/ ProcessCrash \/ ProcessStart \/ MaintenanceStep \/ MaintenanceFails
    \/ RevokeKey

QuerySpec == QueryInit /\ [][QueryNext]_queryVars

\* The process is restarted, its statements and its exports return.
QueryFairness ==
    /\ WF_queryVars(ProcessStart) /\ WF_queryVars(MaintenanceStep)
    /\ \A r \in Runners : WF_queryVars(RunnerStep(r))
    /\ \A j \in Jobs : WF_queryVars(createQueryJob(j)) /\ WF_queryVars(CancelWrite(j))
-----------------------------------------------------------------------------
(* Properties. *)

JobRows == [status : {"none", "queued", "running", "succeeded", "failed", "cancelled", "expired"},
          path : BOOLEAN, partial : BOOLEAN, expires : {"never", "set", "past"}]

QueryTypeOK ==
    /\ job \in [Jobs -> JobRows]
    /\ file \in [Jobs -> {"none", "writing", "whole", "capped", "mixed"}]
    /\ keyActive \in BOOLEAN /\ up \in BOOLEAN
    /\ maint \in [at : {"down", "list", "failing", "resuming", "done"}, todo : SUBSET Jobs]
    /\ queue \in Seq(Jobs)
    /\ runner \in [Runners -> [at : {"idle", "starting", "claiming", "exporting", "finishing", "failing"},
                               id : Jobs \cup {NoJob}, stop : {"none", "quota", "stopped"}]]
    /\ cancelled \subseteq Jobs /\ cancels \subseteq Jobs
    /\ asking \in [Jobs -> 0..MaxAsking]
    /\ stuck \subseteq Jobs /\ twice \subseteq Jobs /\ jobFaults \in 0..MaxJobFaults

\* What the download route serves (a succeeded row with a path and a file) is the whole
\* export, or the capped one and then flagged partial, however submissions,
\* cancellations, a restart and expiry interleave: unless the startup maintenance put
\* the id in the queue a second time.
SucceededIsComplete ==
    \A j \in Status({"succeeded"}) \ twice :
        job[j].path /\ file[j] # "none" => file[j] = IF job[j].partial THEN "capped" ELSE "whole"

\* "jobs that were running are marked failed and queued jobs are re-enqueued": every
\* job ends, across crashes and races with the maintenance and with cancellations,
\* unless one of its own statements failed in this run of the process.
EveryJobEnds ==
    \A j \in Jobs : j \in Active ~> (j \notin Active \/ j \in stuck)
=============================================================================
