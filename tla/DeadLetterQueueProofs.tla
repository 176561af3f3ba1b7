------------------------ MODULE DeadLetterQueueProofs ------------------------
(***************************************************************************)
(* Proofs about DeadLetterQueue, for any number of entries, overlapping    *)
(* workers, attempts, faults and admin calls.                              *)
(***************************************************************************)
EXTENDS DeadLetterQueue, TLAPS

USE QueueAssumption

\* A worker past "next" has a claimed row in hand, and it writes "replayed" only
\* after that row's handler has succeeded.
WorkerInv ==
    \A w \in Workers :
        /\ stage[w] \notin {"idle", "next"} => current[w] \in Rows
        /\ stage[w] = "succeeded" => current[w].id \in handled

\* No failure has been recorded for a row that does not exist.
FreshInv ==
    \A e \in Entries : state[e] = "absent" => attempts[e] = 0 /\ reason[e] = "none"

IInv == TypeOK /\ QueuedIsRetriable /\ ReplayedWasHandled /\ WorkerInv /\ FreshInv

\* AHash names some hash.
LEMMA HashExists == AHash \in Hashes
  BY DEF AHash

\* The empty queue satisfies the invariant.
LEMMA InitInv == Init => IInv
<1> SUFFICES ASSUME Init PROVE IInv
  OBVIOUS
<1>1. RowTypeOK
  BY HashExists DEF Init, RowTypeOK
<1>2. WorkerTypeOK
  BY HashExists DEF Init, WorkerTypeOK, Stages
<1>3. TypeOK
  BY <1>1, <1>2 DEF Init, TypeOK
<1>4. QueuedIsRetriable /\ ReplayedWasHandled /\ WorkerInv /\ FreshInv
  BY DEF Init, QueuedIsRetriable, ReplayedWasHandled, WorkerInv, FreshInv
<1> QED BY <1>3, <1>4 DEF IInv

\* Time passing and new entries.
LEMMA EntryInv ==
  ASSUME IInv, NEW e \in Entries, enqueue(e) \/ BackoffElapses(e) \/ ClaimGoesStale(e)
  PROVE  IInv'
<1>1. UNCHANGED <<attempts, reason, handled, workerVars, retryReq, faults, adminCalls>>
  BY DEF enqueue, BackoffElapses, ClaimGoesStale
<1>2. RowTypeOK /\ RowTypeOK'
  BY DEF IInv, TypeOK, RowTypeOK, enqueue, BackoffElapses, ClaimGoesStale
<1>3. WorkerTypeOK'
  BY <1>1 DEF IInv, TypeOK, WorkerTypeOK, workerVars
<1>4. QueuedIsRetriable'
  <2>1. CASE enqueue(e)
    <3>1. attempts[e] = 0
      BY <2>1 DEF IInv, FreshInv, enqueue
    <3>2. /\ state' = [state EXCEPT ![e] = "queued"] /\ scheduled' = scheduled \cup {e}
          /\ attempts' = attempts /\ QueuedIsRetriable /\ state \in [Entries -> {"absent", "queued",
                "retrying", "quarantined", "resolved"}]
      BY <1>1, <1>2, <2>1 DEF enqueue, IInv, RowTypeOK
    <3> QED BY <3>1, <3>2 DEF QueuedIsRetriable
  <2>2. CASE BackoffElapses(e) \/ ClaimGoesStale(e)
    BY <1>1, <2>2 DEF IInv, QueuedIsRetriable, BackoffElapses, ClaimGoesStale
  <2> QED BY <2>1, <2>2
<1>5. ReplayedWasHandled' /\ WorkerInv'
  BY <1>1 DEF IInv, ReplayedWasHandled, WorkerInv, workerVars
<1>6. FreshInv'
  BY <1>1, <1>2 DEF IInv, FreshInv, RowTypeOK, enqueue, BackoffElapses, ClaimGoesStale
<1>7. TypeOK'
  BY <1>1, <1>2, <1>3 DEF IInv, TypeOK
<1> QED BY <1>4, <1>5, <1>6, <1>7 DEF IInv

\* A claim returns rows with attempts left.
LEMMA ClaimInv == ASSUME IInv, NEW w \in Workers, claim(w) PROVE IInv'
<1>0. RowTypeOK /\ WorkerTypeOK /\ QueuedIsRetriable
  BY DEF IInv, TypeOK
<1>1. PICK S \in SUBSET Claimable :
        /\ state' = [e \in Entries |-> IF e \in S THEN "retrying" ELSE state[e]]
        /\ stale' = stale \ S
        /\ todo' = [todo EXCEPT ![w] = {[id |-> e, tries |-> attempts[e]] : e \in S}]
  BY DEF claim
<1>2. \A e \in S : /\ e \in Entries /\ attempts[e] \in 0..(MaxAttempts - 1)
                   /\ state[e] \in {"queued", "retrying"}
  <2> SUFFICES ASSUME NEW e \in S
               PROVE  /\ e \in Entries /\ attempts[e] \in 0..(MaxAttempts - 1)
                      /\ state[e] \in {"queued", "retrying"}
    OBVIOUS
  <2>1. e \in Entries /\ state[e] \in {"queued", "retrying"}
    BY DEF Claimable
  <2>2. attempts[e] \in 0..MaxAttempts /\ attempts[e] < MaxAttempts
    BY <1>0, <2>1 DEF QueuedIsRetriable, RowTypeOK
  <2> QED BY <2>1, <2>2
<1>3. ASSUME NEW e \in S PROVE [id |-> e, tries |-> attempts[e]] \in Rows
  BY <1>2 DEF Rows
<1>4. /\ stage' = [stage EXCEPT ![w] = "next"]
      /\ UNCHANGED <<attempts, hash, scheduled, due, reason, handled, current, error, poison,
                     retryReq, faults, adminCalls>>
  BY DEF claim, Goto
<1>5. todo' \in [Workers -> SUBSET Rows]
  <2> DEFINE T == {[id |-> e, tries |-> attempts[e]] : e \in S}
  <2>1. T \in SUBSET Rows
    BY <1>3
  <2>2. todo' = [todo EXCEPT ![w] = T]
    BY <1>1
  <2> HIDE DEF T
  <2> QED BY <1>0, <2>1, <2>2 DEF WorkerTypeOK
<1>6. RowTypeOK'
  BY <1>0, <1>1, <1>4 DEF RowTypeOK
<1>7. WorkerTypeOK'
  BY <1>0, <1>4, <1>5 DEF WorkerTypeOK, Stages
<1>8. TypeOK'
  BY <1>4, <1>6, <1>7 DEF IInv, TypeOK
<1>9. QueuedIsRetriable'
  BY <1>0, <1>1, <1>2, <1>4 DEF QueuedIsRetriable
<1>10. FreshInv'
  BY <1>1, <1>2, <1>4 DEF IInv, FreshInv
<1>11. ReplayedWasHandled' /\ WorkerInv'
  BY <1>0, <1>4 DEF IInv, ReplayedWasHandled, WorkerInv, WorkerTypeOK
<1> QED BY <1>8, <1>9, <1>10, <1>11 DEF IInv

\* The end of an iteration leaves no row in hand.
LEMMA ContinueInv ==
  ASSUME WorkerTypeOK, WorkerInv, NEW w \in Workers, Continue(w), UNCHANGED <<handled, todo>>
  PROVE  WorkerTypeOK' /\ WorkerInv'
<1>1. stage' \in [Workers -> Stages] /\ current' \in [Workers -> Rows \cup {NoRow}]
      /\ error' \in [Workers -> Hashes]
  BY HashExists DEF WorkerTypeOK, Continue, Goto, Stages
<1>2. poison' \in [Workers -> BOOLEAN]
  BY DEF WorkerTypeOK, Continue
<1>3. WorkerInv'
  BY DEF WorkerTypeOK, WorkerInv, Continue, Goto
<1> QED BY <1>1, <1>2, <1>3 DEF WorkerTypeOK

\* A step that writes no row keeps what is said of the rows.
LEMMA RowsKept ==
  ASSUME IInv, UNCHANGED rowVars, handled \subseteq handled'
  PROVE  RowTypeOK' /\ QueuedIsRetriable' /\ ReplayedWasHandled' /\ FreshInv'
  BY DEF IInv, TypeOK, RowTypeOK, QueuedIsRetriable, ReplayedWasHandled, FreshInv, rowVars

\* The steps of processRetries that write no row.
LEMMA LocalInv ==
  ASSUME IInv, NEW w \in Workers,
         \/ NextEntry(w) \/ HandlerReturns(w) \/ CountSameHash(w) \/ StatementFails(w) \/ Abandon(w)
  PROVE  IInv'
<1> USE DEF Goto
<1>0. WorkerTypeOK /\ WorkerInv /\ handled \subseteq Entries /\ faults \in 0..MaxFaults
  BY DEF IInv, TypeOK
<1>1. UNCHANGED <<rowVars, adminCalls, retryReq>> /\ handled \subseteq handled'
  BY DEF NextEntry, HandlerReturns, CountSameHash, StatementFails, Abandon
<1>2. faults' \in 0..MaxFaults
  BY <1>0 DEF NextEntry, HandlerReturns, CountSameHash, StatementFails, Abandon, Fault
<1>3. WorkerTypeOK' /\ WorkerInv' /\ handled' \subseteq Entries
  <2>1. CASE NextEntry(w)
    <3>1. WorkerTypeOK'
      BY <1>0, <2>1 DEF NextEntry, WorkerTypeOK, Stages
    <3>2. WorkerInv'
      BY <1>0, <2>1 DEF NextEntry, WorkerTypeOK, WorkerInv
    <3> QED BY <1>0, <2>1, <3>1, <3>2 DEF NextEntry
  <2>2. CASE HandlerReturns(w)
    <3>1. current[w] \in Rows /\ current[w].id \in Entries
      BY <1>0, <2>2 DEF HandlerReturns, WorkerInv, Rows
    <3>2. handled' \subseteq Entries
      BY <1>0, <2>2, <3>1 DEF HandlerReturns
    <3>3. WorkerTypeOK'
      BY <1>0, <2>2 DEF HandlerReturns, WorkerTypeOK, Stages
    <3>4. WorkerInv'
      BY <1>0, <1>1, <2>2, <3>1 DEF HandlerReturns, WorkerTypeOK, WorkerInv
    <3> QED BY <3>2, <3>3, <3>4
  <2>3. CASE CountSameHash(w)
    <3> DEFINE many == Cardinality({e \in Entries : state[e] \notin {"absent", "resolved"}
                                                      /\ hash[e] = error[w]}) >= PoisonThreshold
    <3>1. /\ poison' = [poison EXCEPT ![w] = many] /\ stage[w] = "failed"
          /\ stage' = [stage EXCEPT ![w] = "counted"] /\ UNCHANGED <<handled, todo, current, error>>
      BY <2>3 DEF CountSameHash
    <3>2. many \in BOOLEAN
      OBVIOUS
    <3> HIDE DEF many
    <3>3. poison' \in [Workers -> BOOLEAN]
      BY <1>0, <3>1, <3>2 DEF WorkerTypeOK
    <3>4. WorkerTypeOK'
      BY <1>0, <3>1, <3>3 DEF WorkerTypeOK, Stages
    <3>5. WorkerInv'
      BY <1>0, <3>1 DEF WorkerTypeOK, WorkerInv
    <3> QED BY <1>0, <3>1, <3>4, <3>5
  <2>4. CASE StatementFails(w)
    <3>1. WorkerTypeOK'
      BY <1>0, <2>4 DEF StatementFails, WorkerTypeOK, Stages
    <3>2. WorkerInv'
      BY <1>0, <2>4 DEF StatementFails, WorkerTypeOK, WorkerInv
    <3> QED BY <1>0, <2>4, <3>1, <3>2 DEF StatementFails
  <2>5. CASE Abandon(w)
    <3>1. stage' \in [Workers -> Stages] /\ current' \in [Workers -> Rows \cup {NoRow}]
          /\ error' \in [Workers -> Hashes] /\ todo' \in [Workers -> SUBSET Rows]
      BY <1>0, <2>5, HashExists DEF Abandon, WorkerTypeOK, Stages
    <3>2. poison' \in [Workers -> BOOLEAN]
      BY <1>0, <2>5 DEF Abandon, WorkerTypeOK
    <3>3. WorkerInv'
      BY <1>0, <2>5 DEF Abandon, WorkerTypeOK, WorkerInv
    <3> QED BY <1>0, <2>5, <3>1, <3>2, <3>3 DEF Abandon, WorkerTypeOK
  <2> QED BY <2>1, <2>2, <2>3, <2>4, <2>5
<1>4. RowTypeOK' /\ QueuedIsRetriable' /\ ReplayedWasHandled' /\ FreshInv'
  BY <1>1, RowsKept
<1> QED BY <1>1, <1>2, <1>3, <1>4 DEF IInv, TypeOK

\* What the statements that write rows keep of the invariant.
RowInv == RowTypeOK /\ QueuedIsRetriable /\ FreshInv

\* Closing a row.
LEMMA ResolveRows ==
  ASSUME RowInv, NEW e \in Entries,
         NEW why \in {"replayed", "contract deleted", "manually resolved"}, Resolve(e, why)
  PROVE  RowInv'
  BY DEF RowInv, RowTypeOK, QueuedIsRetriable, FreshInv, Resolve

\* Requeueing rows gives each a schedule and its attempts back.
LEMMA RequeueRows ==
  ASSUME RowInv, NEW S \in SUBSET Entries, Requeue(S)
  PROVE  RowInv'
<1>1. /\ state' = [e \in Entries |-> IF e \in S THEN "queued" ELSE state[e]]
      /\ attempts' = [e \in Entries |-> IF e \in S THEN 0 ELSE attempts[e]]
      /\ scheduled' = scheduled \cup S /\ due' = due \cup S /\ stale' = stale \ S
      /\ UNCHANGED <<hash, reason>>
  BY DEF Requeue
<1>4. RowTypeOK'
  <2>1. attempts' \in [Entries -> 0..MaxAttempts]
    <3>1. attempts \in [Entries -> 0..MaxAttempts]
      BY DEF RowInv, RowTypeOK
    <3>2. 0 \in 0..MaxAttempts
      OBVIOUS
    <3>3. attempts' = [e \in Entries |-> IF e \in S THEN 0 ELSE attempts[e]]
      BY <1>1
    <3> QED BY <3>1, <3>2, <3>3
  <2>2. state' \in [Entries -> {"absent", "queued", "retrying", "quarantined", "resolved"}]
    BY <1>1 DEF RowInv, RowTypeOK
  <2>3. ASSUME NEW e \in stale' PROVE e \in Entries /\ state'[e] = "retrying"
    BY <1>1 DEF RowInv, RowTypeOK
  <2>4. stale' \subseteq {e \in Entries : state'[e] = "retrying"}
    BY <2>3
  <2>5. scheduled' \subseteq Entries /\ due' \subseteq scheduled'
    BY <1>1 DEF RowInv, RowTypeOK
  <2>6. hash' \in [Entries -> Hashes]
        /\ reason' \in [Entries -> {"none", "replayed", "contract deleted", "manually resolved"}]
    BY <1>1 DEF RowInv, RowTypeOK
  <2> QED BY <2>1, <2>2, <2>4, <2>5, <2>6 DEF RowTypeOK
<1>2. QueuedIsRetriable'
  <2> SUFFICES ASSUME NEW e \in Entries
               PROVE  /\ state'[e] = "queued" => e \in scheduled'
                      /\ state'[e] \in {"queued", "retrying"} => attempts'[e] < MaxAttempts
    BY DEF QueuedIsRetriable
  <2>1. CASE e \in S
    BY <1>1, <2>1
  <2>2. CASE e \notin S
    BY <1>1, <2>2 DEF RowInv, QueuedIsRetriable
  <2> QED BY <2>1, <2>2
<1>3. FreshInv'
  BY DEF RowInv, RowTypeOK, FreshInv, Requeue
<1> QED BY <1>2, <1>3, <1>4 DEF RowInv

\* The outcome of a failed replay.
LEMMA FailureRows ==
  ASSUME RowInv, WorkerTypeOK, WorkerInv, NEW w \in Workers, WriteFailure(w)
  PROVE  RowInv'
<1> DEFINE e == current[w].id
           tries == current[w].tries + 1
           new == nextStateAfterFailure(tries, poison[w])
<1>1. /\ stage[w] = "counted" /\ state' = [state EXCEPT ![e] = new]
      /\ attempts' = [attempts EXCEPT ![e] = tries] /\ hash' = [hash EXCEPT ![e] = error[w]]
      /\ scheduled' = IF new = "queued" THEN scheduled \cup {e} ELSE scheduled \ {e}
      /\ due' = due \ {e} /\ stale' = stale \ {e} /\ reason' = reason
  BY DEF WriteFailure
<1>2. current[w] \in Rows /\ error[w] \in Hashes
  BY <1>1 DEF WorkerInv, WorkerTypeOK
<1>3. e \in Entries /\ tries \in 1..MaxAttempts
  BY <1>2 DEF Rows
<1>4. new \in {"queued", "quarantined"} /\ (new = "queued" => tries < MaxAttempts)
  BY <1>3 DEF nextStateAfterFailure
<1> HIDE DEF e, tries, new
<1>5. RowTypeOK'
  <2>1. attempts' \in [Entries -> 0..MaxAttempts] /\ hash' \in [Entries -> Hashes]
    <3>1. attempts \in [Entries -> 0..MaxAttempts] /\ hash \in [Entries -> Hashes]
      BY DEF RowInv, RowTypeOK
    <3>2. tries \in 0..MaxAttempts
      BY <1>3
    <3>3. attempts' \in [Entries -> 0..MaxAttempts]
      BY <1>1, <3>1, <3>2
    <3>4. hash' \in [Entries -> Hashes]
      BY <1>1, <1>2, <3>1
    <3> QED BY <3>3, <3>4
  <2>2. state' \in [Entries -> {"absent", "queued", "retrying", "quarantined", "resolved"}]
    BY <1>1, <1>3, <1>4 DEF RowInv, RowTypeOK
  <2>3. scheduled' \subseteq Entries /\ due' \subseteq scheduled'
    BY <1>1, <1>3 DEF RowInv, RowTypeOK
  <2>4. ASSUME NEW f \in stale' PROVE f \in Entries /\ state'[f] = "retrying"
    BY <1>1 DEF RowInv, RowTypeOK
  <2> QED BY <1>1, <2>1, <2>2, <2>3, <2>4 DEF RowInv, RowTypeOK
<1>6. QueuedIsRetriable'
  <2> SUFFICES ASSUME NEW f \in Entries
               PROVE  /\ state'[f] = "queued" => f \in scheduled'
                      /\ state'[f] \in {"queued", "retrying"} => attempts'[f] < MaxAttempts
    BY DEF QueuedIsRetriable
  <2>1. CASE f = e
    <3>1. state'[f] = new /\ attempts'[f] = tries
      BY <1>1, <1>3, <2>1 DEF RowInv, RowTypeOK
    <3> QED BY <1>1, <1>4, <2>1, <3>1
  <2>2. CASE f # e
    <3>1. state'[f] = state[f] /\ attempts'[f] = attempts[f]
      BY <1>1, <1>3, <2>2 DEF RowInv, RowTypeOK
    <3> QED BY <1>1, <2>2, <3>1 DEF RowInv, QueuedIsRetriable
  <2> QED BY <2>1, <2>2
<1>7. FreshInv'
  BY <1>1, <1>3, <1>4 DEF RowInv, RowTypeOK, FreshInv
<1> QED BY <1>5, <1>6, <1>7 DEF RowInv

\* Quarantining a group takes its rows off the schedule.
LEMMA GroupRows ==
  ASSUME RowInv, NEW w \in Workers, QuarantineGroup(w)
  PROVE  RowInv'
<1> DEFINE group == {e \in Entries \ {current[w].id} :
                       hash[e] = error[w] /\ state[e] \in {"queued", "retrying"}}
<1>1. /\ state' = [e \in Entries |-> IF e \in group THEN "quarantined" ELSE state[e]]
      /\ scheduled' = scheduled \ group /\ due' = due \ group /\ stale' = stale \ group
      /\ UNCHANGED <<attempts, hash, reason>>
  BY DEF QuarantineGroup
<1> HIDE DEF group
<1>2. RowTypeOK'
  <2>1. state' \in [Entries -> {"absent", "queued", "retrying", "quarantined", "resolved"}]
    BY <1>1 DEF RowInv, RowTypeOK
  <2>2. ASSUME NEW e \in stale' PROVE e \in Entries /\ state'[e] = "retrying"
    BY <1>1 DEF RowInv, RowTypeOK
  <2>3. scheduled' \subseteq Entries /\ due' \subseteq scheduled'
    BY <1>1 DEF RowInv, RowTypeOK
  <2> QED BY <1>1, <2>1, <2>2, <2>3 DEF RowInv, RowTypeOK
<1>3. QueuedIsRetriable'
  BY <1>1 DEF RowInv, QueuedIsRetriable
<1>4. FreshInv'
  BY <1>1 DEF RowInv, FreshInv
<1> QED BY <1>2, <1>3, <1>4 DEF RowInv

\* The steps of processRetries that write rows.
LEMMA WriteInv ==
  ASSUME IInv, NEW w \in Workers, markResolved(w) \/ WriteFailure(w) \/ QuarantineGroup(w)
  PROVE  IInv'
<1>0. RowInv /\ WorkerTypeOK /\ WorkerInv /\ ReplayedWasHandled
  BY DEF IInv, TypeOK, RowInv
<1>1. UNCHANGED <<handled, todo, retryReq, faults, adminCalls>>
  BY DEF markResolved, WriteFailure, QuarantineGroup
<1>2. CASE markResolved(w)
  <2>1. current[w] \in Rows /\ current[w].id \in Entries
    BY <1>0, <1>2 DEF markResolved, WorkerInv, Rows
  <2>2. RowInv'
    BY <1>0, <1>2, <2>1, ResolveRows DEF markResolved
  <2>3. WorkerTypeOK' /\ WorkerInv'
    BY <1>0, <1>1, <1>2, ContinueInv DEF markResolved
  <2>4. stage[w] = "succeeded" => current[w].id \in handled
    BY <1>0 DEF WorkerInv
  <2>5. ReplayedWasHandled'
    <3>1. CASE stage[w] = "succeeded"
      <4>1. reason' = [reason EXCEPT ![current[w].id] = "replayed"]
        BY <1>2, <3>1 DEF markResolved, Resolve
      <4> QED BY <1>0, <1>1, <2>4, <3>1, <4>1 DEF ReplayedWasHandled, RowInv, RowTypeOK
    <3>2. CASE stage[w] = "gone"
      <4>1. reason' = [reason EXCEPT ![current[w].id] = "contract deleted"]
        BY <1>2, <3>2 DEF markResolved, Resolve
      <4> QED BY <1>0, <1>1, <4>1 DEF ReplayedWasHandled, RowInv, RowTypeOK
    <3> QED BY <1>2, <3>1, <3>2 DEF markResolved
  <2> QED BY <1>1, <2>2, <2>3, <2>5 DEF IInv, TypeOK, RowInv
<1>3. CASE WriteFailure(w)
  <2>1. RowInv'
    BY <1>0, <1>3, FailureRows
  <2>2. WorkerTypeOK' /\ WorkerInv'
    <3>1. CASE Continue(w)
      BY <1>0, <1>1, <3>1, ContinueInv
    <3>2. CASE Goto(w, "grouping") /\ UNCHANGED <<current, error, poison>>
      <4>1. stage[w] = "counted" /\ stage' = [stage EXCEPT ![w] = "grouping"]
        BY <1>3, <3>2 DEF WriteFailure, Goto
      <4>2. WorkerTypeOK'
        BY <1>0, <1>1, <3>2, <4>1 DEF WorkerTypeOK, Stages
      <4>3. WorkerInv'
        BY <1>0, <1>1, <3>2, <4>1 DEF WorkerTypeOK, WorkerInv
      <4> QED BY <4>2, <4>3
    <3> QED BY <1>3, <3>1, <3>2 DEF WriteFailure
  <2>3. ReplayedWasHandled'
    BY <1>0, <1>1, <1>3 DEF WriteFailure, ReplayedWasHandled
  <2> QED BY <1>1, <2>1, <2>2, <2>3 DEF IInv, TypeOK, RowInv
<1>4. CASE QuarantineGroup(w)
  <2>1. RowInv'
    BY <1>0, <1>4, GroupRows
  <2>2. WorkerTypeOK' /\ WorkerInv'
    BY <1>0, <1>1, <1>4, ContinueInv DEF QuarantineGroup
  <2>3. ReplayedWasHandled'
    BY <1>0, <1>1, <1>4 DEF QuarantineGroup, ReplayedWasHandled
  <2> QED BY <1>1, <2>1, <2>2, <2>3 DEF IInv, TypeOK, RowInv
<1> QED BY <1>2, <1>3, <1>4

\* The admin routes.
LEMMA AdminInv ==
  ASSUME IInv,
         \/ \E e \in Entries : RetryCheck(e) \/ RetryWrite(e) \/ resolve(e)
         \/ \E h \in Hashes : requeueByErrorClass(h)
  PROVE  IInv'
<1>0. RowInv /\ WorkerTypeOK /\ WorkerInv /\ ReplayedWasHandled /\ retryReq \subseteq Entries
      /\ adminCalls \in 0..MaxAdmin
  BY DEF IInv, TypeOK, RowInv
<1>1. UNCHANGED <<handled, workerVars, faults>>
  BY DEF RetryCheck, RetryWrite, resolve, requeueByErrorClass
<1>2. WorkerTypeOK' /\ WorkerInv'
  BY <1>0, <1>1 DEF workerVars, WorkerTypeOK, WorkerInv
<1>3. retryReq' \subseteq Entries /\ adminCalls' \in 0..MaxAdmin
  <2>1. AdminCall \/ adminCalls' = adminCalls
    BY DEF RetryCheck, RetryWrite, resolve, requeueByErrorClass
  <2>2. adminCalls' \in 0..MaxAdmin
    BY <1>0, <2>1 DEF AdminCall
  <2>3. \/ \E e \in Entries : retryReq' = retryReq \cup {e} \/ retryReq' = retryReq \ {e}
        \/ retryReq' = retryReq
    BY DEF RetryCheck, RetryWrite, resolve, requeueByErrorClass
  <2> QED BY <1>0, <2>2, <2>3
<1>4. RowInv' /\ ReplayedWasHandled'
  <2>1. ASSUME NEW e \in Entries, RetryCheck(e) PROVE RowInv' /\ ReplayedWasHandled'
    BY <1>0, <1>1, <2>1, RowsKept DEF RetryCheck, RowInv
  <2>2. ASSUME NEW S \in SUBSET Entries, Requeue(S) PROVE RowInv' /\ ReplayedWasHandled'
    <3>1. ReplayedWasHandled'
      BY <1>0, <1>1, <2>2 DEF Requeue, ReplayedWasHandled
    <3> QED BY <1>0, <2>2, <3>1, RequeueRows
  <2>3. ASSUME NEW e \in Entries, resolve(e) PROVE RowInv' /\ ReplayedWasHandled'
    <3>1. Resolve(e, "manually resolved")
      BY <2>3 DEF resolve
    <3>2. reason' = [reason EXCEPT ![e] = "manually resolved"]
      BY <3>1 DEF Resolve
    <3>3. ReplayedWasHandled'
      BY <1>0, <1>1, <3>2 DEF ReplayedWasHandled, RowInv, RowTypeOK
    <3> QED BY <1>0, <3>1, <3>3, ResolveRows
  <2>4. ASSUME NEW e \in Entries, RetryWrite(e) PROVE RowInv' /\ ReplayedWasHandled'
    BY <2>2, <2>4 DEF RetryWrite
  <2>5. ASSUME NEW h \in Hashes, requeueByErrorClass(h) PROVE RowInv' /\ ReplayedWasHandled'
    BY <2>2, <2>5 DEF requeueByErrorClass
  <2> QED BY <2>1, <2>3, <2>4, <2>5
<1> QED BY <1>1, <1>2, <1>3, <1>4 DEF IInv, TypeOK, RowInv

\* The invariant holds in every reachable state.
LEMMA Inductive == Spec => []IInv
<1>1. ASSUME IInv, [Next]_vars PROVE IInv'
  <2>1. CASE UNCHANGED vars
    <3>1. UNCHANGED <<rowVars, handled, workerVars, retryReq, faults, adminCalls>>
      BY <2>1 DEF vars
    <3>2. RowTypeOK' /\ QueuedIsRetriable' /\ ReplayedWasHandled' /\ FreshInv'
      BY <1>1, <3>1, RowsKept
    <3>3. WorkerTypeOK' /\ WorkerInv'
      BY <1>1, <3>1 DEF IInv, TypeOK, WorkerTypeOK, WorkerInv, workerVars
    <3> QED BY <1>1, <3>1, <3>2, <3>3 DEF IInv, TypeOK
  <2>2. CASE Next
    BY <1>1, <2>2, EntryInv, ClaimInv, LocalInv, WriteInv, AdminInv DEF Next, WorkerStep
  <2> QED BY <1>1, <2>1, <2>2
<1> QED BY <1>1, InitInv, PTL DEF Spec

\* Rows, claims and requests keep their types: in particular no row ever counts
\* more than DLQ_MAX_ATTEMPTS attempts.
THEOREM TypeCorrect == Spec => []TypeOK
<1>1. IInv => TypeOK BY DEF IInv
<1> QED BY <1>1, Inductive, PTL

\* A queued entry is scheduled and has attempts left, for any number of overlapping
\* processors and admin calls.
THEOREM Retriable == Spec => []QueuedIsRetriable
<1>1. IInv => QueuedIsRetriable BY DEF IInv
<1> QED BY <1>1, Inductive, PTL

\* An entry closed as replayed went through its handler.
THEOREM NoneLost == Spec => []ReplayedWasHandled
<1>1. IInv => ReplayedWasHandled BY DEF IInv
<1> QED BY <1>1, Inductive, PTL
=============================================================================
