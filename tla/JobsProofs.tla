----------------------------- MODULE JobsProofs -----------------------------
(***************************************************************************)
(* Proofs about three queues whose workers overlap without holding a lock  *)
(* while they work, Delivery, for any rows, subscriptions, relays and      *)
(* failures, JobQueue, for any jobs, ticks and faults, and QueryJobs, for  *)
(* any jobs, runners and faults; about the partitions of AuditRetention,   *)
(* over a calendar of any length; and about AuditLog, for any entries,     *)
(* overlapping flushes, batch size and outages.                            *)
(***************************************************************************)
EXTENDS MCJobs, FoldLemmas, SequenceTheorems, FunctionTheorems

-----------------------------------------------------------------------------
(* Delivery *)

\* What a relay that delivers has promised is settled, lost to a failed statement, or in flight.
Underway(w, s) ==
    \/ <<relay[w].row, s>> \in settled \cup undelivered
    \/ \E a \in attempts : a.by = w /\ a.row = relay[w].row /\ a.sub = s

Promises ==
    \A w \in Relays : relay[w].at = "delivering" =>
        relay[w].row \in OutboxRows /\ \A s \in relay[w].to : Underway(w, s)

\* Only a relay's attempts go to the dead letter queue, and they carry a row.
AttemptsSane ==
    \A a \in attempts : /\ a.by \in Relays => a.row \in OutboxRows
                        /\ a.at = "recorded" => a.by \in Relays

DeliveryInv ==
    /\ DeliveryTypeOK /\ Promises /\ AttemptsSane /\ NothingForgotten /\ BreakerHolds
    /\ IsFiniteSet(undelivered)

LEMMA DeliveryInitHolds == DeliveryInit => DeliveryInv
  BY DeliveryAssumption, FS_EmptySet DEF DeliveryInit, DeliveryInv, DeliveryTypeOK, Promises, AttemptsSane,
     NothingForgotten, BreakerHolds, Idle, NoRow, Attempts

LEMMA FaultType ==
  ASSUME DeliveryTypeOK, RelayFault PROVE relayFaults' \in 0..MaxRelayFaults
  BY DeliveryAssumption DEF DeliveryTypeOK, RelayFault

LEMMA UserCallType ==
  ASSUME DeliveryTypeOK, UserCall PROVE userCalls' \in 0..MaxUserCalls
  BY DeliveryAssumption DEF DeliveryTypeOK, UserCall

\* Steps of the lock and of the queue touch no delivery.
LEMMA RowStepKeeps ==
  ASSUME DeliveryInv, NEW r \in OutboxRows, enqueueOutbox(r) \/ LockExpires(r)
  PROVE  DeliveryInv'
<1>1. UNCHANGED <<active, failures, relay, relayFaults, attempts, parked, promised, settled, undelivered, userCalls>>
  BY DEF enqueueOutbox, LockExpires, relayVars
<1>2. /\ outbox' \in [OutboxRows -> {"absent", "pending", "dispatched"}]
      /\ lock' \in [OutboxRows -> {"free", "held", "expired"}]
  BY DEF enqueueOutbox, LockExpires, DeliveryInv, DeliveryTypeOK
<1> QED BY <1>1, <1>2 DEF DeliveryInv, DeliveryTypeOK, Promises, Underway, AttemptsSane,
           NothingForgotten, BreakerHolds

\* A relay that is not delivering afterwards has nothing to keep.
LEMMA RelayReleased ==
  ASSUME DeliveryInv, NEW w \in Relays, NEW place,
         relay' = [relay EXCEPT ![w] = place], place.at # "delivering",
         UNCHANGED <<settled, undelivered>>, \A a \in attempts : a \in attempts' \/ a.by = w
  PROVE  Promises'
<1>1. \A v \in Relays : relay'[v] = IF v = w THEN place ELSE relay[v]
  BY DEF DeliveryInv, DeliveryTypeOK
<1> SUFFICES ASSUME NEW v \in Relays, relay'[v].at = "delivering"
             PROVE  relay'[v].row \in OutboxRows /\ \A s \in relay'[v].to : Underway(v, s)'
  BY DEF Promises
<1>2. v # w /\ relay'[v] = relay[v]
  BY <1>1
<1>3. relay[v].row \in OutboxRows /\ \A s \in relay[v].to : Underway(v, s)
  BY <1>2 DEF DeliveryInv, Promises
<1> QED BY <1>2, <1>3 DEF Underway

LEMMA ClaimKeeps ==
  ASSUME DeliveryInv, NEW w \in Relays, claimOutbox(w) PROVE DeliveryInv'
<1>1. UNCHANGED <<outbox, active, failures, attempts, parked, promised, settled, undelivered, relayFaults, userCalls>>
  BY DEF claimOutbox
<1>2. PICK batch \in SUBSET ClaimableRows :
        /\ lock' = [r \in OutboxRows |-> IF r \in batch THEN "held" ELSE lock[r]]
        /\ relay' = [relay EXCEPT ![w] = [Idle EXCEPT !.at = "next", !.todo = batch]]
  BY DEF claimOutbox
<1>3. DeliveryTypeOK'
  <2>1. batch \in SUBSET OutboxRows
    BY DEF ClaimableRows
  <2>2. [Idle EXCEPT !.at = "next", !.todo = batch]
          \in [at : {"idle", "next", "delivering"}, todo : SUBSET OutboxRows,
               row : OutboxRows \cup {NoRow}, to : SUBSET Subs]
    BY <2>1 DEF Idle
  <2> QED BY <1>1, <1>2, <2>2 DEF DeliveryInv, DeliveryTypeOK
<1>4. Promises'
  <2>1. [Idle EXCEPT !.at = "next", !.todo = batch].at # "delivering"
    BY DEF Idle
  <2> QED BY <1>1, <1>2, <2>1, RelayReleased
<1> QED BY <1>1, <1>3, <1>4 DEF DeliveryInv, AttemptsSane, NothingForgotten, BreakerHolds

LEMMA DispatchKeeps ==
  ASSUME DeliveryInv, NEW w \in Relays, dispatchOutboxRow(w) PROVE DeliveryInv'
<1>1. UNCHANGED <<outbox, lock, active, failures, parked, promised, settled, undelivered, relayFaults, userCalls>>
  BY DEF dispatchOutboxRow
<1> DEFINE matching == {s \in Subs : active[s]}
<1>2. PICK r \in relay[w].todo :
        /\ attempts' = attempts \cup {Attempt(w, r, s) : s \in matching}
        /\ relay' = [relay EXCEPT ![w] = [at |-> "delivering", todo |-> relay[w].todo \ {r},
                                          row |-> r, to |-> matching]]
  BY DEF dispatchOutboxRow
<1>3. r \in OutboxRows /\ relay[w].todo \in SUBSET OutboxRows
  BY DEF DeliveryInv, DeliveryTypeOK
<1>4. \A s \in matching : /\ Attempt(w, r, s) \in Attempts
                          /\ Attempt(w, r, s).by = w /\ Attempt(w, r, s).row = r
                          /\ Attempt(w, r, s).sub = s /\ Attempt(w, r, s).at = "sending"
  BY <1>3 DEF Attempt, Attempts
<1>5. DeliveryTypeOK'
  BY <1>1, <1>2, <1>3, <1>4 DEF DeliveryInv, DeliveryTypeOK
<1>6. AttemptsSane'
  BY <1>2, <1>3, <1>4 DEF DeliveryInv, AttemptsSane
<1>7. Promises'
  <2> SUFFICES ASSUME NEW v \in Relays, relay'[v].at = "delivering"
               PROVE  relay'[v].row \in OutboxRows /\ \A s \in relay'[v].to : Underway(v, s)'
    BY DEF Promises
  <2>1. CASE v = w
    <3>1. relay'[w].row = r /\ relay'[w].to = matching
      BY <1>2 DEF DeliveryInv, DeliveryTypeOK
    <3>2. \A s \in matching : Attempt(w, r, s) \in attempts'
      BY <1>2
    <3> QED BY <2>1, <3>1, <3>2, <1>3, <1>4 DEF Underway
  <2>2. CASE v # w
    <3>1. relay'[v] = relay[v]
      BY <1>2, <2>2 DEF DeliveryInv, DeliveryTypeOK
    <3>2. relay[v].row \in OutboxRows /\ \A s \in relay[v].to : Underway(v, s)
      BY <3>1 DEF DeliveryInv, Promises
    <3> QED BY <1>1, <1>2, <3>1, <3>2 DEF Underway
  <2> QED BY <2>1, <2>2
<1> QED BY <1>1, <1>5, <1>6, <1>7 DEF DeliveryInv, NothingForgotten, BreakerHolds

\* The place a relay has after an iteration.
LEMMA NextRowPlace ==
  ASSUME DeliveryInv, NEW w \in Relays, NextRow(w)
  PROVE  \E place \in [at : {"idle", "next", "delivering"}, todo : SUBSET OutboxRows,
                       row : OutboxRows \cup {NoRow}, to : SUBSET Subs] :
            relay' = [relay EXCEPT ![w] = place] /\ place.at = "next"
<1> DEFINE place == [relay[w] EXCEPT !.at = "next", !.row = NoRow, !.to = {}]
<1>1. relay[w] \in [at : {"idle", "next", "delivering"}, todo : SUBSET OutboxRows,
                    row : OutboxRows \cup {NoRow}, to : SUBSET Subs]
  BY DEF DeliveryInv, DeliveryTypeOK
<1>2. place \in [at : {"idle", "next", "delivering"}, todo : SUBSET OutboxRows,
                 row : OutboxRows \cup {NoRow}, to : SUBSET Subs] /\ place.at = "next"
  BY <1>1
<1>3. relay' = [relay EXCEPT ![w] = place]
  BY DEF NextRow, DeliveryInv, DeliveryTypeOK
<1> QED BY <1>2, <1>3

LEMMA MarkKeeps ==
  ASSUME DeliveryInv, NEW w \in Relays, MarkDispatched(w) PROVE DeliveryInv'
<1>1. /\ UNCHANGED <<active, failures, attempts, parked, settled, undelivered, relayFaults, userCalls>>
      /\ relay[w].at = "delivering" /\ InFlight(w) = {} /\ NextRow(w)
      /\ promised' = promised \cup ({relay[w].row} \X relay[w].to)
  BY DEF MarkDispatched
<1>2. relay[w].row \in OutboxRows /\ relay[w].to \in SUBSET Subs /\ \A s \in relay[w].to : Underway(w, s)
  BY <1>1 DEF DeliveryInv, DeliveryTypeOK, Promises
<1>3. \A s \in relay[w].to : <<relay[w].row, s>> \in settled \cup undelivered
  BY <1>1, <1>2 DEF Underway, InFlight
<1>4. NothingForgotten'
  BY <1>1, <1>3 DEF DeliveryInv, NothingForgotten
<1>5. PICK place \in [at : {"idle", "next", "delivering"}, todo : SUBSET OutboxRows,
                      row : OutboxRows \cup {NoRow}, to : SUBSET Subs] :
        relay' = [relay EXCEPT ![w] = place] /\ place.at = "next"
  BY <1>1, NextRowPlace
<1>6. DeliveryTypeOK'
  <2>1. outbox' \in [OutboxRows -> {"absent", "pending", "dispatched"}]
    BY DEF MarkDispatched, DeliveryInv, DeliveryTypeOK
  <2>2. lock' \in [OutboxRows -> {"free", "held", "expired"}]
    BY DEF MarkDispatched, DeliveryInv, DeliveryTypeOK
  <2>3. promised' \subseteq OutboxRows \X Subs
    BY <1>1, <1>2 DEF DeliveryInv, DeliveryTypeOK
  <2> QED BY <1>1, <1>5, <2>1, <2>2, <2>3 DEF DeliveryInv, DeliveryTypeOK
<1>7. Promises'
  BY <1>1, <1>5, RelayReleased
<1> QED BY <1>1, <1>4, <1>6, <1>7 DEF DeliveryInv, AttemptsSane, BreakerHolds

\* A relay that fails, returns or dies.
LEMMA RelayEndsKeeps ==
  ASSUME DeliveryInv, NEW w \in Relays,
         PublishThrows(w) \/ DispatchFails(w) \/ MarkFails(w) \/ RelayReturns(w) \/ RelayCrash(w)
  PROVE  DeliveryInv'
<1>1. /\ UNCHANGED <<outbox, lock, active, failures, parked, promised, settled, undelivered, userCalls>>
      /\ attempts' \subseteq attempts /\ \A a \in attempts : a \in attempts' \/ a.by = w
  BY DEF PublishThrows, DispatchFails, MarkFails, RelayReturns, RelayCrash, InFlight
<1>2. relayFaults' \in 0..MaxRelayFaults /\ relayFaults <= relayFaults'
  <2>1. relayFaults' = relayFaults \/ RelayFault
    BY Zenon DEF PublishThrows, DispatchFails, MarkFails, RelayReturns, RelayCrash
  <2> QED BY <2>1, FaultType DEF DeliveryInv, DeliveryTypeOK, RelayFault
<1>3. \E place \in [at : {"idle", "next", "delivering"}, todo : SUBSET OutboxRows,
                    row : OutboxRows \cup {NoRow}, to : SUBSET Subs] :
         relay' = [relay EXCEPT ![w] = place] /\ place.at # "delivering"
  <2> DEFINE Positions == [at : {"idle", "next", "delivering"}, todo : SUBSET OutboxRows,
                        row : OutboxRows \cup {NoRow}, to : SUBSET Subs]
  <2>1. relay[w] \in Positions
    BY DEF DeliveryInv, DeliveryTypeOK
  <2>2. CASE SkipRow(w)
    <3>1. PICK r \in relay[w].todo : relay' = [relay EXCEPT ![w].todo = relay[w].todo \ {r}]
      BY <2>2 DEF SkipRow
    <3>2. [relay[w] EXCEPT !.todo = relay[w].todo \ {r}] \in Positions
      BY <2>1
    <3>3. relay' = [relay EXCEPT ![w] = [relay[w] EXCEPT !.todo = relay[w].todo \ {r}]]
      BY <3>1 DEF DeliveryInv, DeliveryTypeOK
    <3>4. [relay[w] EXCEPT !.todo = relay[w].todo \ {r}].at # "delivering"
      BY <2>1, <2>2 DEF SkipRow
    <3> QED BY <3>2, <3>3, <3>4
  <2>3. CASE MarkFails(w)
    <3>1. NextRow(w)
      BY <2>3 DEF MarkFails
    <3> QED BY <3>1, NextRowPlace
  <2>4. CASE relay' = [relay EXCEPT ![w] = Idle]
    <3>1. Idle \in Positions /\ Idle.at # "delivering"
      BY DEF Idle
    <3> QED BY <2>4, <3>1
  <2> QED BY <2>2, <2>3, <2>4 DEF PublishThrows, DispatchFails, RelayReturns, RelayCrash
<1>4. PICK place \in [at : {"idle", "next", "delivering"}, todo : SUBSET OutboxRows,
                      row : OutboxRows \cup {NoRow}, to : SUBSET Subs] :
        relay' = [relay EXCEPT ![w] = place] /\ place.at # "delivering"
  BY <1>3
<1>5. Promises'
  BY <1>1, <1>4, RelayReleased
<1>6. DeliveryTypeOK'
  BY <1>1, <1>2, <1>4 DEF DeliveryInv, DeliveryTypeOK
<1>7. NothingForgotten'
  BY <1>1, <1>2, FS_CardinalityType DEF DeliveryInv, DeliveryTypeOK, NothingForgotten
<1> QED BY <1>1, <1>5, <1>6, <1>7 DEF DeliveryInv, AttemptsSane, BreakerHolds

\* A step that keeps what every relay has set out to do.
LEMMA PromisesKept ==
  ASSUME Promises, relay' = relay, settled \subseteq settled', undelivered \subseteq undelivered',
         \A a \in attempts : \/ <<a.row, a.sub>> \in settled' \cup undelivered'
                             \/ a.by \notin Relays
                             \/ \E b \in attempts' : b.by = a.by /\ b.row = a.row /\ b.sub = a.sub
  PROVE  Promises'
<1> SUFFICES ASSUME NEW w \in Relays, relay'[w].at = "delivering", NEW s \in relay'[w].to
             PROVE  relay'[w].row \in OutboxRows /\ Underway(w, s)'
  BY DEF Promises
<1>1. relay[w].row \in OutboxRows /\ Underway(w, s)
  BY DEF Promises
<1> QED BY <1>1 DEF Underway

\* An attempt that has moved is the same delivery.
LEMMA MovedAttempt ==
  ASSUME DeliveryTypeOK, AttemptsSane, NEW a \in attempts,
         NEW place \in {"sent", "failed", "recorded"},
         place = "recorded" => a.by \in Relays,
         attempts' = Moved(a, place), UNCHANGED <<relay, settled, undelivered>>, Promises
  PROVE  attempts' \subseteq Attempts /\ AttemptsSane' /\ Promises'
<1> DEFINE moved == [a EXCEPT !.at = place]
<1>1. a \in Attempts
  BY DEF DeliveryTypeOK
<1>2. moved \in Attempts /\ moved.by = a.by /\ moved.row = a.row /\ moved.sub = a.sub /\ moved.at = place
  BY <1>1 DEF Attempts
<1>3. attempts' = (attempts \ {a}) \cup {moved}
  BY DEF Moved
<1>4. attempts' \subseteq Attempts
  BY <1>2, <1>3 DEF DeliveryTypeOK
<1>5. AttemptsSane'
  BY <1>2, <1>3 DEF AttemptsSane
<1>6. Promises'
  BY <1>2, <1>3, PromisesKept
<1> QED BY <1>4, <1>5, <1>6

\* An attempt that ends with its delivery settled.
LEMMA EndedAttempt ==
  ASSUME DeliveryTypeOK, AttemptsSane, Promises, NothingForgotten, NEW a \in attempts,
         attempts' = attempts \ {a}, settled' = settled \cup {<<a.row, a.sub>>},
         UNCHANGED <<relay, promised, undelivered, relayFaults>>
  PROVE  /\ attempts' \subseteq Attempts /\ settled' \subseteq (OutboxRows \cup {NoRow}) \X Subs
         /\ AttemptsSane' /\ Promises' /\ NothingForgotten'
<1>1. a.row \in OutboxRows \cup {NoRow} /\ a.sub \in Subs
  BY DEF DeliveryTypeOK, Attempts
<1>2. Promises'
  BY PromisesKept
<1> QED BY <1>1, <1>2 DEF DeliveryTypeOK, AttemptsSane, NothingForgotten

LEMMA SendKeeps ==
  ASSUME DeliveryInv, NEW a \in attempts, sendOnce(a) PROVE DeliveryInv'
<1>1. UNCHANGED <<outbox, lock, active, failures, relay, relayFaults, parked, promised, settled, undelivered, userCalls>>
  BY DEF sendOnce, relayVars
<1>2. PICK place \in {"sent", "failed"} : attempts' = Moved(a, place)
  BY Zenon DEF sendOnce
<1>3. attempts' \subseteq Attempts /\ AttemptsSane' /\ Promises'
  BY <1>1, <1>2, MovedAttempt DEF DeliveryInv
<1> QED BY <1>1, <1>3 DEF DeliveryInv, DeliveryTypeOK, NothingForgotten, BreakerHolds

LEMMA SuccessKeeps ==
  ASSUME DeliveryInv, NEW a \in attempts, recordSuccess(a) PROVE DeliveryInv'
<1>1. /\ UNCHANGED <<outbox, lock, active, relay, relayFaults, promised, undelivered, userCalls>>
      /\ attempts' = attempts \ {a} /\ settled' = settled \cup {<<a.row, a.sub>>}
      /\ failures' = [failures EXCEPT ![a.sub] = 0] /\ parked' \subseteq parked
  BY DEF recordSuccess, relayVars
<1>2. /\ attempts' \subseteq Attempts /\ settled' \subseteq (OutboxRows \cup {NoRow}) \X Subs
      /\ AttemptsSane' /\ Promises' /\ NothingForgotten'
  BY <1>1, EndedAttempt DEF DeliveryInv
<1>3. failures' \in [Subs -> Nat]
  BY <1>1 DEF DeliveryInv, DeliveryTypeOK
<1>4. BreakerHolds'
  BY <1>1, DeliveryAssumption DEF DeliveryInv, DeliveryTypeOK, BreakerHolds
<1> QED BY <1>1, <1>2, <1>3, <1>4 DEF DeliveryInv, DeliveryTypeOK

LEMMA FailureKeeps ==
  ASSUME DeliveryInv, NEW a \in attempts, recordFailed(a) PROVE DeliveryInv'
<1>1. /\ UNCHANGED <<outbox, lock, relay, relayFaults, parked, promised, settled, undelivered, userCalls>>
      /\ CountFailure(a.sub)
  BY DEF recordFailed, relayVars
<1>2. a.sub \in Subs
  BY DEF DeliveryInv, DeliveryTypeOK, Attempts
<1>3. attempts' \subseteq Attempts /\ AttemptsSane' /\ Promises'
  <2>1. CASE a.by \in Relays
    BY <1>1, <2>1, MovedAttempt DEF recordFailed, DeliveryInv
  <2>2. CASE a.by \notin Relays
    <3>1. attempts' = attempts \ {a}
      BY <2>2 DEF recordFailed
    <3>2. Promises'
      BY <1>1, <2>2, <3>1, PromisesKept DEF DeliveryInv
    <3> QED BY <3>1, <3>2 DEF DeliveryInv, DeliveryTypeOK, AttemptsSane
  <2> QED BY <2>1, <2>2
<1>4. failures' = [failures EXCEPT ![a.sub] = failures[a.sub] + 1]
  BY <1>1 DEF CountFailure
<1>5. active' = [active EXCEPT ![a.sub] = failures[a.sub] + 1 < MaxFailures]
  BY <1>1 DEF CountFailure
<1>6. failures' \in [Subs -> Nat]
  BY <1>2, <1>4 DEF DeliveryInv, DeliveryTypeOK
<1>7. active' \in [Subs -> BOOLEAN]
  <2>1. active \in [Subs -> BOOLEAN] /\ (failures[a.sub] + 1 < MaxFailures) \in BOOLEAN
    BY DEF DeliveryInv, DeliveryTypeOK
  <2> QED BY <1>5, <2>1, Zenon
<1>8. BreakerHolds'
  <2> SUFFICES ASSUME NEW s \in Subs, active'[s] PROVE failures'[s] < MaxFailures
    BY DEF BreakerHolds
  <2>1. CASE s = a.sub
    <3>1. failures[a.sub] + 1 < MaxFailures
      BY <1>2, <1>5, <2>1, Zenon DEF DeliveryInv, DeliveryTypeOK
    <3> QED BY <1>4, <2>1, <3>1 DEF DeliveryInv, DeliveryTypeOK
  <2>2. CASE s # a.sub
    <3>1. active[s]
      BY <1>5, <2>2, Zenon DEF DeliveryInv, DeliveryTypeOK
    <3> QED BY <1>4, <2>2, <3>1 DEF DeliveryInv, DeliveryTypeOK, BreakerHolds
  <2> QED BY <2>1, <2>2
<1> QED BY <1>1, <1>3, <1>6, <1>7, <1>8 DEF DeliveryInv, DeliveryTypeOK, NothingForgotten

\* A parked delivery always has a row: only a relay's attempt is parked.
LEMMA EnqueueKeeps ==
  ASSUME DeliveryInv, NEW a \in attempts, dlqEnqueue(a) PROVE DeliveryInv'
<1>1. /\ UNCHANGED <<outbox, lock, active, failures, relay, relayFaults, promised, undelivered, userCalls>>
      /\ attempts' = attempts \ {a} /\ settled' = settled \cup {<<a.row, a.sub>>}
      /\ parked' = parked \cup {<<a.row, a.sub>>} /\ a.at = "recorded"
  BY DEF dlqEnqueue, relayVars
<1>2. /\ attempts' \subseteq Attempts /\ settled' \subseteq (OutboxRows \cup {NoRow}) \X Subs
      /\ AttemptsSane' /\ Promises' /\ NothingForgotten'
  BY <1>1, EndedAttempt DEF DeliveryInv
<1>3. a.row \in OutboxRows /\ a.sub \in Subs
  BY <1>1 DEF DeliveryInv, DeliveryTypeOK, AttemptsSane, Attempts
<1> QED BY <1>1, <1>2, <1>3 DEF DeliveryInv, DeliveryTypeOK, BreakerHolds

LEMMA StatementFailsKeeps ==
  ASSUME DeliveryInv, NEW a \in attempts, AttemptStatementFails(a) PROVE DeliveryInv'
<1>1. /\ UNCHANGED <<outbox, lock, active, failures, relay, parked, promised, userCalls>>
      /\ attempts' = attempts \ {a} /\ RelayFault
  BY DEF AttemptStatementFails
<1>2. \/ /\ settled' = settled \cup {<<a.row, a.sub>>} /\ undelivered' = undelivered
      \/ /\ settled' = settled /\ a.by \in Relays
         /\ undelivered' = undelivered \cup {<<a.row, a.sub>>}
      \/ UNCHANGED <<settled, undelivered>> /\ a.by \notin Relays
  BY Zenon DEF AttemptStatementFails
<1>3. /\ relayFaults' \in 0..MaxRelayFaults /\ relayFaults' = relayFaults + 1
      /\ relayFaults \in Nat
  BY <1>1, FaultType DEF DeliveryInv, DeliveryTypeOK, RelayFault
<1>4. a \in Attempts /\ (a.by \in Relays => a.row \in OutboxRows)
  BY DEF DeliveryInv, DeliveryTypeOK, AttemptsSane
<1>5. attempts' \subseteq Attempts /\ AttemptsSane'
  BY <1>1 DEF DeliveryInv, DeliveryTypeOK, AttemptsSane
<1>6. /\ settled' \subseteq (OutboxRows \cup {NoRow}) \X Subs
      /\ undelivered' \subseteq OutboxRows \X Subs
  BY <1>2, <1>4 DEF DeliveryInv, DeliveryTypeOK, Attempts
<1>7. Promises'
  BY <1>1, <1>2, PromisesKept DEF DeliveryInv
<1>8. IsFiniteSet(undelivered') /\ Cardinality(undelivered') <= relayFaults'
  <2>1. /\ IsFiniteSet(undelivered) /\ Cardinality(undelivered) \in Nat
        /\ Cardinality(undelivered) <= relayFaults
    BY FS_CardinalityType DEF DeliveryInv, NothingForgotten
  <2>2. /\ IsFiniteSet(undelivered \cup {<<a.row, a.sub>>})
        /\ Cardinality(undelivered \cup {<<a.row, a.sub>>}) \in {Cardinality(undelivered), Cardinality(undelivered) + 1}
    BY <2>1, FS_AddElement
  <2> QED BY <1>2, <1>3, <2>1, <2>2
<1>9. NothingForgotten'
  BY <1>1, <1>2, <1>8 DEF DeliveryInv, NothingForgotten
<1> QED BY <1>1, <1>3, <1>5, <1>6, <1>7, <1>8, <1>9 DEF DeliveryInv, DeliveryTypeOK, BreakerHolds

\* A new attempt disturbs no promise.
LEMMA NewAttempt ==
  ASSUME DeliveryInv, NEW by \in {"retry", "user"}, NEW r \in OutboxRows \cup {NoRow}, NEW s \in Subs,
         attempts' = attempts \cup {Attempt(by, r, s)}, UNCHANGED <<relay, settled, undelivered>>
  PROVE  attempts' \subseteq Attempts /\ AttemptsSane' /\ Promises'
<1>1. by \notin Relays
  BY DeliveryAssumption
<1>2. Attempt(by, r, s) \in Attempts /\ Attempt(by, r, s).by = by /\ Attempt(by, r, s).at = "sending"
  BY DEF Attempt, Attempts
<1>3. Promises'
  BY PromisesKept DEF DeliveryInv
<1> QED BY <1>1, <1>2, <1>3 DEF DeliveryInv, DeliveryTypeOK, AttemptsSane

LEMMA RetryKeeps ==
  ASSUME DeliveryInv, NEW r \in OutboxRows, NEW s \in Subs, retryWebhookDelivery(r, s)
  PROVE  DeliveryInv'
<1>1. /\ UNCHANGED <<outbox, lock, active, failures, relay, relayFaults, promised, settled, undelivered, userCalls>>
      /\ parked' \subseteq parked
      /\ attempts' = attempts \/ attempts' = attempts \cup {Attempt("retry", r, s)}
  BY Zenon DEF retryWebhookDelivery, relayVars
<1>2. attempts' \subseteq Attempts /\ AttemptsSane' /\ Promises'
  <2>1. CASE attempts' = attempts
    BY <1>1, <2>1, PromisesKept DEF DeliveryInv, DeliveryTypeOK, AttemptsSane
  <2>2. CASE attempts' = attempts \cup {Attempt("retry", r, s)}
    BY <1>1, <2>2, NewAttempt
  <2> QED BY <1>1, <2>1, <2>2
<1> QED BY <1>1, <1>2 DEF DeliveryInv, DeliveryTypeOK, NothingForgotten, BreakerHolds

LEMMA DeactivateKeeps ==
  ASSUME DeliveryInv, NEW s \in Subs, deactivateWebhookSubscription(s) PROVE DeliveryInv'
<1>1. UNCHANGED <<outbox, lock, failures, relay, relayFaults, attempts, parked, promised, settled, undelivered>>
  BY DEF deactivateWebhookSubscription, relayVars
<1>2. userCalls' \in 0..MaxUserCalls
  BY UserCallType DEF deactivateWebhookSubscription, DeliveryInv
<1>3. active' \in [Subs -> BOOLEAN]
  BY Zenon DEF deactivateWebhookSubscription, DeliveryInv, DeliveryTypeOK
<1>4. \A q \in Subs : active'[q] => active[q]
  BY Zenon DEF deactivateWebhookSubscription, DeliveryInv, DeliveryTypeOK
<1> QED BY <1>1, <1>2, <1>3, <1>4 DEF DeliveryInv, DeliveryTypeOK, Promises, Underway, AttemptsSane,
           NothingForgotten, BreakerHolds

LEMMA TestEventKeeps ==
  ASSUME DeliveryInv, NEW s \in Subs, sendTestEvent(s) PROVE DeliveryInv'
<1>1. /\ UNCHANGED <<outbox, lock, active, failures, relay, relayFaults, parked, promised, settled, undelivered>>
      /\ attempts' = attempts \cup {Attempt("user", NoRow, s)}
  BY DEF sendTestEvent, relayVars
<1>2. userCalls' \in 0..MaxUserCalls
  BY UserCallType DEF sendTestEvent, DeliveryInv
<1>3. attempts' \subseteq Attempts /\ AttemptsSane' /\ Promises'
  BY <1>1, NewAttempt
<1> QED BY <1>1, <1>2, <1>3 DEF DeliveryInv, DeliveryTypeOK, NothingForgotten, BreakerHolds

\* The invariant holds in every reachable state: what a dispatched row promised
\* cannot be lost between the relays, and the breaker's flag follows its counter.
THEOREM DeliveryInvariance == DeliverySpec => []DeliveryInv
<1>1. ASSUME DeliveryInv, [DeliveryNext]_deliveryVars PROVE DeliveryInv'
  <2> USE <1>1
  <2>1. CASE \E r \in OutboxRows : enqueueOutbox(r) \/ LockExpires(r)
    BY <2>1, RowStepKeeps
  <2>2. CASE \E w \in Relays : RelayStep(w) \/ DispatchFails(w) \/ MarkFails(w) \/ RelayCrash(w)
    BY <2>2, ClaimKeeps, DispatchKeeps, MarkKeeps, RelayEndsKeeps DEF RelayStep
  <2>3. CASE \E a \in attempts : AttemptStep(a) \/ AttemptStatementFails(a)
    BY <2>3, SendKeeps, SuccessKeeps, FailureKeeps, EnqueueKeeps, StatementFailsKeeps DEF AttemptStep
  <2>4. CASE \E r \in OutboxRows, s \in Subs : retryWebhookDelivery(r, s)
    BY <2>4, RetryKeeps
  <2>5. CASE \E s \in Subs : deactivateWebhookSubscription(s) \/ sendTestEvent(s)
    BY <2>5, DeactivateKeeps, TestEventKeeps
  <2>6. CASE UNCHANGED deliveryVars
    BY <2>6 DEF deliveryVars, relayVars, DeliveryInv, DeliveryTypeOK, Promises, Underway, AttemptsSane,
       NothingForgotten, BreakerHolds
  <2> QED BY <2>1, <2>2, <2>3, <2>4, <2>5, <2>6 DEF DeliveryNext
<1> QED BY <1>1, DeliveryInitHolds, PTL DEF DeliverySpec

\* Every state of the outbox, the subscriptions and the relays is well formed.
THEOREM DeliveryTypeCorrect == DeliverySpec => []DeliveryTypeOK
<1>1. DeliveryInv => DeliveryTypeOK
  BY DEF DeliveryInv
<1> QED BY <1>1, DeliveryInvariance, PTL

\* outboxRelay.js marks a row dispatched only after delivery, for any number of
\* relays, crashes and expired locks: what the row's relay set out to deliver was made
\* or parked, but for what failed statements lost, one delivery each at most.
THEOREM NoneForgotten == DeliverySpec => []NothingForgotten
<1>1. DeliveryInv => NothingForgotten
  BY DEF DeliveryInv
<1> QED BY <1>1, DeliveryInvariance, PTL

\* recordWebhookDelivery's counter and flag agree, whichever attempts overlap.
THEOREM BreakerIsHeld == DeliverySpec => []BreakerHolds
<1>1. DeliveryInv => BreakerHolds
  BY DEF DeliveryInv
<1> QED BY <1>1, DeliveryInvariance, PTL

-----------------------------------------------------------------------------
(* The job queue *)

\* A tick that is busy has a job, and one that is completing it has handled it.
TicksHold ==
    \A t \in Ticks : /\ tick[t].at # "off" => tick[t].id \in Work
                     /\ tick[t].at = "completing" => tick[t].id \in done

JobQueueInv == JobQueueTypeOK /\ TicksHold /\ JobsInReach

Positions == [at : {"off", "handling", "completing", "failing"}, id : Work \cup {NoWork}]

LEMMA JobQueueInitHolds == JobQueueInit => JobQueueInv
  BY JobQueueAssumption DEF JobQueueInit, JobQueueInv, JobQueueTypeOK, TicksHold, JobsInReach, Off, NoWork

LEMMA TickFaultType ==
  ASSUME JobQueueTypeOK, TickFault PROVE tickFaults' \in 0..MaxTickFaults
  BY JobQueueAssumption DEF JobQueueTypeOK, TickFault

\* A tick that is off afterwards, or keeps its job, holds what it should.
LEMMA TickMoves ==
  ASSUME JobQueueTypeOK, TicksHold, NEW t \in Ticks, NEW place \in Positions,
         tick' = [tick EXCEPT ![t] = place], done \subseteq done',
         place.at # "off" => place.id \in Work, place.at = "completing" => place.id \in done'
  PROVE  tick' \in [Ticks -> Positions] /\ TicksHold'
<1>1. \A u \in Ticks : tick'[u] = IF u = t THEN place ELSE tick[u]
  BY DEF JobQueueTypeOK
<1>2. tick' \in [Ticks -> Positions]
  BY DEF JobQueueTypeOK, Positions
<1> QED BY <1>1, <1>2 DEF TicksHold

LEMMA BusyTick ==
  ASSUME JobQueueTypeOK, TicksHold, NEW t \in Ticks, tick[t].at # "off"
  PROVE  tick[t] \in Positions /\ tick[t].id \in Work
  BY DEF JobQueueTypeOK, TicksHold, Positions

LEMMA OffType == Off \in Positions /\ Off.at = "off"
  BY DEF Off, Positions

\* The steps that no tick takes.
LEMMA OutsideKeeps ==
  ASSUME JobQueueInv, NEW j \in Work,
         enqueueJob(j) \/ BecomesAvailable(j) \/ HeartbeatAges(j) \/ cancelJob(j)
  PROVE  JobQueueInv'
<1>1. UNCHANGED <<tries, tick, done, tickFaults>>
  BY DEF enqueueJob, BecomesAvailable, HeartbeatAges, cancelJob
<1>2. /\ available' \subseteq Work
      /\ status' \in [Work -> {"none", "queued", "running", "completed", "failed", "cancelled"}]
      /\ beat' \in [Work -> {"null", "fresh", "old"}]
  BY DEF enqueueJob, BecomesAvailable, HeartbeatAges, cancelJob, JobQueueInv, JobQueueTypeOK
<1>3. JobsInReach'
  <2>1. CASE enqueueJob(j)
    BY <2>1 DEF enqueueJob, JobQueueInv, JobQueueTypeOK, JobsInReach
  <2>2. CASE BecomesAvailable(j)
    BY <2>2 DEF BecomesAvailable, JobQueueInv, JobsInReach
  <2>3. CASE HeartbeatAges(j)
    BY <2>3 DEF HeartbeatAges, JobQueueInv, JobQueueTypeOK, JobsInReach
  <2>4. CASE cancelJob(j)
    BY <2>4 DEF cancelJob, JobQueueInv, JobQueueTypeOK, JobsInReach
  <2> QED BY <2>1, <2>2, <2>3, <2>4
<1> QED BY <1>1, <1>2, <1>3 DEF JobQueueInv, JobQueueTypeOK, TicksHold

\* One claim requeues every stale job and takes one.
LEMMA ClaimJobKeeps ==
  ASSUME JobQueueInv, NEW t \in Ticks, claimJob(t) PROVE JobQueueInv'
<1>1. PICK j \in Work :
        /\ status' = [i \in Work |-> IF i = j THEN "running"
                                     ELSE IF i \in Stale THEN "queued" ELSE status[i]]
        /\ tries' = [tries EXCEPT ![j] = IF tries[j] < MaxTries THEN tries[j] + 1 ELSE tries[j]]
        /\ beat' = [i \in Work |-> IF i = j THEN "fresh" ELSE IF i \in Stale THEN "null" ELSE beat[i]]
        /\ tick' = [tick EXCEPT ![t] = [at |-> "handling", id |-> j]]
  BY DEF claimJob
<1>2. UNCHANGED <<available, done, tickFaults>>
  BY DEF claimJob
<1>3. [at |-> "handling", id |-> j] \in Positions
  BY DEF Positions
<1>4. tick' \in [Ticks -> Positions] /\ TicksHold'
  BY <1>1, <1>2, <1>3, TickMoves DEF JobQueueInv
<1>5. tries' \in [Work -> 0..MaxTries]
  BY <1>1, JobQueueAssumption DEF JobQueueInv, JobQueueTypeOK
<1>6. /\ status' \in [Work -> {"none", "queued", "running", "completed", "failed", "cancelled"}]
      /\ beat' \in [Work -> {"null", "fresh", "old"}]
  BY <1>1 DEF JobQueueInv, JobQueueTypeOK
<1>7. JobsInReach'
  BY <1>1, <1>2 DEF JobQueueInv, JobQueueTypeOK, JobsInReach, Stale
<1> QED BY <1>2, <1>4, <1>5, <1>6, <1>7 DEF JobQueueInv, JobQueueTypeOK, Positions

LEMMA HeartbeatKeeps ==
  ASSUME JobQueueInv, NEW t \in Ticks, heartbeatJob(t) PROVE JobQueueInv'
<1>1. /\ tick[t].at = "handling" /\ status[tick[t].id] = "running"
      /\ beat' = [beat EXCEPT ![tick[t].id] = "fresh"]
      /\ UNCHANGED <<status, tries, available, tick, done, tickFaults>>
  BY DEF heartbeatJob
<1>2. tick[t].id \in Work
  BY <1>1, BusyTick DEF JobQueueInv
<1>3. beat' \in [Work -> {"null", "fresh", "old"}] /\ JobsInReach'
  BY <1>1, <1>2 DEF JobQueueInv, JobQueueTypeOK, JobsInReach
<1> QED BY <1>1, <1>3 DEF JobQueueInv, JobQueueTypeOK, TicksHold

\* The ends of a tick that leave the jobs alone.
LEMMA TickEndsKeeps ==
  ASSUME JobQueueInv, NEW t \in Ticks, HandlerEnds(t) \/ TickStatementFails(t) \/ TickCrash(t)
  PROVE  JobQueueInv'
<1>1. UNCHANGED <<status, tries, beat, available>> /\ tick[t].at # "off" /\ done \subseteq done'
  BY DEF HandlerEnds, TickStatementFails, TickCrash
<1>2. tick[t] \in Positions /\ tick[t].id \in Work
  BY <1>1, BusyTick DEF JobQueueInv
<1> DEFINE completing == [tick[t] EXCEPT !.at = "completing"]
           failing == [tick[t] EXCEPT !.at = "failing"]
<1>3. /\ completing \in Positions /\ completing.at = "completing" /\ completing.id = tick[t].id
      /\ failing \in Positions /\ failing.at = "failing" /\ failing.id = tick[t].id
  BY <1>2 DEF Positions
<1>4. \/ tick' = [tick EXCEPT ![t] = completing] /\ done' = done \cup {tick[t].id}
      \/ tick' = [tick EXCEPT ![t] = failing] /\ done' = done
      \/ tick' = [tick EXCEPT ![t] = Off] /\ done' = done
  BY Zenon DEF HandlerEnds, TickStatementFails, TickCrash
<1>5. tick' \in [Ticks -> Positions] /\ TicksHold' /\ done' \subseteq Work
  <2>1. CASE tick' = [tick EXCEPT ![t] = completing] /\ done' = done \cup {tick[t].id}
    BY <2>1, <1>2, <1>3, TickMoves DEF JobQueueInv, JobQueueTypeOK
  <2>2. CASE tick' = [tick EXCEPT ![t] = failing] /\ done' = done
    BY <2>2, <1>2, <1>3, TickMoves DEF JobQueueInv, JobQueueTypeOK
  <2>3. CASE tick' = [tick EXCEPT ![t] = Off] /\ done' = done
    BY <2>3, OffType, TickMoves DEF JobQueueInv, JobQueueTypeOK
  <2> QED BY <1>4, <2>1, <2>2, <2>3
<1>6. tickFaults' \in 0..MaxTickFaults
  <2>1. tickFaults' = tickFaults \/ TickFault
    BY Zenon DEF HandlerEnds, TickStatementFails, TickCrash
  <2> QED BY <2>1, TickFaultType DEF JobQueueInv, JobQueueTypeOK
<1> QED BY <1>1, <1>5, <1>6 DEF JobQueueInv, JobQueueTypeOK, Positions, JobsInReach

\* A late completion or failure of a worker that lost its claim lands here too.
LEMMA VerdictKeeps ==
  ASSUME JobQueueInv, NEW t \in Ticks, completeJob(t) \/ failJob(t) PROVE JobQueueInv'
<1>1. tick[t].at # "off" /\ tick' = [tick EXCEPT ![t] = Off] /\ UNCHANGED <<tries, done, tickFaults>>
  BY DEF completeJob, failJob
<1>2. tick[t].id \in Work
  BY <1>1, BusyTick DEF JobQueueInv
<1>3. tick' \in [Ticks -> Positions] /\ TicksHold'
  BY <1>1, OffType, TickMoves DEF JobQueueInv
<1>4. PICK verdict \in {"completed", "queued", "failed"} :
        /\ status' = [status EXCEPT ![tick[t].id] = verdict]
        /\ verdict = "completed" => tick[t].id \in done
  BY DEF completeJob, failJob, afterFailure, JobQueueInv, TicksHold
<1>5. beat' = [beat EXCEPT ![tick[t].id] = "null"] /\ available' \subseteq available
  BY DEF completeJob, failJob
<1>6. /\ available' \subseteq Work
      /\ status' \in [Work -> {"none", "queued", "running", "completed", "failed", "cancelled"}]
      /\ beat' \in [Work -> {"null", "fresh", "old"}]
  BY <1>4, <1>5 DEF JobQueueInv, JobQueueTypeOK
<1>7. JobsInReach'
  BY <1>1, <1>2, <1>4, <1>5 DEF JobQueueInv, JobQueueTypeOK, JobsInReach
<1> QED BY <1>1, <1>3, <1>6, <1>7 DEF JobQueueInv, JobQueueTypeOK, Positions

\* The invariant holds in every reachable state, for any jobs, ticks and faults.
THEOREM JobQueueInvariance == JobQueueSpec => []JobQueueInv
<1>1. ASSUME JobQueueInv, [JobQueueNext]_jobQueueVars PROVE JobQueueInv'
  <2> USE <1>1
  <2>1. CASE \E j \in Work : enqueueJob(j) \/ BecomesAvailable(j) \/ HeartbeatAges(j) \/ cancelJob(j)
    BY <2>1, OutsideKeeps
  <2>2. CASE \E t \in Ticks : TickStep(t) \/ heartbeatJob(t) \/ TickStatementFails(t) \/ TickCrash(t)
    BY <2>2, ClaimJobKeeps, HeartbeatKeeps, TickEndsKeeps, VerdictKeeps DEF TickStep
  <2>3. CASE UNCHANGED jobQueueVars
    BY <2>3 DEF jobQueueVars, JobQueueInv, JobQueueTypeOK, TicksHold, JobsInReach
  <2> QED BY <2>1, <2>2, <2>3 DEF JobQueueNext
<1> QED BY <1>1, JobQueueInitHolds, PTL DEF JobQueueSpec

\* Every state of the jobs and the ticks is well formed.
THEOREM JobQueueTypeCorrect == JobQueueSpec => []JobQueueTypeOK
<1>1. JobQueueInv => JobQueueTypeOK
  BY DEF JobQueueInv
<1> QED BY <1>1, JobQueueInvariance, PTL

\* scheduler.js's unguarded completeJob, failJob and heartbeatJob never leave a job
\* that runs without a heartbeat to grow old, or completes without being handled.
THEOREM NoneOutOfReach == JobQueueSpec => []JobsInReach
<1>1. JobQueueInv => JobsInReach
  BY DEF JobQueueInv
<1> QED BY <1>1, JobQueueInvariance, PTL

-----------------------------------------------------------------------------
(* QueryJobs *)

\* An id outside gone waits, or is in a slot, at most once.
Single(q, slots, gone) ==
    /\ \A i \in DOMAIN q, k \in DOMAIN q : i # k /\ q[i] = q[k] => q[i] \in gone
    /\ \A r \in Runners, s \in Runners :
         r # s /\ slots[r].at # "idle" /\ slots[s].at # "idle" /\ slots[r].id = slots[s].id
           => slots[r].id \in gone
    /\ \A r \in Runners, i \in DOMAIN q :
         slots[r].at # "idle" /\ slots[r].id = q[i] => q[i] \in gone

\* A slot in use has a job.
SlotsFilled(slots) == \A r \in Runners : slots[r].at # "idle" => slots[r].id \in Jobs

AtWork == {"claiming", "exporting", "finishing", "failing"}

\* What a runner that has claimed its job alone knows of its row and its file.
Owned(r) ==
    LET j == runner[r].id
    IN  /\ job[j].status \notin {"none", "succeeded"} /\ job[j].expires = "never"
        /\ runner[r].at = "exporting" => file[j] = "writing"
        /\ runner[r].at = "finishing" /\ runner[r].stop = "none" => file[j] = "whole"
        /\ runner[r].at = "finishing" /\ runner[r].stop = "quota" => file[j] = "capped"

RunnersOwn ==
    \A r \in Runners : runner[r].at \in AtWork /\ runner[r].id \notin twice => Owned(r)

\* Retention is counted from the end of a run.
RowsFresh == \A j \in Status({"none", "queued"}) : job[j].expires = "never"

Files == {"none", "writing", "whole", "capped", "mixed"}

RunnerSlots == [at : {"idle", "starting", "claiming", "exporting", "finishing", "failing"},
                id : Jobs \cup {NoJob}, stop : {"none", "quota", "stopped"}]

\* The rows, the files, the queue and the runners; what else there is needs only types.
RunsInv ==
    /\ job \in [Jobs -> JobRows] /\ file \in [Jobs -> Files]
    /\ queue \in Seq(Jobs) /\ runner \in [Runners -> RunnerSlots] /\ twice \subseteq Jobs
    /\ SlotsFilled(runner) /\ Single(queue, runner, twice)
    /\ RunnersOwn /\ RowsFresh /\ SucceededIsComplete

CallsTyped ==
    /\ keyActive \in BOOLEAN /\ up \in BOOLEAN
    /\ maint \in [at : {"down", "list", "failing", "resuming", "done"}, todo : SUBSET Jobs]
    /\ cancelled \subseteq Jobs /\ cancels \subseteq Jobs
    /\ asking \in [Jobs -> 0..MaxAsking]
    /\ stuck \subseteq Jobs /\ jobFaults \in 0..MaxJobFaults

QueryInv == RunsInv /\ CallsTyped

\* The free slots can be numbered.
LEMMA SlotsNumbered ==
  ASSUME NEW free \in SUBSET Runners,
         NEW order, order = CHOOSE f \in [free -> 1..Cardinality(free)] :
                              \A r, s \in free : r # s => f[r] # f[s]
  PROVE  /\ Cardinality(free) \in Nat
         /\ order \in [free -> 1..Cardinality(free)]
         /\ \A r, s \in free : r # s => order[r] # order[s]
<1>1. IsFiniteSet(free)
  BY QueryJobsAssumption, FS_Subset
<1>2. Cardinality(free) \in Nat /\ ExistsBijection(1..Cardinality(free), free)
  BY <1>1, FS_CardinalityType
<1>3. ExistsBijection(free, 1..Cardinality(free))
  BY <1>2, Fun_ExistsBijSymmetric
<1>4. \E f \in [free -> 1..Cardinality(free)] : \A r, s \in free : r # s => f[r] # f[s]
  BY <1>3 DEF ExistsBijection, Bijection, Injection, IsInjective
<1> QED BY <1>2, <1>4

\* pump() moves jobs from the queue to slots: each stays in one place.
LEMMA PumpKeeps ==
  ASSUME NEW q \in Seq(Jobs), NEW slots \in [Runners -> RunnerSlots], NEW gone,
         SlotsFilled(slots), Single(q, slots, gone), Pump(q, slots)
  PROVE  /\ queue' \in Seq(Jobs) /\ runner' \in [Runners -> RunnerSlots]
         /\ SlotsFilled(runner') /\ Single(queue', runner', gone)
         /\ \A r \in Runners : runner'[r].at \in AtWork => runner'[r] = slots[r]
<1> DEFINE free  == {r \in Runners : slots[r].at = "idle"}
           n     == IF Len(q) < Cardinality(free) THEN Len(q) ELSE Cardinality(free)
           order == CHOOSE f \in [free -> 1..Cardinality(free)] : \A r, s \in free : r # s => f[r] # f[s]
           Taken(r) == r \in free /\ order[r] <= n
           l == Len(q)
<1>1. /\ queue' = SubSeq(q, n + 1, Len(q))
      /\ runner' = [r \in Runners |-> IF r \in free /\ order[r] <= n
                                      THEN [at |-> "starting", id |-> q[order[r]], stop |-> "none"]
                                      ELSE slots[r]]
  BY DEF Pump
<1>2. free \in SUBSET Runners
  OBVIOUS
<1>3. /\ Cardinality(free) \in Nat /\ order \in [free -> 1..Cardinality(free)]
      /\ \A r, s \in free : r # s => order[r] # order[s]
  <2> HIDE DEF free
  <2> QED BY <1>2, SlotsNumbered
<1>4. n \in Nat /\ l \in Nat /\ n <= l /\ DOMAIN q = 1..l
  <2> HIDE DEF free
  <2> QED BY <1>3
<1>a. \A r \in free : slots[r].at = "idle"
  OBVIOUS
<1>b. \A r \in Runners : r \notin free => slots[r].at # "idle"
  OBVIOUS
<1> HIDE DEF n, order, free, l
<1>5. /\ queue' \in Seq(Jobs) /\ DOMAIN queue' = 1..(l - n)
      /\ \A i \in DOMAIN queue' : i \in 1..(l - n) /\ i + n \in DOMAIN q /\ queue'[i] = q[i + n]
  <2>1. \A i \in (n + 1)..l : q[i] \in Jobs
    BY <1>4
  <2>2. n + 1 \in Int /\ l \in Int /\ queue' = SubSeq(q, n + 1, l)
    BY <1>1, <1>4 DEF l
  <2>3. /\ queue' \in Seq(Jobs) /\ Len(queue') = IF n + 1 <= l THEN l - (n + 1) + 1 ELSE 0
        /\ \A i \in 1..(l - (n + 1) + 1) : queue'[i] = q[n + 1 + i - 1]
    BY <2>1, <2>2, SubSeqProperties
  <2>4. Len(queue') = l - n
    BY <1>4, <2>3
  <2>5. ASSUME NEW i \in 1..(l - n) PROVE i + n \in 1..l /\ queue'[i] = q[i + n]
    <3>1. i \in 1..(l - (n + 1) + 1) /\ n + 1 + i - 1 = i + n /\ i + n \in 1..l
      BY <1>4
    <3> QED BY <2>3, <3>1
  <2>6. DOMAIN queue' = 1..(l - n)
    BY <2>3, <2>4
  <2> QED BY <1>4, <2>3, <2>5, <2>6
<1>6. ASSUME NEW r \in Runners, Taken(r)
      PROVE  /\ order[r] \in Int /\ order[r] <= n /\ order[r] \in DOMAIN q /\ q[order[r]] \in Jobs
             /\ runner'[r] = [at |-> "starting", id |-> q[order[r]], stop |-> "none"]
             /\ r \in free /\ runner'[r].id = q[order[r]]
  BY <1>1, <1>3, <1>4, <1>6
<1>7. ASSUME NEW r \in Runners, ~Taken(r) PROVE runner'[r] = slots[r]
  BY <1>1, <1>7
<1> HIDE DEF Taken
<1>8. ASSUME NEW r \in Runners
      PROVE  /\ runner'[r] \in RunnerSlots
             /\ runner'[r].at # "idle" => runner'[r].id \in Jobs
             /\ runner'[r].at \in AtWork => runner'[r] = slots[r]
  <2>1. CASE Taken(r)
    <3>1. /\ q[order[r]] \in Jobs
          /\ runner'[r] = [at |-> "starting", id |-> q[order[r]], stop |-> "none"]
      BY <1>6, <2>1
    <3> QED BY <3>1 DEF RunnerSlots, AtWork
  <2>2. CASE ~Taken(r)
    BY <1>7, <2>2 DEF SlotsFilled
  <2> QED BY <2>1, <2>2
<1>9. runner' \in [Runners -> RunnerSlots]
  BY <1>1, <1>8
<1>10. Single(queue', runner', gone)
  <2>1. ASSUME NEW i \in DOMAIN queue', NEW k \in DOMAIN queue', i # k, queue'[i] = queue'[k]
        PROVE  queue'[i] \in gone
    <3>1. i + n # k + n
      BY <1>4, <1>5, <2>1
    <3> QED BY <1>5, <2>1, <3>1 DEF Single
  <2>2. ASSUME NEW r \in Runners, NEW i \in DOMAIN queue', runner'[r].at # "idle",
               runner'[r].id = queue'[i]
        PROVE  queue'[i] \in gone
    <3>1. CASE Taken(r)
      <4>1. /\ order[r] \in Int /\ order[r] <= n /\ order[r] \in DOMAIN q
            /\ runner'[r].id = q[order[r]]
        BY <1>6, <3>1
      <4>2. i \in Int /\ i >= 1 /\ i + n \in DOMAIN q /\ queue'[i] = q[i + n]
        BY <1>4, <1>5
      <4>3. order[r] # i + n
        BY <1>4, <4>1, <4>2
      <4>4. q[order[r]] = q[i + n]
        BY <2>2, <4>1, <4>2
      <4> QED BY <4>1, <4>2, <4>3, <4>4 DEF Single
    <3>2. CASE ~Taken(r)
      BY <1>5, <1>7, <2>2, <3>2 DEF Single
    <3> QED BY <3>1, <3>2
  <2>3. ASSUME NEW r \in Runners, NEW s \in Runners, r # s, runner'[r].at # "idle",
               runner'[s].at # "idle", runner'[r].id = runner'[s].id
        PROVE  runner'[r].id \in gone
    <3>1. CASE Taken(r) /\ Taken(s)
      <4>1. /\ r \in free /\ order[r] \in DOMAIN q /\ runner'[r].id = q[order[r]]
            /\ s \in free /\ order[s] \in DOMAIN q /\ runner'[s].id = q[order[s]]
        BY <1>6, <3>1
      <4>2. order[r] # order[s]
        BY <1>3, <2>3, <4>1
      <4> QED BY <2>3, <4>1, <4>2 DEF Single
    <3>2. CASE ~Taken(r) /\ Taken(s)
      <4>1. order[s] \in DOMAIN q /\ runner'[s].id = q[order[s]] /\ runner'[r] = slots[r]
        BY <1>6, <1>7, <3>2
      <4> QED BY <2>3, <4>1 DEF Single
    <3>3. CASE Taken(r) /\ ~Taken(s)
      <4>1. order[r] \in DOMAIN q /\ runner'[r].id = q[order[r]] /\ runner'[s] = slots[s]
        BY <1>6, <1>7, <3>3
      <4> QED BY <2>3, <4>1 DEF Single
    <3>4. CASE ~Taken(r) /\ ~Taken(s)
      BY <1>7, <2>3, <3>4 DEF Single
    <3> QED BY <3>1, <3>2, <3>3, <3>4
  <2> QED BY <2>1, <2>2, <2>3 DEF Single
<1>11. SlotsFilled(runner')
  BY <1>8 DEF SlotsFilled
<1> QED BY <1>5, <1>8, <1>9, <1>10, <1>11

\* A runner goes on with its job: only that job's row and file change, and the runner
\* still owns them, if it did before.
LEMMA RunnerMoves ==
  ASSUME RunsInv, NEW r \in Runners, runner[r].at # "idle",
         runner' \in [Runners -> RunnerSlots], \A s \in Runners : s # r => runner'[s] = runner[s],
         runner'[r].id = runner[r].id, runner'[r].at \in AtWork, queue' = queue, twice' = twice,
         job' \in [Jobs -> JobRows], file' \in [Jobs -> Files],
         \A k \in Jobs : k # runner[r].id => job'[k] = job[k] /\ file'[k] = file[k],
         LET j == runner[r].id
         IN  /\ job'[j].status \in {"none", "queued"} => job'[j].expires = "never"
             /\ j \notin twice => Owned(r)'
  PROVE  RunsInv'
<1> DEFINE j == runner[r].id
<1>1. /\ runner' \in [Runners -> RunnerSlots] /\ runner'[r].id = j /\ runner'[r].at \in AtWork
      /\ \A s \in Runners : s # r => runner'[s] = runner[s]
  OBVIOUS
<1>2. j \in Jobs
  BY DEF RunsInv, SlotsFilled
<1>3. SlotsFilled(runner')
  BY <1>1, <1>2 DEF RunsInv, SlotsFilled
<1>4. Single(queue, runner', twice)
  BY <1>1 DEF RunsInv, Single
<1>5. RunnersOwn'
  <2> SUFFICES ASSUME NEW s \in Runners, runner'[s].at \in AtWork, runner'[s].id \notin twice
               PROVE  Owned(s)'
    BY DEF RunnersOwn
  <2>1. CASE s # r
    <3>1. runner[s].at # "idle" /\ runner[s].id # j
      BY <1>1, <2>1 DEF RunsInv, Single, AtWork
    <3>2. runner[s].id \in Jobs /\ Owned(s)
      BY <1>1, <2>1, <3>1 DEF RunsInv, RunnersOwn, SlotsFilled
    <3> QED BY <1>1, <2>1, <3>1, <3>2 DEF Owned
  <2> QED BY <1>1, <2>1
<1>6. RowsFresh'
  BY <1>2 DEF RunsInv, RowsFresh, Status
<1>7. SucceededIsComplete'
  BY <1>1, <1>2 DEF RunsInv, SucceededIsComplete, Status, Owned
<1> QED BY <1>1, <1>3, <1>4, <1>5, <1>6, <1>7 DEF RunsInv

\* A runner's slot is freed and pump() runs: j's row may have reached its end.
LEMMA RunnerReturns ==
  ASSUME RunsInv, NEW r \in Runners, NEW j, j = runner[r].id, runner[r].at # "idle",
         Return(r), twice' = twice, file' = file, job' \in [Jobs -> JobRows],
         \A k \in Jobs : k # j => job'[k] = job[k],
         job'[j].status \in {"none", "queued"} => job'[j].expires = "never",
         j \notin twice /\ job'[j].status = "succeeded" /\ job'[j].path /\ file[j] # "none"
           => file[j] = IF job'[j].partial THEN "capped" ELSE "whole"
  PROVE  RunsInv'
<1> DEFINE slots == [runner EXCEPT ![r] = FreeSlot]
<1>1. /\ slots \in [Runners -> RunnerSlots] /\ slots[r].at = "idle"
      /\ \A s \in Runners : s # r => slots[s] = runner[s]
  BY DEF RunsInv, RunnerSlots, FreeSlot
<1>2. Pump(queue, slots) /\ queue \in Seq(Jobs)
  BY DEF Return, RunsInv
<1>3. j \in Jobs
  BY DEF RunsInv, SlotsFilled
<1> HIDE DEF slots
<1>4. SlotsFilled(slots) /\ Single(queue, slots, twice)
  <2>1. \A s \in Runners : slots[s].at # "idle" => slots[s] = runner[s]
    BY <1>1
  <2>2. SlotsFilled(slots)
    BY <2>1 DEF RunsInv, SlotsFilled
  <2> QED BY <2>1, <2>2 DEF RunsInv, Single
<1>5. /\ queue' \in Seq(Jobs) /\ runner' \in [Runners -> RunnerSlots]
      /\ SlotsFilled(runner') /\ Single(queue', runner', twice)
      /\ \A s \in Runners : runner'[s].at \in AtWork => runner'[s] = slots[s]
  BY <1>1, <1>2, <1>4, PumpKeeps
<1>6. RunnersOwn'
  <2> SUFFICES ASSUME NEW s \in Runners, runner'[s].at \in AtWork, runner'[s].id \notin twice
               PROVE  Owned(s)'
    BY DEF RunnersOwn
  <2>1. s # r /\ runner'[s] = runner[s]
    BY <1>1, <1>5 DEF AtWork
  <2>2. runner[s].at # "idle" /\ runner[s].id # j
    BY <2>1 DEF RunsInv, Single, AtWork
  <2>3. runner[s].id \in Jobs /\ Owned(s)
    BY <2>1, <2>2 DEF RunsInv, RunnersOwn, SlotsFilled
  <2> QED BY <2>1, <2>2, <2>3 DEF Owned
<1>7. RowsFresh'
  BY <1>3 DEF RunsInv, RowsFresh, Status
<1>8. SucceededIsComplete'
  BY <1>3 DEF RunsInv, SucceededIsComplete, Status
<1> QED BY <1>5, <1>6, <1>7, <1>8 DEF RunsInv

\* A row changes under the runners' hands, never back to a state before the run and
\* never to success; its file goes only when its retention has ended.
LEMMA RowChanges ==
  ASSUME RunsInv, NEW j \in Jobs, NEW row \in JobRows, job' = [job EXCEPT ![j] = row],
         UNCHANGED <<queue, runner, twice>>,
         row.status \notin {"none", "queued"},
         row.expires = job[j].expires \/ job[j].expires # "never",
         \/ /\ file' = file
            /\ row.status = "succeeded" => /\ job[j].status = "succeeded"
                                           /\ row.path = job[j].path /\ row.partial = job[j].partial
         \/ /\ file' = [file EXCEPT ![j] = "none"] /\ row.status # "succeeded"
            /\ job[j].expires # "never"
  PROVE  RunsInv'
<1>1. /\ job'[j] = row /\ job' \in [Jobs -> JobRows] /\ file' \in [Jobs -> Files]
      /\ \A k \in Jobs : k # j => job'[k] = job[k] /\ file'[k] = file[k]
  BY DEF RunsInv, Files
<1>2. RunnersOwn'
  <2> SUFFICES ASSUME NEW r \in Runners, runner[r].at \in AtWork, runner[r].id \notin twice
               PROVE  Owned(r)'
    BY DEF RunnersOwn
  <2>1. Owned(r) /\ runner[r].id \in Jobs
    BY DEF RunsInv, RunnersOwn, SlotsFilled, AtWork
  <2>2. CASE runner[r].id # j
    BY <1>1, <2>1, <2>2 DEF Owned
  <2>3. CASE runner[r].id = j
    BY <1>1, <2>1, <2>3 DEF Owned
  <2> QED BY <2>2, <2>3
<1>3. RowsFresh'
  BY <1>1 DEF RunsInv, RowsFresh, Status
<1>4. SucceededIsComplete'
  BY <1>1 DEF RunsInv, SucceededIsComplete, Status
<1> QED BY <1>1, <1>2, <1>3, <1>4 DEF RunsInv

runsVars == <<job, file, queue, runner, twice>>

\* Steps that touch no row, file, queue or runner.
LEMMA RunsUntouched ==
  ASSUME RunsInv, UNCHANGED runsVars PROVE RunsInv'
  BY DEF RunsInv, runsVars, SlotsFilled, Single, RunnersOwn, Owned, RowsFresh, SucceededIsComplete, Status

\* Other requests' and the maintenance's writes.
LEMMA WritesKeep ==
  ASSUME RunsInv, CallsTyped, NEW j \in Jobs,
         CancelWrite(j) \/ RetentionEnds(j) \/ sweepExpiredJobs(j) \/ FailInterrupted
  PROVE  RunsInv'
<1> USE DEF JobRows, runsVars
<1>0. \A k \in Jobs : job[k] \in JobRows
  BY DEF RunsInv
<1>1. CASE CancelWrite(j)
  <2> DEFINE row == [job[j] EXCEPT !.status = "cancelled"]
  <2>1. row \in JobRows /\ row.status = "cancelled" /\ row.expires = job[j].expires
    BY <1>0
  <2>2. job' = [job EXCEPT ![j] = row] /\ UNCHANGED <<file, queue, runner, twice>>
    BY <1>1 DEF CancelWrite
  <2> HIDE DEF row
  <2> QED BY <2>1, <2>2, RowChanges
<1>2. CASE RetentionEnds(j)
  <2> DEFINE row == [job[j] EXCEPT !.expires = "past"]
  <2>1. /\ row \in JobRows /\ row.status = job[j].status /\ job[j].expires = "set"
        /\ row.path = job[j].path /\ row.partial = job[j].partial
    BY <1>0, <1>2 DEF RetentionEnds
  <2>2. job' = [job EXCEPT ![j] = row] /\ UNCHANGED <<file, queue, runner, twice>>
    BY <1>2 DEF RetentionEnds, jobMemory
  <2>3. row.status \notin {"none", "queued"}
    BY <2>1 DEF RunsInv, RowsFresh, Status
  <2> HIDE DEF row
  <2> QED BY <2>1, <2>2, <2>3, RowChanges
<1>3. CASE sweepExpiredJobs(j)
  <2> DEFINE row == [job[j] EXCEPT !.status = "expired", !.path = FALSE]
  <2>1. /\ row \in JobRows /\ row.status = "expired" /\ job[j].expires = "past"
        /\ row.expires = "past"
    BY <1>0, <1>3 DEF sweepExpiredJobs
  <2>2. job' = [job EXCEPT ![j] = row] /\ UNCHANGED <<queue, runner, twice>>
    BY <1>3 DEF sweepExpiredJobs, jobMemory
  <2>3. file' = file \/ file' = [file EXCEPT ![j] = "none"]
    BY <1>3 DEF sweepExpiredJobs, RunsInv
  <2> HIDE DEF row
  <2> QED BY <2>1, <2>2, <2>3, RowChanges
<1>4. CASE FailInterrupted
  <2>1. PICK k \in Jobs : job' = [job EXCEPT ![k].status = "failed"]
    BY <1>4 DEF FailInterrupted, CallsTyped
  <2> DEFINE row == [job[k] EXCEPT !.status = "failed"]
  <2>2. row \in JobRows /\ row.status = "failed" /\ row.expires = job[k].expires
    BY <1>0
  <2>3. job' = [job EXCEPT ![k] = row] /\ UNCHANGED <<file, queue, runner, twice>>
    BY <1>4, <2>1 DEF FailInterrupted, jobMemory
  <2> HIDE DEF row
  <2> QED BY <2>2, <2>3, RowChanges
<1> QED BY <1>1, <1>2, <1>3, <1>4

\* runJob's steps up to its last statement.
LEMMA MovesKeep ==
  ASSUME RunsInv, NEW r \in Runners,
         \/ LoadJob(r) /\ job[runner[r].id].status = "queued" /\ runner[r].id \notin cancelled
         \/ StartExport(r) \/ StopExport(r) \/ EndExport(r) \/ JobThrows(r)
  PROVE  RunsInv'
<1> DEFINE j == runner[r].id
<1>1. /\ runner[r].at # "idle" /\ j \in Jobs /\ job[j] \in JobRows /\ file[j] \in Files
      /\ runner[r] \in RunnerSlots
  BY DEF LoadJob, StartExport, StopExport, EndExport, JobThrows, RunsInv, SlotsFilled
<1>2. runner[r].at \in AtWork /\ j \notin twice => Owned(r)
  BY DEF RunsInv, RunnersOwn
<1>3. job[j].status \in {"none", "queued"} => job[j].expires = "never"
  BY <1>1 DEF RunsInv, RowsFresh, Status
<1>4. job \in [Jobs -> JobRows] /\ file \in [Jobs -> Files] /\ runner \in [Runners -> RunnerSlots]
  BY DEF RunsInv
<1>5. CASE LoadJob(r) /\ job[runner[r].id].status = "queued" /\ runner[r].id \notin cancelled
  <2>1. /\ runner' = [runner EXCEPT ![r].at = "claiming"]
        /\ UNCHANGED <<job, file, queue, twice>>
    BY <1>5 DEF LoadJob, Slot
  <2>2. /\ runner' \in [Runners -> RunnerSlots] /\ \A s \in Runners : s # r => runner'[s] = runner[s]
        /\ runner'[r].id = j /\ runner'[r].at = "claiming"
    BY <1>1, <1>4, <2>1 DEF RunnerSlots
  <2>3. Owned(r)'
    BY <1>3, <1>5, <2>1, <2>2 DEF Owned
  <2> QED BY <1>1, <1>3, <1>4, <2>1, <2>2, <2>3, RunnerMoves DEF AtWork
<1>6. CASE StartExport(r)
  <2>1. /\ runner' = [runner EXCEPT ![r].at = "exporting"]
        /\ job' = [job EXCEPT ![j].status = "running", ![j].path = TRUE]
        /\ file' = [file EXCEPT ![j] = IF Others(r) = {} THEN "writing" ELSE "mixed"]
        /\ UNCHANGED <<queue, twice>> /\ runner[r].at = "claiming"
    BY <1>6 DEF StartExport, Slot
  <2>2. /\ runner' \in [Runners -> RunnerSlots] /\ \A s \in Runners : s # r => runner'[s] = runner[s]
        /\ runner'[r].id = j /\ runner'[r].at = "exporting"
    BY <1>1, <1>4, <2>1 DEF RunnerSlots
  <2>3. /\ job' \in [Jobs -> JobRows] /\ \A k \in Jobs : k # j => job'[k] = job[k]
        /\ job'[j].status = "running" /\ job'[j].expires = job[j].expires
    BY <1>1, <1>4, <2>1 DEF JobRows
  <2>4. /\ file' \in [Jobs -> Files] /\ \A k \in Jobs : k # j => file'[k] = file[k]
        /\ Others(r) = {} => file'[j] = "writing"
    BY <1>1, <1>4, <2>1 DEF Files
  <2>5. ASSUME j \notin twice PROVE Owned(r)'
    <3>1. Others(r) = {}
      BY <2>1, <2>5 DEF Others, RunsInv, Single
    <3>2. job[j].expires = "never"
      BY <1>2, <2>1, <2>5 DEF Owned, AtWork
    <3> QED BY <2>2, <2>3, <2>4, <3>1, <3>2 DEF Owned
  <2> QED BY <1>1, <2>1, <2>2, <2>3, <2>4, <2>5, RunnerMoves DEF AtWork
<1>7. CASE StopExport(r)
  <2>1. /\ runner' = [runner EXCEPT ![r].at = "finishing", ![r].stop = "stopped"]
        /\ UNCHANGED <<job, queue, twice>> /\ file' = [file EXCEPT ![j] = "none"]
        /\ runner[r].at = "exporting"
    BY <1>7 DEF StopExport
  <2>2. /\ runner' \in [Runners -> RunnerSlots] /\ \A s \in Runners : s # r => runner'[s] = runner[s]
        /\ runner'[r].id = j /\ runner'[r].at = "finishing" /\ runner'[r].stop = "stopped"
    BY <1>1, <1>4, <2>1 DEF RunnerSlots
  <2>3. file' \in [Jobs -> Files] /\ \A k \in Jobs : k # j => file'[k] = file[k]
    BY <1>1, <1>4, <2>1 DEF Files
  <2>4. j \notin twice => Owned(r)'
    BY <1>2, <2>1, <2>2 DEF Owned, AtWork
  <2> QED BY <1>1, <1>3, <1>4, <2>1, <2>2, <2>3, <2>4, RunnerMoves DEF AtWork
<1>8. CASE EndExport(r)
  <2>1. PICK stop \in {"none", "quota"} :
          /\ runner' = [runner EXCEPT ![r].at = "finishing", ![r].stop = stop]
          /\ file' = [file EXCEPT ![j] = IF @ # "writing" THEN @
                                        ELSE IF stop = "quota" THEN "capped" ELSE "whole"]
    BY <1>8 DEF EndExport
  <2>2. UNCHANGED <<job, queue, twice>> /\ runner[r].at = "exporting"
    BY <1>8 DEF EndExport
  <2>3. /\ runner' \in [Runners -> RunnerSlots] /\ \A s \in Runners : s # r => runner'[s] = runner[s]
        /\ runner'[r].id = j /\ runner'[r].at = "finishing" /\ runner'[r].stop = stop
    BY <1>1, <1>4, <2>1 DEF RunnerSlots
  <2>4. /\ file' \in [Jobs -> Files] /\ \A k \in Jobs : k # j => file'[k] = file[k]
        /\ file[j] = "writing" => file'[j] = IF stop = "quota" THEN "capped" ELSE "whole"
    BY <1>1, <1>4, <2>1 DEF Files
  <2>5. j \notin twice => Owned(r)'
    BY <1>2, <2>2, <2>3, <2>4 DEF Owned, AtWork
  <2> QED BY <1>1, <1>3, <1>4, <2>2, <2>3, <2>4, <2>5, RunnerMoves DEF AtWork
<1>9. CASE JobThrows(r)
  <2>1. /\ runner' = [runner EXCEPT ![r].at = "failing"]
        /\ UNCHANGED <<job, queue, twice>> /\ file' = [file EXCEPT ![j] = "none"]
        /\ runner[r].at \in AtWork
    BY <1>9 DEF JobThrows, Slot, AtWork
  <2>2. /\ runner' \in [Runners -> RunnerSlots] /\ \A s \in Runners : s # r => runner'[s] = runner[s]
        /\ runner'[r].id = j /\ runner'[r].at = "failing"
    BY <1>1, <1>4, <2>1 DEF RunnerSlots
  <2>3. file' \in [Jobs -> Files] /\ \A k \in Jobs : k # j => file'[k] = file[k]
    BY <1>1, <1>4, <2>1 DEF Files
  <2>4. j \notin twice => Owned(r)'
    BY <1>2, <2>1, <2>2 DEF Owned
  <2> QED BY <1>1, <1>3, <1>4, <2>1, <2>2, <2>3, <2>4, RunnerMoves DEF AtWork
<1> QED BY <1>5, <1>6, <1>7, <1>8, <1>9

\* The steps runJob returns after.
LEMMA ReturnsKeep ==
  ASSUME RunsInv, NEW r \in Runners,
         \/ LoadJob(r) /\ ~(job[runner[r].id].status = "queued" /\ runner[r].id \notin cancelled)
         \/ FinishJob(r) \/ RecordFailed(r) \/ RunnerFails(r)
  PROVE  RunsInv'
<1> DEFINE j == runner[r].id
<1>1. /\ runner[r].at # "idle" /\ j \in Jobs /\ job[j] \in JobRows /\ runner[r] \in RunnerSlots
      /\ job \in [Jobs -> JobRows] /\ Return(r) /\ twice' = twice /\ file' = file
  BY DEF LoadJob, FinishJob, RecordFailed, RunnerFails, RunsInv, SlotsFilled
<1>2. job[j].status \in {"none", "queued"} => job[j].expires = "never"
  BY <1>1 DEF RunsInv, RowsFresh, Status
<1>3. CASE job' = job
  <2>1. j \notin twice /\ job[j].status = "succeeded" /\ job[j].path /\ file[j] # "none"
          => file[j] = IF job[j].partial THEN "capped" ELSE "whole"
    BY <1>1 DEF RunsInv, SucceededIsComplete, Status
  <2> QED BY <1>1, <1>2, <1>3, <2>1, RunnerReturns
<1>4. CASE RecordFailed(r)
  <2>1. job' = [job EXCEPT ![j].status = "failed", ![j].path = FALSE]
    BY <1>4 DEF RecordFailed
  <2>2. /\ job' \in [Jobs -> JobRows] /\ \A k \in Jobs : k # j => job'[k] = job[k]
        /\ job'[j].status = "failed"
    BY <1>1, <2>1 DEF JobRows
  <2> QED BY <1>1, <2>2, RunnerReturns
<1>5. CASE FinishJob(r) /\ runner[r].stop = "stopped"
  <2>1. job' = [job EXCEPT ![j] = [job[j] EXCEPT !.status = "cancelled", !.path = FALSE]]
    BY <1>5 DEF FinishJob, RecordEnd
  <2>2. /\ job' \in [Jobs -> JobRows] /\ \A k \in Jobs : k # j => job'[k] = job[k]
        /\ job'[j].status = "cancelled"
    BY <1>1, <2>1 DEF JobRows
  <2> QED BY <1>1, <2>2, RunnerReturns
<1>6. CASE FinishJob(r) /\ runner[r].stop # "stopped"
  <2>1. job' = [job EXCEPT ![j] = [job[j] EXCEPT !.status = "succeeded",
                                                !.partial = (runner[r].stop = "quota"),
                                                !.expires = "set"]]
    BY <1>6 DEF FinishJob, RecordEnd
  <2>2. /\ job' \in [Jobs -> JobRows] /\ \A k \in Jobs : k # j => job'[k] = job[k]
        /\ job'[j].status = "succeeded" /\ job'[j].partial = (runner[r].stop = "quota")
    BY <1>1, <2>1 DEF JobRows
  <2>3. j \notin twice => file[j] = IF job'[j].partial THEN "capped" ELSE "whole"
    <3>1. runner[r].at = "finishing" /\ runner[r].stop \in {"none", "quota"}
      BY <1>1, <1>6 DEF FinishJob, RunnerSlots
    <3>2. j \notin twice => Owned(r)
      BY <3>1 DEF RunsInv, RunnersOwn, AtWork
    <3>3. CASE runner[r].stop = "quota"
      BY <2>2, <3>1, <3>2, <3>3 DEF Owned
    <3>4. CASE runner[r].stop = "none"
      BY <2>2, <3>1, <3>2, <3>4 DEF Owned
    <3> QED BY <3>1, <3>3, <3>4
  <2> QED BY <1>1, <2>2, <2>3, RunnerReturns
<1> QED BY <1>3, <1>4, <1>5, <1>6 DEF LoadJob, RunnerFails

\* Ids pushed to the queue: those already held are in twice from now on.
LEMMA PushKeeps ==
  ASSUME RunsInv, NEW ids \in Seq(Jobs), \A i, k \in DOMAIN ids : i # k => ids[i] # ids[k],
         Pump(queue \o ids, runner), twice \subseteq twice', twice' \subseteq Jobs,
         \A i \in DOMAIN ids : ids[i] \in Held => ids[i] \in twice'
  PROVE  /\ queue' \in Seq(Jobs) /\ runner' \in [Runners -> RunnerSlots]
         /\ SlotsFilled(runner') /\ Single(queue', runner', twice')
         /\ \A r \in Runners : runner'[r].at \in AtWork => runner'[r] = runner[r]
<1> DEFINE q == queue \o ids
           m == Len(queue)
           n == Len(ids)
<1>1. /\ q \in Seq(Jobs) /\ DOMAIN q = 1..(m + n) /\ m \in Nat /\ n \in Nat
      /\ DOMAIN queue = 1..m /\ DOMAIN ids = 1..n
      /\ \A i \in 1..(m + n) : q[i] = IF i <= m THEN queue[i] ELSE ids[i - m]
  <2>1. queue \in Seq(Jobs)
    BY DEF RunsInv
  <2>2. /\ q \in Seq(Jobs) /\ Len(q) = m + n
        /\ \A i \in 1..(m + n) : q[i] = IF i <= m THEN queue[i] ELSE ids[i - m]
    BY <2>1, ConcatProperties
  <2> QED BY <2>1, <2>2
<1>2. Pump(q, runner)
  OBVIOUS
<1> HIDE DEF q, m, n
<1>3. ASSUME NEW i \in DOMAIN q
      PROVE  \/ i \in DOMAIN queue /\ q[i] = queue[i] /\ i <= m
             \/ i - m \in DOMAIN ids /\ q[i] = ids[i - m] /\ i > m
  BY <1>1
<1>4. Single(q, runner, twice')
  <2>1. ASSUME NEW i \in DOMAIN q, NEW k \in DOMAIN q, i # k, q[i] = q[k], i <= k PROVE q[i] \in twice'
    <3>1. i \in Int /\ k \in Int /\ m \in Int
      BY <1>1
    <3>2. CASE k <= m
      <4>1. i \in DOMAIN queue /\ k \in DOMAIN queue /\ q[i] = queue[i] /\ q[k] = queue[k]
        BY <1>3, <2>1, <3>1, <3>2
      <4> QED BY <2>1, <4>1 DEF RunsInv, Single
    <3>3. CASE i > m
      <4>1. i - m \in DOMAIN ids /\ k - m \in DOMAIN ids /\ q[i] = ids[i - m] /\ q[k] = ids[k - m]
        BY <1>3, <2>1, <3>1, <3>3
      <4>2. i - m # k - m
        BY <2>1, <3>1
      <4> QED BY <2>1, <4>1, <4>2
    <3>4. CASE i <= m /\ k > m
      <4>1. i \in DOMAIN queue /\ q[i] = queue[i] /\ k - m \in DOMAIN ids /\ q[k] = ids[k - m]
        BY <1>3, <3>1, <3>4
      <4>2. q[i] \in Held
        BY <4>1 DEF Held
      <4> QED BY <2>1, <4>1, <4>2
    <3> QED BY <2>1, <3>1, <3>2, <3>3, <3>4
  <2>2. \A i \in DOMAIN q, k \in DOMAIN q : i # k /\ q[i] = q[k] => q[i] \in twice'
    <3>1. \A i \in DOMAIN q : i \in Int
      BY <1>1
    <3> QED BY <2>1, <3>1
  <2>3. ASSUME NEW r \in Runners, NEW i \in DOMAIN q, runner[r].at # "idle", runner[r].id = q[i]
        PROVE  q[i] \in twice'
    <3>1. q[i] \in Held
      BY <2>3 DEF Held
    <3>2. CASE i \in DOMAIN queue /\ q[i] = queue[i]
      BY <2>3, <3>2 DEF RunsInv, Single
    <3>3. CASE i - m \in DOMAIN ids /\ q[i] = ids[i - m]
      BY <3>1, <3>3
    <3> QED BY <1>3, <3>2, <3>3
  <2>4. ASSUME NEW r \in Runners, NEW s \in Runners, r # s, runner[r].at # "idle",
               runner[s].at # "idle", runner[r].id = runner[s].id
        PROVE  runner[r].id \in twice'
    BY <2>4 DEF RunsInv, Single
  <2> QED BY <2>2, <2>3, <2>4 DEF Single
<1>5. SlotsFilled(runner) /\ runner \in [Runners -> RunnerSlots]
  BY DEF RunsInv
<1> QED BY <1>1, <1>2, <1>4, <1>5, PumpKeeps

\* Submissions, which insert the row they push.
LEMMA CreateKeeps ==
  ASSUME RunsInv, NEW j \in Jobs, createQueryJob(j) PROVE RunsInv'
<1>1. CASE job[j].status # "none"
  BY <1>1, RunsUntouched DEF createQueryJob, runsVars
<1>2. CASE job[j].status = "none"
  <2>1. /\ job' = [job EXCEPT ![j].status = "queued"] /\ file' = file
        /\ twice' = IF j \in Held THEN twice \cup {j} ELSE twice
        /\ Pump(Append(queue, j), runner)
    BY <1>2 DEF createQueryJob
  <2> DEFINE ids == <<j>>
  <2>2. /\ ids \in Seq(Jobs) /\ DOMAIN ids = 1..1 /\ ids[1] = j
        /\ queue \o ids = Append(queue, j)
    <3>1. queue \in Seq(Jobs)
      BY DEF RunsInv
    <3> QED BY <3>1, AppendIsConcat
  <2> HIDE DEF ids
  <2>3. \A i, k \in DOMAIN ids : i # k => ids[i] # ids[k]
    BY <2>2
  <2>4. /\ twice \subseteq twice' /\ twice' \subseteq Jobs /\ (j \in Held => j \in twice')
        /\ \A i \in DOMAIN ids : ids[i] \in Held => ids[i] \in twice'
    BY <2>1, <2>2 DEF RunsInv
  <2>5. Pump(queue \o ids, runner)
    BY <2>1, <2>2
  <2>6. /\ queue' \in Seq(Jobs) /\ runner' \in [Runners -> RunnerSlots]
        /\ SlotsFilled(runner') /\ Single(queue', runner', twice')
        /\ \A r \in Runners : runner'[r].at \in AtWork => runner'[r] = runner[r]
    BY <2>2, <2>3, <2>4, <2>5, PushKeeps
  <2>7. /\ job' \in [Jobs -> JobRows] /\ \A k \in Jobs : k # j => job'[k] = job[k]
        /\ job'[j].status = "queued" /\ job'[j].expires = "never"
    BY <1>2, <2>1 DEF RunsInv, RowsFresh, Status, JobRows
  <2>8. RunnersOwn'
    <3> SUFFICES ASSUME NEW r \in Runners, runner'[r].at \in AtWork, runner'[r].id \notin twice'
                 PROVE  Owned(r)'
      BY DEF RunnersOwn
    <3>1. runner'[r] = runner[r] /\ runner[r].id \in Held
      BY <2>6 DEF Held
    <3>2. runner[r].id # j /\ runner[r].id \in Jobs /\ Owned(r)
      BY <2>4, <3>1 DEF RunsInv, RunnersOwn, SlotsFilled, AtWork
    <3> QED BY <2>1, <2>7, <3>1, <3>2 DEF Owned
  <2>9. RowsFresh' /\ SucceededIsComplete'
    BY <2>1, <2>4, <2>7 DEF RunsInv, RowsFresh, SucceededIsComplete, Status
  <2> QED BY <2>1, <2>4, <2>6, <2>7, <2>8, <2>9 DEF RunsInv
<1> QED BY <1>1, <1>2

\* The restart's push of the rows it found queued.
LEMMA ResumeKeeps ==
  ASSUME RunsInv, CallsTyped, ResumeQueued PROVE RunsInv'
<1>1. PICK ids \in [1..Cardinality(maint.todo) -> maint.todo] :
        /\ \A i, k \in DOMAIN ids : i # k => ids[i] # ids[k]
        /\ Pump(queue \o ids, runner)
  BY DEF ResumeQueued
<1>2. twice' = twice \cup (maint.todo \cap Held) /\ UNCHANGED <<job, file>> /\ maint.todo \subseteq Jobs
  BY DEF ResumeQueued, CallsTyped
<1>3. Cardinality(maint.todo) \in Nat
  BY <1>2, QueryJobsAssumption, FS_Subset, FS_CardinalityType
<1>4. ids \in Seq(Jobs) /\ \A i \in DOMAIN ids : ids[i] \in maint.todo
  BY <1>1, <1>2, <1>3
<1>5. /\ queue' \in Seq(Jobs) /\ runner' \in [Runners -> RunnerSlots]
      /\ SlotsFilled(runner') /\ Single(queue', runner', twice')
      /\ \A r \in Runners : runner'[r].at \in AtWork => runner'[r] = runner[r]
  <2>1. /\ twice \subseteq twice' /\ twice' \subseteq Jobs
        /\ \A i \in DOMAIN ids : ids[i] \in Held => ids[i] \in twice'
    BY <1>2, <1>4 DEF RunsInv
  <2> QED BY <1>1, <1>4, <2>1, PushKeeps
<1>6. RunnersOwn'
  <2> SUFFICES ASSUME NEW r \in Runners, runner'[r].at \in AtWork, runner'[r].id \notin twice'
               PROVE  Owned(r)'
    BY DEF RunnersOwn
  <2>1. runner'[r] = runner[r] /\ Owned(r)
    BY <1>2, <1>5 DEF RunsInv, RunnersOwn
  <2> QED BY <1>2, <2>1 DEF Owned
<1>7. RowsFresh' /\ SucceededIsComplete'
  BY <1>2 DEF RunsInv, RowsFresh, SucceededIsComplete, Status
<1> QED BY <1>2, <1>5, <1>6, <1>7 DEF RunsInv

\* A crash empties the queue and the slots.
LEMMA CrashKeeps == ASSUME RunsInv, ProcessCrash PROVE RunsInv'
<1>1. /\ queue' = <<>> /\ runner' = [r \in Runners |-> FreeSlot] /\ UNCHANGED <<job, file, twice>>
  BY DEF ProcessCrash
<1>2. FreeSlot \in RunnerSlots /\ FreeSlot.at = "idle"
  BY DEF FreeSlot, RunnerSlots
<1> HIDE DEF FreeSlot
<1>3. \A r \in Runners : runner'[r].at = "idle"
  BY <1>1, <1>2
<1>4. SlotsFilled(runner') /\ Single(queue', runner', twice) /\ RunnersOwn'
  BY <1>1, <1>3 DEF SlotsFilled, Single, RunnersOwn, AtWork
<1> QED BY <1>1, <1>2, <1>4 DEF RunsInv, RowsFresh, SucceededIsComplete, Status

\* Requests, the maintenance's place and the counters keep their types.
LEMMA CallsKeep ==
  ASSUME RunsInv, CallsTyped, [QueryNext]_queryVars PROVE CallsTyped'
<1> USE QueryJobsAssumption DEF CallsTyped
<1>0. ASSUME NEW j \in Jobs PROVE asking[j] \in 0..MaxAsking
  OBVIOUS
<1>1. ASSUME NEW j \in Jobs, SubmitCheck(j) PROVE CallsTyped'
  BY <1>1 DEF SubmitCheck
<1>2. ASSUME NEW j \in Jobs, createQueryJob(j) PROVE CallsTyped'
  BY <1>2 DEF createQueryJob
<1>3. ASSUME NEW j \in Jobs, CancelRead(j) \/ CancelWrite(j) \/ CancelFails(j) PROVE CallsTyped'
  BY <1>3 DEF CancelRead, CancelWrite, CancelFails, JobFault
<1>4. ASSUME NEW j \in Jobs, RetentionEnds(j) \/ sweepExpiredJobs(j) PROVE CallsTyped'
  BY <1>4 DEF RetentionEnds, sweepExpiredJobs, jobMemory
<1>5. ASSUME NEW r \in Runners,
             LoadJob(r) \/ StartExport(r) \/ StopExport(r) \/ EndExport(r) \/ FinishJob(r) \/ RecordFailed(r)
      PROVE  CallsTyped'
  BY <1>5 DEF LoadJob, StartExport, StopExport, EndExport, FinishJob, RecordFailed
<1>6. ASSUME NEW r \in Runners, JobThrows(r) \/ RunnerFails(r) PROVE CallsTyped'
  <2>1. runner[r].at # "idle" => runner[r].id \in Jobs
    BY DEF RunsInv, SlotsFilled
  <2> QED BY <1>6, <2>1 DEF JobThrows, RunnerFails, JobFault
<1>7. CASE ProcessCrash
  <2>1. asking' \in [Jobs -> 0..MaxAsking] /\ jobFaults' \in 0..MaxJobFaults
    BY <1>7 DEF ProcessCrash, JobFault
  <2>2. maint' \in [at : {"down", "list", "failing", "resuming", "done"}, todo : SUBSET Jobs]
    BY <1>7 DEF ProcessCrash
  <2>3. up' \in BOOLEAN /\ keyActive' \in BOOLEAN
    BY <1>7, Zenon DEF ProcessCrash
  <2>4. cancelled' \subseteq Jobs /\ cancels' \subseteq Jobs /\ stuck' \subseteq Jobs
    BY <1>7 DEF ProcessCrash
  <2> QED BY <2>1, <2>2, <2>3, <2>4
<1>8. CASE ProcessStart \/ RevokeKey
  <2>1. UNCHANGED <<jobMemory, stuck, jobFaults>>
    BY <1>8 DEF ProcessStart, RevokeKey
  <2>2. maint' \in [at : {"down", "list", "failing", "resuming", "done"}, todo : SUBSET Jobs]
    BY <1>8 DEF ProcessStart, RevokeKey
  <2>3. up' \in BOOLEAN /\ keyActive' \in BOOLEAN
    BY <1>8, Zenon DEF ProcessStart, RevokeKey
  <2> QED BY <2>1, <2>2, <2>3 DEF jobMemory
<1>9. CASE ListRunning \/ ListQueued
  BY <1>9 DEF ListRunning, ListQueued, Status, jobMemory
<1>10. CASE FailInterrupted
  BY <1>10 DEF FailInterrupted, jobMemory
<1>11. CASE ResumeQueued
  BY <1>11 DEF ResumeQueued
<1>12. CASE MaintenanceFails
  BY <1>12 DEF MaintenanceFails, JobFault, Active, Status, jobMemory
<1>13. CASE UNCHANGED queryVars
  BY <1>13 DEF queryVars, jobMemory
<1> QED BY <1>1, <1>2, <1>3, <1>4, <1>5, <1>6, <1>7, <1>8, <1>9, <1>10, <1>11, <1>12, <1>13
        DEF QueryNext, RunnerStep, MaintenanceStep

\* The invariant holds in every reachable state, for any jobs, runners and faults.
THEOREM QueryInvariance == QuerySpec => []QueryInv
<1>1. ASSUME QueryInit PROVE QueryInv
  <2>1. FreeSlot \in RunnerSlots /\ FreeSlot.at = "idle" /\ NewJob \in JobRows
        /\ NewJob.status = "none" /\ NewJob.expires = "never"
    BY DEF FreeSlot, RunnerSlots, NewJob, JobRows
  <2> HIDE DEF FreeSlot, NewJob
  <2>2. CallsTyped
    BY <1>1, QueryJobsAssumption DEF QueryInit, CallsTyped
  <2>3. SlotsFilled(runner) /\ Single(queue, runner, twice) /\ RunnersOwn
    BY <1>1, <2>1 DEF QueryInit, SlotsFilled, Single, RunnersOwn, AtWork
  <2>4. RowsFresh /\ SucceededIsComplete
    BY <1>1, <2>1 DEF QueryInit, RowsFresh, SucceededIsComplete, Status
  <2> QED BY <1>1, <2>1, <2>2, <2>3, <2>4 DEF QueryInit, QueryInv, RunsInv, Files
<1>2. ASSUME QueryInv, [QueryNext]_queryVars PROVE QueryInv'
  <2>1. RunsInv /\ CallsTyped
    BY <1>2 DEF QueryInv
  <2> SUFFICES RunsInv'
    BY <1>2, <2>1, CallsKeep DEF QueryInv
  <2>2. CASE UNCHANGED runsVars
    BY <2>1, <2>2, RunsUntouched
  <2>3. CASE \E j \in Jobs : CancelWrite(j) \/ RetentionEnds(j) \/ sweepExpiredJobs(j)
    BY <2>1, <2>3, WritesKeep
  <2>4. CASE \E j \in Jobs : createQueryJob(j)
    BY <2>1, <2>4, CreateKeeps
  <2>5. CASE \E r \in Runners : RunnerStep(r) \/ JobThrows(r) \/ RunnerFails(r)
    BY <2>1, <2>5, MovesKeep, ReturnsKeep DEF RunnerStep
  <2>6. CASE FailInterrupted
    <3>1. PICK j \in Jobs : TRUE
      BY <2>1, <2>6 DEF FailInterrupted, CallsTyped
    <3> QED BY <2>1, <2>6, <3>1, WritesKeep
  <2>7. CASE ResumeQueued \/ ProcessCrash
    BY <2>1, <2>7, ResumeKeeps, CrashKeeps
  <2>8. CASE \/ \E j \in Jobs : SubmitCheck(j) \/ CancelRead(j) \/ CancelFails(j)
             \/ ProcessStart \/ ListRunning \/ ListQueued \/ MaintenanceFails \/ RevokeKey
             \/ UNCHANGED queryVars
    <3>1. UNCHANGED runsVars
      BY <2>8 DEF SubmitCheck, CancelRead, CancelFails, ProcessStart, ListRunning, ListQueued,
         MaintenanceFails, RevokeKey, queryVars, runsVars, jobMemory
    <3> QED BY <2>2, <3>1
  <2> QED BY <1>2, <2>3, <2>4, <2>5, <2>6, <2>7, <2>8 DEF QueryNext, MaintenanceStep
<1> QED BY <1>1, <1>2, PTL DEF QuerySpec

\* The rows, the files, the memory and the maintenance are well formed in every state.
THEOREM QueryTypeCorrect == QuerySpec => []QueryTypeOK
<1>1. QueryInv => QueryTypeOK
  BY DEF QueryInv, RunsInv, CallsTyped, RunnerSlots, Files, QueryTypeOK
<1> QED BY <1>1, QueryInvariance, PTL

\* What queryJobs.js serves for download is whole, or flagged partial, however
\* submissions, cancellations, failures and restarts interleave.
THEOREM DownloadsAreComplete == QuerySpec => []SucceededIsComplete
<1>1. QueryInv => SucceededIsComplete
  BY DEF QueryInv, RunsInv
<1> QED BY <1>1, QueryInvariance, PTL

-----------------------------------------------------------------------------
(* AuditRetention *)

\* A process that came up has this month's partition, and from the job of the first
\* to the end of the month the next one's.
RetentionInv ==
    /\ RetentionTypeOK
    /\ serving = "up" /\ createFailures = 0 =>
          month \in partitions /\ (~morning => month + 1 \in partitions)

\* A month begins after the one before it.
LEMMA MonthsFollow ==
  ASSUME NEW m \in Nat \ {0}
  PROVE  FirstDay(m) \in Int /\ FirstDay(m + 1) \in Int /\ FirstDay(m) < FirstDay(m + 1)
<1> DEFINE y == (m - 1) \div 12
           d == (m - 1) % 12
<1>1. y \in Int /\ d \in 0..11 /\ m - 1 = 12 * y + d
  OBVIOUS
<1>2. CASE d = 11
  <2>1. m \div 12 = y + 1 /\ m % 12 = 0
    BY <1>1, <1>2
  <2> QED BY <1>1, <1>2, <2>1 DEF FirstDay
<1>3. CASE d \in 0..10
  <2>1. m \div 12 = y /\ m % 12 = d + 1
    BY <1>1, <1>3
  <2> QED BY <1>1, <1>3, <2>1 DEF FirstDay
<1> QED BY <1>1, <1>2, <1>3

\* The drops spare this month and the next.
LEMMA RecentKept ==
  ASSUME RetentionTypeOK PROVE month \notin Expired /\ month + 1 \notin Expired
<1>1. month \in Nat \ {0}
  BY RetentionAssumption DEF RetentionTypeOK
<1> HIDE DEF FirstDay
<1> QED BY <1>1, MonthsFollow DEF Expired

\* What a startup or the job leaves of the partitions.
LEMMA PartitionsEnsured ==
  ASSUME RetentionTypeOK, NEW gone, ensureAuditPartitions(gone),
         month \notin gone, month + 1 \notin gone
  PROVE  /\ partitions' \subseteq 1..(LastMonth + 1)
         /\ createFailures' \in 0..MaxCreateFailures
         /\ createFailures' = 0 => month \in partitions' /\ month + 1 \in partitions'
<1>1. month \in 1..(LastMonth + 1) /\ month + 1 \in 1..(LastMonth + 1)
  BY RetentionAssumption DEF RetentionTypeOK
<1>2. CASE partitions' = (partitions \cup {month, month + 1}) \ gone /\ UNCHANGED createFailures
  BY <1>1, <1>2 DEF RetentionTypeOK
<1>3. CASE /\ createFailures < MaxCreateFailures /\ createFailures' = createFailures + 1
           /\ \E made \in SUBSET {month, month + 1} : partitions' = (partitions \cup made) \ gone
  <2>1. partitions' \subseteq 1..(LastMonth + 1)
    BY <1>1, <1>3 DEF RetentionTypeOK
  <2>2. createFailures' \in 0..MaxCreateFailures /\ createFailures' # 0
    BY <1>3, RetentionAssumption DEF RetentionTypeOK
  <2> QED BY <2>1, <2>2
<1> QED BY <1>2, <1>3 DEF ensureAuditPartitions

\* The invariant holds in every reachable state, however long the calendar.
THEOREM RetentionInvariance == RetentionSpec => []RetentionInv
<1>1. ASSUME RetentionInit PROVE RetentionInv
  <2>1. month \in 1..LastMonth /\ partitions = {} /\ createFailures \in 0..MaxCreateFailures
    BY <1>1, RetentionAssumption DEF RetentionInit
  <2>2. morning \in BOOLEAN /\ serving = "down"
    BY <1>1 DEF RetentionInit
  <2> QED BY <2>1, <2>2 DEF RetentionInv, RetentionTypeOK
<1>2. ASSUME RetentionInv, [RetentionNext]_retentionVars PROVE RetentionInv'
  <2> USE <1>2 DEF RetentionInv
  <2>1. CASE StartServing \/ StopServing
    BY <2>1 DEF StartServing, StopServing, RetentionTypeOK
  <2>2. CASE EnsureAtStartup
    BY <2>2, PartitionsEnsured DEF EnsureAtStartup, RetentionTypeOK
  <2>3. CASE MonthBegins
    BY <2>3, RetentionAssumption DEF MonthBegins, RetentionTypeOK
  <2>4. CASE CronTime
    <3>1. CASE serving = "down"
      BY <2>4, <3>1 DEF CronTime, RetentionTypeOK
    <3>2. CASE serving # "down"
      BY <2>4, <3>2, RecentKept, PartitionsEnsured DEF CronTime, RetentionTypeOK
    <3> QED BY <3>1, <3>2
  <2>5. CASE UNCHANGED retentionVars
    BY <2>5 DEF retentionVars, RetentionTypeOK
  <2> QED BY <2>1, <2>2, <2>3, <2>4, <2>5 DEF RetentionNext
<1> QED BY <1>1, <1>2, PTL DEF RetentionSpec

\* The calendar, the process and the partitions stay within their bounds.
THEOREM RetentionTypeCorrect == RetentionSpec => []RetentionTypeOK
<1>1. RetentionInv => RetentionTypeOK
  BY DEF RetentionInv
<1> QED BY <1>1, RetentionInvariance, PTL

\* auditLogger.js's "without a current-month partition, every insert throws": a process
\* that has come up is never without it, unless a CREATE failed.
THEOREM MonthInsertable == RetentionSpec => []CurrentMonthInsertable
<1>1. RetentionInv => CurrentMonthInsertable
  BY DEF RetentionInv, CurrentMonthInsertable
<1> QED BY <1>1, RetentionInvariance, PTL
-----------------------------------------------------------------------------
(* Sequences without repetition. *)

Distinct(s) == \A i, j \in DOMAIN s : s[i] = s[j] => i = j

\* A new element at the end.
LEMMA DistinctAppend ==
  ASSUME NEW E, NEW s \in Seq(E), NEW e \in E
  PROVE  /\ Append(s, e) \in Seq(E) /\ ToSet(Append(s, e)) = ToSet(s) \cup {e}
         /\ Distinct(s) /\ e \notin ToSet(s) => Distinct(Append(s, e))
<1> DEFINE t == Append(s, e)
<1>1. t \in Seq(E) /\ Len(t) = Len(s) + 1 /\ DOMAIN t = 1..(Len(s) + 1) /\ DOMAIN s = 1..Len(s) /\ Len(s) \in Nat
  OBVIOUS
<1>2. t[Len(s) + 1] = e /\ \A i \in 1..Len(s) : t[i] = s[i]
  OBVIOUS
<1> HIDE DEF t
<1>3. ToSet(t) = ToSet(s) \cup {e}
  <2>1. ASSUME NEW x \in ToSet(t) PROVE x \in ToSet(s) \cup {e}
    <3>1. PICK i \in 1..(Len(s) + 1) : x = t[i]
      BY <1>1 DEF ToSet
    <3>2. CASE i = Len(s) + 1
      BY <1>2, <3>1, <3>2
    <3>3. CASE i # Len(s) + 1
      <4>1. i \in 1..Len(s)
        BY <1>1, <3>3
      <4> QED BY <1>1, <1>2, <3>1, <4>1 DEF ToSet
    <3> QED BY <3>2, <3>3
  <2>2. ASSUME NEW x \in ToSet(s) PROVE x \in ToSet(t)
    <3>1. PICK i \in 1..Len(s) : x = s[i]
      BY <1>1 DEF ToSet
    <3>2. i \in 1..(Len(s) + 1) /\ x = t[i]
      BY <1>1, <1>2, <3>1
    <3> QED BY <1>1, <3>2 DEF ToSet
  <2>3. e \in ToSet(t)
    <3>1. Len(s) + 1 \in 1..(Len(s) + 1)
      BY <1>1
    <3> QED BY <1>1, <1>2, <3>1 DEF ToSet
  <2> QED BY <2>1, <2>2, <2>3
<1>4. ASSUME Distinct(s), e \notin ToSet(s) PROVE Distinct(t)
  <2> SUFFICES ASSUME NEW i \in DOMAIN t, NEW j \in DOMAIN t, t[i] = t[j] PROVE i = j
    BY DEF Distinct
  <2>1. \A k \in 1..Len(s) : s[k] # e
    BY <1>1, <1>4 DEF ToSet
  <2>2. i \in 1..Len(s) \/ i = Len(s) + 1
    BY <1>1
  <2>3. j \in 1..Len(s) \/ j = Len(s) + 1
    BY <1>1
  <2> QED BY <1>1, <1>2, <1>4, <2>1, <2>2, <2>3 DEF Distinct
<1> QED BY <1>1, <1>3, <1>4 DEF t

\* A sequence cut in two.
LEMMA DistinctSplit ==
  ASSUME NEW E, NEW s \in Seq(E), Distinct(s), NEW n \in 0..Len(s)
  PROVE  /\ SubSeq(s, 1, n) \in Seq(E) /\ SubSeq(s, n + 1, Len(s)) \in Seq(E)
         /\ Distinct(SubSeq(s, 1, n)) /\ Distinct(SubSeq(s, n + 1, Len(s)))
         /\ ToSet(s) = ToSet(SubSeq(s, 1, n)) \cup ToSet(SubSeq(s, n + 1, Len(s)))
         /\ ToSet(SubSeq(s, 1, n)) \cap ToSet(SubSeq(s, n + 1, Len(s))) = {}
<1> PICK len : len = Len(s)
  OBVIOUS
<1>1. len \in Nat /\ n \in Nat /\ n <= len /\ DOMAIN s = 1..len /\ \A i \in 1..len : s[i] \in E
  OBVIOUS
<1> PICK a : a = SubSeq(s, 1, n)
  OBVIOUS
<1> PICK b : b = SubSeq(s, n + 1, len)
  OBVIOUS
<1>2. a \in Seq(E) /\ DOMAIN a = 1..n /\ \A i \in 1..n : a[i] = s[i]
  BY <1>1
<1>3. b \in Seq(E) /\ DOMAIN b = 1..(len - n) /\ \A i \in 1..(len - n) : b[i] = s[n + i]
  BY <1>1
<1>4. Distinct(a)
  BY <1>1, <1>2 DEF Distinct
<1>5. Distinct(b)
  <2> SUFFICES ASSUME NEW i \in 1..(len - n), NEW j \in 1..(len - n), b[i] = b[j] PROVE i = j
    BY <1>3 DEF Distinct
  <2>1. n + i \in 1..len /\ n + j \in 1..len /\ s[n + i] = s[n + j]
    BY <1>1, <1>3
  <2>2. n + i = n + j
    BY <1>1, <2>1 DEF Distinct
  <2> QED BY <1>1, <2>2
<1>6. ASSUME NEW x \in ToSet(s) PROVE x \in ToSet(a) \cup ToSet(b)
  <2>1. PICK i \in 1..len : x = s[i]
    BY <1>1 DEF ToSet
  <2>2. CASE i <= n
    <3>1. i \in 1..n /\ x = a[i]
      BY <1>1, <1>2, <2>1, <2>2
    <3> QED BY <1>2, <3>1 DEF ToSet
  <2>3. CASE i > n
    <3>1. i - n \in 1..(len - n) /\ n + (i - n) = i
      BY <1>1, <2>3
    <3>2. x = b[i - n]
      BY <1>3, <2>1, <3>1
    <3> QED BY <1>3, <3>1, <3>2 DEF ToSet
  <2> QED BY <1>1, <2>2, <2>3
<1>7. ASSUME NEW x \in ToSet(a) PROVE \E i \in 1..len : i <= n /\ x = s[i]
  BY <1>1, <1>2 DEF ToSet
<1>8. ASSUME NEW x \in ToSet(b) PROVE \E i \in 1..len : i > n /\ x = s[i]
  <2>1. PICK i \in 1..(len - n) : x = b[i]
    BY <1>3 DEF ToSet
  <2>2. n + i \in 1..len /\ n + i > n /\ x = s[n + i]
    BY <1>1, <1>3, <2>1
  <2> QED BY <2>2
<1>9. ToSet(a) \cap ToSet(b) = {}
  BY <1>1, <1>7, <1>8 DEF Distinct
<1>10. ToSet(a) \subseteq ToSet(s) /\ ToSet(b) \subseteq ToSet(s)
  BY <1>1, <1>7, <1>8 DEF ToSet
<1> QED BY <1>2, <1>3, <1>4, <1>5, <1>6, <1>9, <1>10

\* Two that share nothing, one after the other.
LEMMA DistinctConcat ==
  ASSUME NEW E, NEW s \in Seq(E), NEW t \in Seq(E)
  PROVE  /\ s \o t \in Seq(E) /\ ToSet(s \o t) = ToSet(s) \cup ToSet(t)
         /\ Distinct(s) /\ Distinct(t) /\ ToSet(s) \cap ToSet(t) = {} => Distinct(s \o t)
<1> PICK m : m = Len(s)
  OBVIOUS
<1> PICK n : n = Len(t)
  OBVIOUS
<1> PICK u : u = s \o t
  OBVIOUS
<1>1. m \in Nat /\ n \in Nat /\ DOMAIN s = 1..m /\ DOMAIN t = 1..n
  OBVIOUS
<1>2. u \in Seq(E) /\ DOMAIN u = 1..(m + n)
  OBVIOUS
<1>3. \A i \in 1..(m + n) : u[i] = IF i <= m THEN s[i] ELSE t[i - m]
  BY <1>1
<1>4. ASSUME NEW x \in ToSet(u) PROVE x \in ToSet(s) \cup ToSet(t)
  <2>1. PICK i \in 1..(m + n) : x = u[i]
    BY <1>2 DEF ToSet
  <2>2. CASE i <= m
    <3>1. i \in 1..m /\ x = s[i]
      BY <1>1, <1>3, <2>1, <2>2
    <3> QED BY <1>1, <3>1 DEF ToSet
  <2>3. CASE i > m
    <3>1. i - m \in 1..n /\ x = t[i - m]
      BY <1>1, <1>3, <2>1, <2>3
    <3> QED BY <1>1, <3>1 DEF ToSet
  <2> QED BY <1>1, <2>2, <2>3
<1>5. ASSUME NEW x \in ToSet(s) PROVE x \in ToSet(u)
  <2>1. PICK i \in 1..m : x = s[i]
    BY <1>1 DEF ToSet
  <2>2. i \in 1..(m + n) /\ x = u[i]
    BY <1>1, <1>3, <2>1
  <2> QED BY <1>2, <2>2 DEF ToSet
<1>6. ASSUME NEW x \in ToSet(t) PROVE x \in ToSet(u)
  <2>1. PICK i \in 1..n : x = t[i]
    BY <1>1 DEF ToSet
  <2>2. m + i \in 1..(m + n) /\ ~(m + i <= m) /\ (m + i) - m = i
    BY <1>1
  <2>3. x = u[m + i]
    BY <1>3, <2>1, <2>2
  <2> QED BY <1>2, <2>2, <2>3 DEF ToSet
<1>7. ASSUME Distinct(s), Distinct(t), ToSet(s) \cap ToSet(t) = {} PROVE Distinct(u)
  <2> SUFFICES ASSUME NEW i \in 1..(m + n), NEW j \in 1..(m + n), u[i] = u[j] PROVE i = j
    BY <1>2 DEF Distinct
  <2>1. \A p \in 1..m, q \in 1..n : s[p] # t[q]
    BY <1>1, <1>7 DEF ToSet
  <2>2. CASE i <= m /\ j <= m
    <3>1. i \in 1..m /\ j \in 1..m /\ s[i] = s[j]
      BY <1>1, <1>3, <2>2
    <3> QED BY <1>1, <1>7, <3>1 DEF Distinct
  <2>3. CASE i > m /\ j > m
    <3>1. i - m \in 1..n /\ j - m \in 1..n
      BY <1>1, <2>3
    <3>2. t[i - m] = t[j - m]
      BY <1>1, <1>3, <2>3
    <3>3. i - m = j - m
      BY <1>1, <1>7, <3>1, <3>2 DEF Distinct
    <3> QED BY <1>1, <3>3
  <2>4. CASE i <= m /\ j > m
    <3>1. i \in 1..m /\ j - m \in 1..n /\ s[i] = t[j - m]
      BY <1>1, <1>3, <2>4
    <3> QED BY <2>1, <3>1
  <2>5. CASE i > m /\ j <= m
    <3>1. j \in 1..m /\ i - m \in 1..n /\ s[j] = t[i - m]
      BY <1>1, <1>3, <2>5
    <3> QED BY <2>1, <3>1
  <2> QED BY <1>1, <2>2, <2>3, <2>4, <2>5
<1> QED BY <1>2, <1>4, <1>5, <1>6, <1>7

-----------------------------------------------------------------------------
(* The audit log. *)

\* The entries of a failed batch that are tried again, in their order: those that have
\* an attempt left, each once.
Retried(s) == {e \in ToSet(s) : ~GivenUp(e)}

\* The loop over the batch, as a function of the indexes it has passed.
LEMMA RequeuedByPrefix ==
  ASSUME NEW batch \in Seq(AuditEntries)
  PROVE  \E kept : /\ kept[{}] = <<>> /\ Requeued(batch) = kept[1..Len(batch)]
                   /\ \A n \in 1..Len(batch) :
                        kept[1..n] = IF GivenUp(batch[n]) THEN kept[1..(n - 1)] ELSE Append(kept[1..(n - 1)], batch[n])
<1> PICK len : len = Len(batch)
  OBVIOUS
<1> DEFINE D == 1..len
           Body(it, s) == IF s = {} THEN <<>> ELSE IF GivenUp(batch[Max(s)]) THEN it[s \ {Max(s)}]
                                                   ELSE Append(it[s \ {Max(s)}], batch[Max(s)])
           step == [p \in D \X Seq(AuditEntries) |-> IF GivenUp(batch[p[1]]) THEN p[2] ELSE Append(p[2], batch[p[1]])]
<1>1. len \in Nat /\ DOMAIN batch = D /\ \A i \in D : batch[i] \in AuditEntries
  OBVIOUS
<1>2. \A i \in D, s \in Seq(AuditEntries) :
        step[<<i, s>>] = IF GivenUp(batch[i]) THEN s ELSE Append(s, batch[i])
  <2> TAKE i \in D, s \in Seq(AuditEntries)
  <2>1. <<i, s>> \in D \X Seq(AuditEntries) /\ <<i, s>>[1] = i /\ <<i, s>>[2] = s
    OBVIOUS
  <2> QED BY <2>1
<1>3. step \in [D \X Seq(AuditEntries) -> Seq(AuditEntries)]
  <2> SUFFICES ASSUME NEW p \in D \X Seq(AuditEntries)
               PROVE  (IF GivenUp(batch[p[1]]) THEN p[2] ELSE Append(p[2], batch[p[1]])) \in Seq(AuditEntries)
    OBVIOUS
  <2>1. p[1] \in D /\ p[2] \in Seq(AuditEntries) /\ batch[p[1]] \in AuditEntries
    BY <1>1
  <2> HIDE DEF D
  <2> QED BY <2>1
<1>4. <<>> \in Seq(AuditEntries)
  OBVIOUS
<1> HIDE DEF step
<1>5. PICK h : IsLoop(h, len, Seq(AuditEntries), <<>>, step)
  BY <1>1, <1>3, <1>4, LoopExists
<1>6. h \in [SUBSET D -> Seq(AuditEntries)]
  BY <1>5 DEF IsLoop
<1>7. \A s \in SUBSET D : h[s] = Body(h, s)
  BY <1>2, <1>5 DEF IsLoop
<1> HIDE DEF D
<1> DEFINE kept == CHOOSE it : it = [s \in SUBSET D |-> Body(it, s)]
<1>8. kept = [s \in SUBSET D |-> Body(kept, s)]
  <2>1. h = [s \in SUBSET D |-> Body(h, s)]
    BY <1>6, <1>7
  <2> QED BY <2>1
<1>9. Requeued(batch) = kept[D]
  BY <1>1 DEF Requeued, FoldLeft, MapThenFoldSet
<1> HIDE DEF kept
<1>10. \A s \in SUBSET D : kept[s] = Body(kept, s)
  BY <1>8
<1>11. kept[{}] = <<>>
  BY Zenon, <1>10
<1>12. \A n \in 1..len : kept[1..n] = IF GivenUp(batch[n]) THEN kept[1..(n - 1)] ELSE Append(kept[1..(n - 1)], batch[n])
  <2> TAKE n \in 1..len
  <2>1. 1..n \in SUBSET D /\ 1..n # {} /\ Max(1..n) = n /\ (1..n) \ {n} = 1..(n - 1)
    BY <1>1, LoopPrefix DEF D
  <2> QED BY <1>10, <2>1
<1> QED BY <1>9, <1>11, <1>12 DEF D

\* What is put back at the front of the queue.
LEMMA RequeuedIsRetried ==
  ASSUME NEW batch \in Seq(AuditEntries), Distinct(batch)
  PROVE  /\ Requeued(batch) \in Seq(AuditEntries) /\ Distinct(Requeued(batch))
         /\ ToSet(Requeued(batch)) = Retried(batch)
<1> PICK len : len = Len(batch)
  OBVIOUS
<1>1. len \in Nat /\ DOMAIN batch = 1..len /\ \A i \in 1..len : batch[i] \in AuditEntries
  OBVIOUS
<1>2. PICK kept : /\ kept[{}] = <<>> /\ Requeued(batch) = kept[1..len]
                  /\ \A n \in 1..len :
                       kept[1..n] = IF GivenUp(batch[n]) THEN kept[1..(n - 1)] ELSE Append(kept[1..(n - 1)], batch[n])
  BY RequeuedByPrefix
<1> DEFINE Passed(n) == {e \in AuditEntries : ~GivenUp(e) /\ \E i \in 1..n : batch[i] = e}
           Holds(n) == n <= len => /\ kept[1..n] \in Seq(AuditEntries) /\ Distinct(kept[1..n])
                                   /\ ToSet(kept[1..n]) = Passed(n)
<1> PICK G : G = {n \in Nat : Holds(n)}
  OBVIOUS
<1>3. Holds(0)
  <2>1. 1..0 = {}
    OBVIOUS
  <2>2. <<>> \in Seq(AuditEntries) /\ Distinct(<<>>) /\ ToSet(<<>>) = {}
    BY DEF Distinct, ToSet
  <2>3. Passed(0) = {}
    BY <2>1
  <2> QED BY <1>2, <2>1, <2>2, <2>3
<1>4. ASSUME NEW m \in Nat, Holds(m) PROVE Holds(m + 1)
  <2> SUFFICES ASSUME m + 1 <= len
               PROVE  /\ kept[1..(m + 1)] \in Seq(AuditEntries) /\ Distinct(kept[1..(m + 1)])
                      /\ ToSet(kept[1..(m + 1)]) = Passed(m + 1)
    OBVIOUS
  <2> PICK e : e = batch[m + 1]
    OBVIOUS
  <2> PICK q : q = kept[1..m]
    OBVIOUS
  <2> PICK r : r = kept[1..(m + 1)]
    OBVIOUS
  <2>1. m + 1 \in 1..len /\ (m + 1) - 1 = m /\ e \in AuditEntries
    BY <1>1
  <2>2. q \in Seq(AuditEntries) /\ Distinct(q) /\ ToSet(q) = Passed(m)
    BY <1>1, <1>4
  <2>3. r = IF GivenUp(e) THEN q ELSE Append(q, e)
    BY <1>2, <2>1
  <2>4. \A i \in 1..(m + 1) : i \in 1..m \/ i = m + 1
    OBVIOUS
  <2>5. \A i \in 1..m : i \in 1..(m + 1) /\ i # m + 1 /\ i \in 1..len
    BY <2>1, <1>1
  <2>6. e \notin Passed(m)
    BY <1>1, <2>1, <2>5 DEF Distinct
  <2>7. Passed(m + 1) = IF GivenUp(e) THEN Passed(m) ELSE Passed(m) \cup {e}
    <3>1. m + 1 \in 1..(m + 1)
      OBVIOUS
    <3> QED BY <2>1, <2>4, <2>5, <3>1
  <2>8. r \in Seq(AuditEntries) /\ Distinct(r) /\ ToSet(r) = Passed(m + 1)
    <3> HIDE DEF Passed
    <3>1. CASE GivenUp(e)
      BY <2>2, <2>3, <2>7, <3>1
    <3>2. CASE ~GivenUp(e)
      <4>1. /\ Append(q, e) \in Seq(AuditEntries) /\ ToSet(Append(q, e)) = ToSet(q) \cup {e}
            /\ Distinct(q) /\ e \notin ToSet(q) => Distinct(Append(q, e))
        BY <2>1, <2>2, DistinctAppend
      <4> QED BY <2>2, <2>3, <2>6, <2>7, <3>2, <4>1
    <3> QED BY <3>1, <3>2
  <2> QED BY <2>8
<1>5. G = Nat
  <2>1. G \in SUBSET Nat /\ 0 \in G /\ \A n \in G : n + 1 \in G
    <3> HIDE DEF Holds
    <3> QED BY <1>3, <1>4
  <2> QED BY <2>1, EveryNatural
<1>6. Holds(len)
  <2>1. Holds(len)
    <3> HIDE DEF Holds
    <3> QED BY <1>1, <1>5
  <2> QED BY <2>1
<1>7. Passed(len) = Retried(batch)
  BY <1>1 DEF Retried, ToSet
<1>8. len <= len
  BY <1>1
<1> HIDE DEF Passed
<1> QED BY <1>2, <1>6, <1>7, <1>8

\* The empty sequence.
LEMMA EmptySequence == ASSUME NEW E PROVE <<>> \in Seq(E) /\ Distinct(<<>>) /\ ToSet(<<>>) = {}
  BY DEF Distinct, ToSet

Waits(e) == e \in ToSet(logQueue) \/ \E f \in Flushes : e \in ToSet(flushed[f])

\* No entry is in two places, or twice in one.
OncePlaced ==
    /\ Distinct(logQueue) /\ \A f \in Flushes : Distinct(flushed[f])
    /\ \A f \in Flushes : ToSet(logQueue) \cap ToSet(flushed[f]) = {}
    /\ \A f, g \in Flushes : f # g => ToSet(flushed[f]) \cap ToSet(flushed[g]) = {}

\* Where an entry is in its life: not logged, waiting, stored or given up; each row
\* beyond the first, and the first of one that waits, has cost it an attempt.
Accounted(e) ==
    /\ Waits(e) => e \in logged /\ e \notin dropped /\ inserted[e] <= flushAttempts[e]
    /\ e \notin logged => inserted[e] = 0
    /\ e \in logged => Waits(e) \/ inserted[e] > 0 \/ e \in dropped
    /\ e \in dropped => flushAttempts[e] = MaxFlushAttempts
    /\ inserted[e] <= 1 + flushAttempts[e]

AuditIInv == AuditTypeOK /\ OncePlaced /\ \A e \in AuditEntries : Accounted(e)

\* What a step does to one flush's batch and to the queue, for OncePlaced.
LEMMA PlacesKept ==
  ASSUME OncePlaced, flushed \in [Flushes -> Seq(AuditEntries)], NEW f \in Flushes, NEW batch,
         flushed' = [flushed EXCEPT ![f] = batch], Distinct(batch), Distinct(logQueue'),
         ToSet(logQueue') \subseteq ToSet(logQueue) \cup ToSet(flushed[f]),
         ToSet(batch) \subseteq ToSet(logQueue) \cup ToSet(flushed[f]),
         ToSet(logQueue') \cap ToSet(batch) = {}
  PROVE  OncePlaced'
<1>1. flushed'[f] = batch /\ \A g \in Flushes : g # f => flushed'[g] = flushed[g]
  OBVIOUS
<1> QED BY <1>1 DEF OncePlaced

\* A request is logged: its entry is new and waits in the queue.
LEMMA LogIInv ==
  ASSUME AuditIInv, NEW x \in AuditEntries, createAuditLogEntry(x) PROVE AuditIInv'
<1>1. /\ x \notin logged /\ logged' = logged \cup {x} /\ logQueue' = Append(logQueue, x)
      /\ UNCHANGED <<flushed, flushAttempts, inserted, dropped, outages>>
  BY DEF createAuditLogEntry
<1>2. logQueue \in Seq(AuditEntries) /\ ~Waits(x) /\ OncePlaced
  BY <1>1 DEF AuditIInv, AuditTypeOK, Accounted
<1>3. x \notin ToSet(logQueue) /\ \A f \in Flushes : x \notin ToSet(flushed[f])
  BY <1>2 DEF Waits
<1>4. /\ logQueue' \in Seq(AuditEntries) /\ ToSet(logQueue') = ToSet(logQueue) \cup {x}
      /\ Distinct(logQueue')
  BY <1>1, <1>2, <1>3, DistinctAppend DEF OncePlaced
<1>5. AuditTypeOK'
  BY <1>1, <1>4 DEF AuditIInv, AuditTypeOK
<1>6. OncePlaced'
  BY <1>1, <1>2, <1>3, <1>4 DEF OncePlaced
<1>7. ASSUME NEW e \in AuditEntries PROVE Accounted(e)'
  <2>1. Accounted(e) /\ flushAttempts[e] \in Nat /\ dropped \subseteq logged
    BY DEF AuditIInv, AuditTypeOK
  <2>2. Waits(e)' <=> Waits(e) \/ e = x
    BY <1>1, <1>4 DEF Waits
  <2> QED BY <1>1, <2>1, <2>2 DEF Accounted
<1> QED BY <1>5, <1>6, <1>7 DEF AuditIInv

\* A flush takes the front of the queue.
LEMMA StartFlushIInv ==
  ASSUME AuditIInv, NEW f \in Flushes, StartFlush(f) PROVE AuditIInv'
<1> DEFINE n == IF Len(logQueue) < MaxBatch THEN Len(logQueue) ELSE MaxBatch
<1> PICK batch : batch = SubSeq(logQueue, 1, n)
  OBVIOUS
<1>1. /\ flushed[f] = <<>> /\ flushed' = [flushed EXCEPT ![f] = batch]
      /\ logQueue' = SubSeq(logQueue, n + 1, Len(logQueue))
      /\ UNCHANGED <<flushAttempts, inserted, dropped, logged, outages>>
  BY DEF StartFlush
<1>2. /\ logQueue \in Seq(AuditEntries) /\ Distinct(logQueue) /\ OncePlaced
      /\ flushed \in [Flushes -> Seq(AuditEntries)]
  BY DEF AuditIInv, AuditTypeOK, OncePlaced
<1>3. n \in 0..Len(logQueue)
  BY <1>2, AuditAssumption
<1> HIDE DEF n
<1>4. /\ batch \in Seq(AuditEntries) /\ logQueue' \in Seq(AuditEntries)
      /\ Distinct(batch) /\ Distinct(logQueue')
      /\ ToSet(logQueue) = ToSet(batch) \cup ToSet(logQueue')
      /\ ToSet(batch) \cap ToSet(logQueue') = {}
  BY <1>1, <1>2, <1>3, DistinctSplit
<1>5. AuditTypeOK'
  BY <1>1, <1>4 DEF AuditIInv, AuditTypeOK
<1>6. OncePlaced'
  BY <1>1, <1>2, <1>4, PlacesKept
<1>7. ASSUME NEW e \in AuditEntries PROVE Accounted(e)'
  <2>1. Accounted(e)
    BY DEF AuditIInv
  <2>2. flushed'[f] = batch /\ \A g \in Flushes : g # f => flushed'[g] = flushed[g]
    BY <1>1, <1>2
  <2>3. ToSet(flushed[f]) = {}
    BY <1>1, EmptySequence
  <2>4. Waits(e)' <=> Waits(e)
    BY <1>4, <2>2, <2>3 DEF Waits
  <2> QED BY <1>1, <2>1, <2>4 DEF Accounted
<1> QED BY <1>5, <1>6, <1>7 DEF AuditIInv

\* What a flush has, and what is left of it afterwards.
LEMMA FlushEnds ==
  ASSUME AuditIInv, NEW f \in Flushes, flushed' = [flushed EXCEPT ![f] = <<>>]
  PROVE  /\ flushed' \in [Flushes -> Seq(AuditEntries)]
         /\ flushed[f] \in Seq(AuditEntries) /\ Distinct(flushed[f])
         /\ ToSet(flushed[f]) \subseteq AuditEntries
         /\ \A e \in ToSet(flushed[f]) : Waits(e)
         /\ \A e \in AuditEntries : (\E g \in Flushes : e \in ToSet(flushed'[g]))
                                      <=> Waits(e) /\ e \notin ToSet(logQueue) /\ e \notin ToSet(flushed[f])
<1>1. flushed \in [Flushes -> Seq(AuditEntries)] /\ OncePlaced
  BY DEF AuditIInv, AuditTypeOK
<1>2. flushed' \in [Flushes -> Seq(AuditEntries)]
  BY <1>1, EmptySequence
<1>3. flushed[f] \in Seq(AuditEntries) /\ Distinct(flushed[f])
  BY <1>1 DEF OncePlaced
<1>4. ToSet(flushed[f]) \subseteq AuditEntries
  BY <1>3 DEF ToSet
<1>5. flushed'[f] = <<>> /\ \A g \in Flushes : g # f => flushed'[g] = flushed[g]
  BY <1>1
<1>6. ToSet(flushed'[f]) = {}
  BY <1>5, EmptySequence
<1>7. \A e \in AuditEntries : (\E g \in Flushes : e \in ToSet(flushed'[g]))
                                <=> Waits(e) /\ e \notin ToSet(logQueue) /\ e \notin ToSet(flushed[f])
  BY <1>1, <1>5, <1>6 DEF Waits, OncePlaced
<1> QED BY <1>2, <1>3, <1>4, <1>7 DEF Waits

\* An insert commits: what it stored waits no longer.
LEMMA CommitIInv ==
  ASSUME AuditIInv, NEW f \in Flushes, InsertCommits(f) PROVE AuditIInv'
<1>1. /\ inserted' = Written(f) /\ flushed' = [flushed EXCEPT ![f] = <<>>]
      /\ UNCHANGED <<logQueue, flushAttempts, dropped, logged, outages>>
  BY DEF InsertCommits
<1>2. inserted' \in [AuditEntries -> Nat]
  BY <1>1 DEF AuditIInv, AuditTypeOK, Written
<1>3. /\ flushed' \in [Flushes -> Seq(AuditEntries)]
      /\ \A e \in ToSet(flushed[f]) : Waits(e)
      /\ \A e \in AuditEntries : (\E g \in Flushes : e \in ToSet(flushed'[g]))
                                   <=> Waits(e) /\ e \notin ToSet(logQueue) /\ e \notin ToSet(flushed[f])
  BY <1>1, FlushEnds
<1>4. AuditTypeOK'
  BY <1>1, <1>2, <1>3 DEF AuditIInv, AuditTypeOK
<1>5. OncePlaced'
  BY <1>1, EmptySequence, PlacesKept DEF AuditIInv, AuditTypeOK, OncePlaced
<1>6. ASSUME NEW e \in AuditEntries PROVE Accounted(e)'
  <2>1. Accounted(e) /\ flushAttempts[e] \in Nat /\ inserted[e] \in Nat
    BY DEF AuditIInv, AuditTypeOK
  <2>2. Waits(e)' <=> Waits(e) /\ e \notin ToSet(flushed[f])
    <3>1. e \in ToSet(logQueue) => e \notin ToSet(flushed[f])
      BY DEF AuditIInv, OncePlaced
    <3> QED BY <1>1, <1>3, <3>1 DEF Waits
  <2>3. inserted'[e] = IF e \in ToSet(flushed[f]) THEN inserted[e] + 1 ELSE inserted[e]
    BY <1>1 DEF Written
  <2> QED BY <1>1, <1>3, <2>1, <2>2, <2>3 DEF Accounted
<1> QED BY <1>4, <1>5, <1>6 DEF AuditIInv

\* An insert fails, or its answer is lost: what has an attempt left waits again.
LEMMA FailIInv ==
  ASSUME AuditIInv, NEW f \in Flushes, InsertFails(f) PROVE AuditIInv'
<1> PICK batch : batch = flushed[f]
  OBVIOUS
<1>1. /\ outages < MaxOutages /\ outages' = outages + 1
      /\ inserted' = inserted \/ inserted' = Written(f)
      /\ flushAttempts' = [e \in AuditEntries |-> IF e \in Retried(batch) THEN flushAttempts[e] + 1
                                                  ELSE flushAttempts[e]]
      /\ logQueue' = Requeued(batch) \o logQueue
      /\ dropped' = dropped \cup (ToSet(batch) \ Retried(batch))
      /\ flushed' = [flushed EXCEPT ![f] = <<>>]
      /\ UNCHANGED logged
  <2>1. \A e : e \in ToSet(batch) \ {d \in ToSet(batch) : GivenUp(d)} <=> e \in Retried(batch)
    BY DEF Retried
  <2>2. {d \in ToSet(batch) : GivenUp(d)} = ToSet(batch) \ Retried(batch)
    BY DEF Retried
  <2>3. ToSet(batch) \ {d \in ToSet(batch) : GivenUp(d)} = Retried(batch)
    BY <2>1
  <2> QED BY <2>2, <2>3 DEF InsertFails, Outage
<1>2. AuditTypeOK /\ OncePlaced /\ logQueue \in Seq(AuditEntries) /\ Distinct(logQueue)
  BY DEF AuditIInv, AuditTypeOK, OncePlaced
<1>3. /\ flushed' \in [Flushes -> Seq(AuditEntries)]
      /\ batch \in Seq(AuditEntries) /\ Distinct(batch) /\ ToSet(batch) \subseteq AuditEntries
      /\ \A e \in ToSet(batch) : Waits(e)
      /\ \A e \in AuditEntries : (\E g \in Flushes : e \in ToSet(flushed'[g]))
                                   <=> Waits(e) /\ e \notin ToSet(logQueue) /\ e \notin ToSet(batch)
  BY <1>1, FlushEnds
<1>4. Retried(batch) \subseteq ToSet(batch) /\ \A e \in ToSet(batch) : e \in Retried(batch) <=> ~GivenUp(e)
  BY DEF Retried
<1>5. ToSet(logQueue) \cap ToSet(batch) = {}
  BY <1>2 DEF OncePlaced
<1>6. /\ logQueue' \in Seq(AuditEntries) /\ Distinct(logQueue')
      /\ ToSet(logQueue') = Retried(batch) \cup ToSet(logQueue)
  <2> PICK r : r = Requeued(batch)
    OBVIOUS
  <2>1. r \in Seq(AuditEntries) /\ Distinct(r) /\ ToSet(r) = Retried(batch)
    BY <1>3, RequeuedIsRetried
  <2>2. ToSet(r) \cap ToSet(logQueue) = {}
    BY <1>4, <1>5, <2>1
  <2> QED BY <1>1, <1>2, <2>1, <2>2, DistinctConcat
<1>7. \A e \in AuditEntries : /\ flushAttempts[e] \in 0..MaxFlushAttempts /\ inserted[e] \in Nat
                              /\ GivenUp(e) <=> flushAttempts[e] = MaxFlushAttempts
  BY <1>2, AuditAssumption DEF AuditTypeOK, GivenUp
<1>8. \A e \in AuditEntries : inserted'[e] \in Nat /\ inserted'[e] <= inserted[e] + 1
                              /\ inserted[e] <= inserted'[e]
                              /\ (e \notin ToSet(batch) => inserted'[e] = inserted[e])
  BY <1>1, <1>7 DEF Written
<1>9. \A e \in AuditEntries :
        flushAttempts'[e] = IF e \in Retried(batch) THEN flushAttempts[e] + 1 ELSE flushAttempts[e]
  BY <1>1
<1>10. AuditTypeOK'
  <2>1. \A e \in AuditEntries :
          (IF e \in Retried(batch) THEN flushAttempts[e] + 1 ELSE flushAttempts[e]) \in 0..MaxFlushAttempts
    BY <1>4, <1>7, AuditAssumption
  <2>2. flushAttempts' \in [AuditEntries -> 0..MaxFlushAttempts]
    BY <1>1, <2>1
  <2>3. inserted' \in [AuditEntries -> Nat]
    <3>1. Written(f) \in [AuditEntries -> Nat] /\ inserted \in [AuditEntries -> Nat]
      BY <1>2 DEF AuditTypeOK, Written
    <3> QED BY <1>1, <3>1
  <2>4. dropped' \subseteq logged'
    BY <1>1, <1>2, <1>3 DEF AuditTypeOK, AuditIInv, Accounted
  <2>5. outages' \in 0..MaxOutages
    BY <1>1, <1>2, AuditAssumption DEF AuditTypeOK
  <2> QED BY <1>1, <1>2, <1>3, <1>6, <2>2, <2>3, <2>4, <2>5 DEF AuditTypeOK
<1>11. OncePlaced'
  <2>1. ToSet(logQueue') \subseteq ToSet(logQueue) \cup ToSet(flushed[f])
    BY <1>4, <1>6
  <2> QED BY <1>1, <1>2, <1>6, <2>1, EmptySequence, PlacesKept DEF AuditTypeOK
<1>12. ASSUME NEW e \in AuditEntries PROVE Accounted(e)'
  <2>1. Accounted(e)
    BY DEF AuditIInv
  <2>2. Waits(e)' <=> Waits(e) /\ (e \in ToSet(batch) => e \in Retried(batch))
    BY <1>3, <1>4, <1>5, <1>6 DEF Waits
  <2>3. CASE e \notin ToSet(batch)
    <3>1. inserted'[e] = inserted[e] /\ flushAttempts'[e] = flushAttempts[e] /\ (e \in dropped' <=> e \in dropped)
      BY <1>1, <1>4, <1>8, <1>9, <2>3
    <3> QED BY <1>1, <2>1, <2>2, <2>3, <3>1 DEF Accounted
  <2>4. CASE e \in Retried(batch)
    <3>1. Waits(e) /\ Waits(e)'
      BY <1>3, <1>4, <2>2, <2>4
    <3>2. flushAttempts'[e] = flushAttempts[e] + 1 /\ e \notin dropped'
      BY <1>1, <1>9, <2>1, <2>4, <3>1 DEF Accounted
    <3> QED BY <1>1, <1>7, <1>8, <2>1, <3>1, <3>2 DEF Accounted
  <2>5. CASE e \in ToSet(batch) \ Retried(batch)
    <3>1. Waits(e) /\ ~Waits(e)' /\ e \in dropped' /\ flushAttempts'[e] = MaxFlushAttempts
      BY <1>1, <1>3, <1>4, <1>7, <1>9, <2>2, <2>5
    <3> QED BY <1>1, <1>7, <1>8, <1>9, <2>1, <2>5, <3>1 DEF Accounted
  <2> QED BY <1>4, <2>3, <2>4, <2>5
<1> QED BY <1>10, <1>11, <1>12 DEF AuditIInv

\* An entry that is accounted for is in one place at most.
LEMMA OnePlace ==
  ASSUME AuditIInv, NEW e \in AuditEntries
  PROVE  /\ Cardinality(Places(e)) <= 1
         /\ Places(e) = {} <=> ~Waits(e)
<1>1. OncePlaced
  BY DEF AuditIInv
<1> PICK Q : Q = {k \in DOMAIN logQueue : logQueue[k] = e}
  OBVIOUS
<1> PICK F : F = {g \in Flushes : e \in ToSet(flushed[g])}
  OBVIOUS
<1> PICK P : P = Places(e)
  OBVIOUS
<1>2. P = {<<"queue", i>> : i \in Q} \cup {<<"batch", f>> : f \in F}
  BY DEF Places
<1>3. Q # {} <=> e \in ToSet(logQueue)
  BY DEF ToSet
<1>4. F # {} <=> \E f \in Flushes : e \in ToSet(flushed[f])
  OBVIOUS
<1>5. Q # {} => F = {}
  BY <1>1, <1>3 DEF OncePlaced
<1>6. (\A i, j \in Q : i = j) /\ (\A f, g \in F : f = g)
  BY <1>1 DEF OncePlaced, Distinct
<1>7. \A p, q \in P : p = q
  BY <1>2, <1>5, <1>6
<1>8. P = {} \/ \E p : P = {p}
  <2>1. ASSUME NEW p \in P PROVE P = {p}
    BY <1>7
  <2> QED BY <2>1
<1>9. Cardinality(P) <= 1
  <2>1. CASE P = {}
    <3>1. Cardinality(P) = 0
      BY Zenon, <2>1, FS_EmptySet
    <3> QED BY <3>1
  <2>2. ASSUME NEW p, P = {p} PROVE Cardinality(P) <= 1
    <3>1. Cardinality(P) = 1
      BY Zenon, <2>2, FS_Singleton
    <3> QED BY <3>1
  <2> QED BY <1>8, <2>1, <2>2
<1>10. P = {} <=> ~Waits(e)
  BY <1>2, <1>3, <1>4 DEF Waits
<1> QED BY <1>9, <1>10

LEMMA AuditInvariance == AuditSpec => []AuditIInv
<1>1. AuditInit => AuditIInv
  <2> SUFFICES ASSUME AuditInit PROVE AuditIInv
    OBVIOUS
  <2>1. ToSet(logQueue) = {} /\ \A f \in Flushes : ToSet(flushed[f]) = {}
    BY EmptySequence DEF AuditInit
  <2>2. AuditTypeOK
    BY EmptySequence, AuditAssumption DEF AuditInit, AuditTypeOK
  <2>3. OncePlaced
    BY <2>1, EmptySequence DEF AuditInit, OncePlaced
  <2>4. \A e \in AuditEntries : Accounted(e)
    BY <2>1 DEF AuditInit, Accounted, Waits
  <2> QED BY <2>2, <2>3, <2>4 DEF AuditIInv
<1>2. AuditIInv /\ [AuditNext]_auditVars => AuditIInv'
  <2> SUFFICES ASSUME AuditIInv, [AuditNext]_auditVars PROVE AuditIInv'
    OBVIOUS
  <2>1. CASE UNCHANGED auditVars
    BY <2>1 DEF auditVars, AuditIInv, AuditTypeOK, OncePlaced, Accounted, Waits
  <2> QED BY <2>1, LogIInv, StartFlushIInv, CommitIInv, FailIInv DEF AuditNext
<1> QED BY <1>1, <1>2, PTL DEF AuditSpec

\* Types of the audit log: a batch and the queue hold logged requests only, and no
\* entry's attempts pass MAX_FLUSH_ATTEMPTS.
THEOREM AuditTypes == AuditSpec => []AuditTypeOK
<1>1. AuditIInv => AuditTypeOK
  BY DEF AuditIInv
<1> QED BY <1>1, AuditInvariance, PTL

\* However flushes overlap, fail and put their batches back, an audit entry waits in
\* one place, is stored or has used up its attempts.
THEOREM AuditEntriesConserved == AuditSpec => []EntriesConserved
<1>1. AuditIInv => EntriesConserved
  <2> SUFFICES ASSUME AuditIInv, NEW e \in logged
               PROVE  /\ Cardinality(Places(e)) <= 1
                      /\ Places(e) = {} => inserted[e] > 0 \/ e \in dropped
                      /\ e \in dropped => Places(e) = {} /\ flushAttempts[e] = MaxFlushAttempts
                      /\ inserted[e] <= 1 + flushAttempts[e]
    BY DEF EntriesConserved
  <2>1. e \in AuditEntries /\ Accounted(e)
    BY DEF AuditIInv, AuditTypeOK
  <2>2. Cardinality(Places(e)) <= 1 /\ (Places(e) = {} <=> ~Waits(e))
    BY <2>1, OnePlace
  <2> QED BY <2>1, <2>2 DEF Accounted
<1> QED BY <1>1, AuditInvariance, PTL

-----------------------------------------------------------------------------
(* All of them side by side. *)

\* A behaviour of the components side by side is one of each of them.
LEMMA EachPart ==
  ASSUME [JobsNext]_jobsVars
  PROVE  /\ [DeliveryNext]_deliveryVars /\ [QueryNext]_queryVars /\ [JobQueueNext]_jobQueueVars
         /\ [AuditNext]_auditVars /\ [RetentionNext]_retentionVars
BY Zenon DEF JobsNext, jobsVars

\* Each variable of the background components keeps to its type, whichever of them runs.
THEOREM JobsTypeCorrect == JobsSpec => []JobsTypeOK
<1>1. JobsInit => DeliveryInit /\ QueryInit /\ JobQueueInit /\ AuditInit /\ RetentionInit
  BY DEF JobsInit
<1>2. [JobsNext]_jobsVars => /\ [DeliveryNext]_deliveryVars /\ [QueryNext]_queryVars
                             /\ [JobQueueNext]_jobQueueVars /\ [AuditNext]_auditVars
                             /\ [RetentionNext]_retentionVars
  BY EachPart
<1>3. JobsSpec => DeliverySpec /\ QuerySpec /\ JobQueueSpec /\ AuditSpec /\ RetentionSpec
  BY <1>1, <1>2, PTL DEF JobsSpec, DeliverySpec, QuerySpec, JobQueueSpec, AuditSpec, RetentionSpec
<1>4. /\ DeliveryTypeOK /\ QueryTypeOK /\ JobQueueTypeOK /\ AuditTypeOK /\ RetentionTypeOK
      => JobsTypeOK
  BY DEF JobsTypeOK
<1> QED BY <1>3, <1>4, DeliveryTypeCorrect, QueryTypeCorrect, JobQueueTypeCorrect, AuditTypes,
           RetentionTypeCorrect, PTL
=============================================================================
