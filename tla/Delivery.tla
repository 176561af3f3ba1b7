------------------------------ MODULE Delivery ------------------------------
(***************************************************************************)
(* The outbox relay (indexer/src/outboxRelay.js) and webhook delivery      *)
(* (webhookDelivery.js, recordWebhookDelivery in db.js).  A relay is one   *)
(* call of relayOutboxOnce: a timer starts one every 250 ms in every       *)
(* worker process without waiting for the last.  It claims rows under a    *)
(* five-minute lock and, row after row, publishes, delivers to every       *)
(* matching subscription at once and marks the row dispatched.             *)
(*                                                                         *)
(* An attempt is one deliverToSubscription, retryWebhookDelivery or        *)
(* sendTestEvent / manualRetryDelivery in flight; each of its awaits ends  *)
(* a step.  A subscription whose filter does not match an event plays no   *)
(* part in it.  Lock ages are abstracted to younger or older than five     *)
(* minutes.                                                                *)
(*                                                                         *)
(* WebSocket clients attach to a relay's process and leave it at any       *)
(* moment; whether one that listens for the event in hand is attached is   *)
(* left open at each publish.                                              *)
(***************************************************************************)
EXTENDS Integers, FiniteSets

CONSTANTS
    OutboxRows,      \* indexer_outbox ids
    Subs,            \* webhook subscriptions
    Relays,          \* relayOutboxOnce calls that may overlap
    RelayLimit,      \* rows a claim takes at most
    MaxFailures,     \* WEBHOOK_MAX_CONSECUTIVE_FAILURES
    SendOutcomes,    \* what sendOnce may return
    MaxRelayFaults,  \* bound: crashes and failed statements
    MaxUserCalls     \* bound: requests by the owners of subscriptions

ASSUME DeliveryAssumption ==
    /\ OutboxRows \subseteq Nat
    /\ "retry" \notin Relays /\ "user" \notin Relays
    /\ SendOutcomes \subseteq BOOLEAN
    /\ RelayLimit \in Nat \ {0} /\ MaxFailures \in Nat \ {0}
    /\ MaxRelayFaults \in Nat /\ MaxUserCalls \in Nat

VARIABLES
    outbox,      \* "absent", "pending" or "dispatched"
    lock,        \* locked_at: "free", "held", or "expired" when over five minutes old
    active, failures,     \* webhook_subscriptions
    relay,       \* a relay's place, its claimed rows left, the row in hand and whom it goes to
    attempts,    \* deliveries in flight
    parked,      \* webhook_delivery entries open in the dead letter queue
    promised,    \* history: of the dispatched rows, the deliveries their relay had set out to make
    settled,     \* history: deliveries made or parked
    undelivered, \* history: deliveries of a relay lost to a failed statement
    relayFaults, userCalls

relayVars    == <<relay, relayFaults>>
deliveryVars == <<outbox, lock, active, failures, relayVars, attempts, parked, promised, settled,
                  undelivered, userCalls>>

NoRow == -1
Idle  == [at |-> "idle", todo |-> {}, row |-> NoRow, to |-> {}]

DeliveryInit ==
    /\ outbox = [r \in OutboxRows |-> "absent"] /\ lock = [r \in OutboxRows |-> "free"]
    /\ active = [s \in Subs |-> TRUE] /\ failures = [s \in Subs |-> 0]
    /\ relay = [w \in Relays |-> Idle]
    /\ attempts = {} /\ parked = {} /\ promised = {}
    /\ settled = {} /\ undelivered = {}
    /\ relayFaults = 0 /\ userCalls = 0

RelayFault == relayFaults < MaxRelayFaults /\ relayFaults' = relayFaults + 1

-----------------------------------------------------------------------------
(* The relay. *)

\* The event's row is committed already; if this insert fails it is only logged.
enqueueOutbox(r) ==
    /\ outbox[r] = "absent"
    /\ outbox' = [outbox EXCEPT ![r] = "pending"]
    /\ UNCHANGED <<lock, active, failures, relayVars, attempts, parked, promised, settled,
                   undelivered, userCalls>>

LockExpires(r) ==
    /\ lock[r] = "held"
    /\ lock' = [lock EXCEPT ![r] = "expired"]
    /\ UNCHANGED <<outbox, active, failures, relayVars, attempts, parked, promised, settled,
                   undelivered, userCalls>>

\* Mutant: an expired lock is never taken over.
ClaimableUnlocked == {r \in OutboxRows : outbox[r] = "pending" /\ lock[r] = "free"}

ClaimableRows == {r \in OutboxRows : outbox[r] = "pending" /\ lock[r] \in {"free", "expired"}}

\* ORDER BY id LIMIT, FOR UPDATE SKIP LOCKED.
claimOutbox(w) ==
    /\ relay[w].at = "idle"
    /\ \E batch \in SUBSET ClaimableRows :
         /\ batch # {} /\ Cardinality(batch) <= RelayLimit
         /\ Cardinality(batch) < RelayLimit => batch = ClaimableRows
         /\ \A r \in batch, q \in ClaimableRows \ batch : r < q
         /\ lock' = [r \in OutboxRows |-> IF r \in batch THEN "held" ELSE lock[r]]
         /\ relay' = [relay EXCEPT ![w] = [Idle EXCEPT !.at = "next", !.todo = batch]]
    /\ UNCHANGED <<outbox, active, failures, attempts, parked, promised, settled, undelivered,
                   relayFaults, userCalls>>

Attempt(by, r, s) == [by |-> by, row |-> r, sub |-> s, at |-> "sending"]

\* publish, then the subscriptions that are active now are all sent to.
dispatchOutboxRow(w) ==
    /\ relay[w].at = "next"
    /\ \E r \in relay[w].todo :
         /\ \A q \in relay[w].todo : r <= q
         /\ LET matching == {s \in Subs : active[s]}
            IN  /\ attempts' = attempts \cup {Attempt(w, r, s) : s \in matching}
                /\ relay' = [relay EXCEPT ![w] = [at |-> "delivering", todo |-> @.todo \ {r},
                                                 row |-> r, to |-> matching]]
    /\ UNCHANGED <<outbox, lock, active, failures, parked, promised, settled, undelivered,
                   relayFaults, userCalls>>

\* The error is logged; the row stays locked and the relay goes on.
SkipRow(w) ==
    /\ relay[w].at = "next"
    /\ \E r \in relay[w].todo :
         /\ \A q \in relay[w].todo : r <= q
         /\ relay' = [relay EXCEPT ![w].todo = @ \ {r}]

\* A WebSocket client of this process that the event is for: its handler uses a
\* variable declared nowhere, and emit throws out of publish.
PublishThrows(w) ==
    /\ SkipRow(w)
    /\ UNCHANGED <<outbox, lock, active, failures, attempts, parked, promised, settled, undelivered,
                   relayFaults, userCalls>>

\* The query for the subscriptions fails.
DispatchFails(w) ==
    /\ SkipRow(w) /\ RelayFault
    /\ UNCHANGED <<outbox, lock, active, failures, attempts, parked, promised, settled,
                   undelivered, userCalls>>

InFlight(w) == {a \in attempts : a.by = w}

\* The end of an iteration.
NextRow(w) == relay' = [relay EXCEPT ![w].at = "next", ![w].row = NoRow, ![w].to = {}]

\* Mutant: the row is marked without waiting for its deliveries.
MarkDispatchedEarly(w) ==
    LET r == relay[w].row
    IN  /\ relay[w].at = "delivering"
        /\ outbox' = [outbox EXCEPT ![r] = "dispatched"]
        /\ lock' = [lock EXCEPT ![r] = IF outbox[r] = "pending" THEN "free" ELSE @]
        /\ promised' = promised \cup ({r} \X relay[w].to)
        /\ NextRow(w)
        /\ UNCHANGED <<active, failures, attempts, parked, settled, undelivered, relayFaults,
                       userCalls>>

\* Promise.all has returned: WHERE dispatched_at IS NULL makes a second mark a no-op.
MarkDispatched(w) ==
    LET r == relay[w].row
    IN  /\ relay[w].at = "delivering" /\ InFlight(w) = {}
        /\ outbox' = [outbox EXCEPT ![r] = "dispatched"]
        /\ lock' = [lock EXCEPT ![r] = IF outbox[r] = "pending" THEN "free" ELSE @]
        /\ promised' = promised \cup ({r} \X relay[w].to)
        /\ NextRow(w)
        /\ UNCHANGED <<active, failures, attempts, parked, settled, undelivered, relayFaults,
                       userCalls>>

MarkFails(w) ==
    /\ relay[w].at = "delivering" /\ InFlight(w) = {} /\ RelayFault
    /\ NextRow(w)
    /\ UNCHANGED <<outbox, lock, active, failures, attempts, parked, promised, settled,
                   undelivered, userCalls>>

RelayReturns(w) ==
    /\ relay[w].at = "next" /\ relay[w].todo = {}
    /\ relay' = [relay EXCEPT ![w] = Idle]
    /\ UNCHANGED <<outbox, lock, active, failures, attempts, parked, promised, settled,
                   undelivered, relayFaults, userCalls>>

\* The process dies with the attempts it has in flight.
RelayCrash(w) ==
    /\ relay[w].at # "idle" /\ RelayFault
    /\ relay' = [relay EXCEPT ![w] = Idle]
    /\ attempts' = attempts \ InFlight(w)
    /\ UNCHANGED <<outbox, lock, active, failures, parked, promised, settled, undelivered,
                   userCalls>>

-----------------------------------------------------------------------------
(* An attempt. *)

Moved(a, place) == (attempts \ {a}) \cup {[a EXCEPT !.at = place]}

sendOnce(a) ==
    /\ a.at = "sending"
    /\ \E ok \in SendOutcomes : attempts' = Moved(a, IF ok THEN "sent" ELSE "failed")
    /\ UNCHANGED <<outbox, lock, active, failures, relayVars, parked, promised, settled,
                   undelivered, userCalls>>

\* Mutant: the limit is compared before the failure is counted.
CountFailureFirst(s) ==
    /\ failures' = [failures EXCEPT ![s] = @ + 1]
    /\ active' = [active EXCEPT ![s] = failures[s] < MaxFailures]

\* The UPDATE after a failed attempt sets active from the counter, whatever it was.
CountFailure(s) ==
    /\ failures' = [failures EXCEPT ![s] = @ + 1]
    /\ active' = [active EXCEPT ![s] = failures[s] + 1 < MaxFailures]

\* A success ends the attempt, and closes the queue's entry if it was a retry.
recordSuccess(a) ==
    /\ a.at = "sent"
    /\ failures' = [failures EXCEPT ![a.sub] = 0]
    /\ attempts' = attempts \ {a}
    /\ parked' = IF a.by = "retry" THEN parked \ {<<a.row, a.sub>>} ELSE parked
    /\ settled' = settled \cup {<<a.row, a.sub>>}
    /\ UNCHANGED <<outbox, lock, active, relayVars, promised, undelivered, userCalls>>

\* After a failure only a relay's attempt goes on, to the dead letter queue.
recordFailed(a) ==
    /\ a.at = "failed"
    /\ CountFailure(a.sub)
    /\ attempts' = IF a.by \in Relays THEN Moved(a, "recorded") ELSE attempts \ {a}
    /\ UNCHANGED <<outbox, lock, relayVars, parked, promised, settled, undelivered, userCalls>>

dlqEnqueue(a) ==
    /\ a.at = "recorded"
    /\ attempts' = attempts \ {a}
    /\ parked' = parked \cup {<<a.row, a.sub>>}
    /\ settled' = settled \cup {<<a.row, a.sub>>}
    /\ UNCHANGED <<outbox, lock, active, failures, relayVars, promised, undelivered, userCalls>>

\* recordWebhookDelivery throws before the counters are written, or the queue's
\* insert fails: either ends the attempt, and what a relay had failed to send is lost.
AttemptStatementFails(a) ==
    /\ a.at \in {"sent", "failed", "recorded"} /\ RelayFault
    /\ attempts' = attempts \ {a}
    /\ settled' = IF a.at = "sent" THEN settled \cup {<<a.row, a.sub>>} ELSE settled
    /\ undelivered' = IF a.at = "sent" \/ a.by \notin Relays THEN undelivered
                      ELSE undelivered \cup {<<a.row, a.sub>>}
    /\ UNCHANGED <<outbox, lock, active, failures, relay, parked, promised, userCalls>>

-----------------------------------------------------------------------------
(* Retries of the dead letter queue, and the owners' requests. *)

\* Dropped when the subscription is off by now.
retryWebhookDelivery(r, s) ==
    /\ <<r, s>> \in parked
    /\ \A a \in attempts : ~(a.by = "retry" /\ a.row = r /\ a.sub = s)
    /\ IF active[s] THEN attempts' = attempts \cup {Attempt("retry", r, s)} /\ UNCHANGED parked
                    ELSE parked' = parked \ {<<r, s>>} /\ UNCHANGED attempts
    /\ UNCHANGED <<outbox, lock, active, failures, relayVars, promised, settled, undelivered,
                   userCalls>>

UserCall == userCalls < MaxUserCalls /\ userCalls' = userCalls + 1

deactivateWebhookSubscription(s) ==
    /\ UserCall
    /\ active' = [active EXCEPT ![s] = FALSE]
    /\ UNCHANGED <<outbox, lock, failures, relayVars, attempts, parked, promised, settled,
                   undelivered>>

\* POST /:id/test looks at no flag; a manual retry asks for an active subscription.
sendTestEvent(s) ==
    /\ UserCall
    /\ attempts' = attempts \cup {Attempt("user", NoRow, s)}
    /\ UNCHANGED <<outbox, lock, active, failures, relayVars, parked, promised, settled,
                   undelivered>>

-----------------------------------------------------------------------------
RelayStep(w) ==
    \/ claimOutbox(w) \/ dispatchOutboxRow(w) \/ PublishThrows(w)
    \/ MarkDispatched(w) \/ RelayReturns(w)

AttemptStep(a) == sendOnce(a) \/ recordSuccess(a) \/ recordFailed(a) \/ dlqEnqueue(a)

DeliveryNext ==
    \/ \E r \in OutboxRows : enqueueOutbox(r) \/ LockExpires(r)
    \/ \E w \in Relays : RelayStep(w) \/ DispatchFails(w) \/ MarkFails(w) \/ RelayCrash(w)
    \/ \E a \in attempts : AttemptStep(a) \/ AttemptStatementFails(a)
    \/ \E r \in OutboxRows, s \in Subs : retryWebhookDelivery(r, s)
    \/ \E s \in Subs : deactivateWebhookSubscription(s) \/ sendTestEvent(s)

DeliverySpec == DeliveryInit /\ [][DeliveryNext]_deliveryVars

\* The timer keeps starting relays, locks grow old, and a relay's deliveries and
\* statements return (a send times out after five seconds).
DeliveryFairness ==
    /\ \A r \in OutboxRows : WF_deliveryVars(LockExpires(r))
    /\ \A w \in Relays : /\ WF_deliveryVars(RelayStep(w))
                         /\ WF_deliveryVars(\E a \in InFlight(w) : AttemptStep(a))
-----------------------------------------------------------------------------
(* Properties. *)

Attempts == [by : Relays \cup {"retry", "user"}, row : OutboxRows \cup {NoRow}, sub : Subs,
             at : {"sending", "sent", "failed", "recorded"}]

DeliveryTypeOK ==
    /\ outbox \in [OutboxRows -> {"absent", "pending", "dispatched"}]
    /\ lock \in [OutboxRows -> {"free", "held", "expired"}]
    /\ active \in [Subs -> BOOLEAN] /\ failures \in [Subs -> Nat]
    /\ relay \in [Relays -> [at : {"idle", "next", "delivering"}, todo : SUBSET OutboxRows,
                             row : OutboxRows \cup {NoRow}, to : SUBSET Subs]]
    /\ attempts \subseteq Attempts
    /\ parked \subseteq OutboxRows \X Subs /\ promised \subseteq OutboxRows \X Subs
    /\ settled \subseteq (OutboxRows \cup {NoRow}) \X Subs
    /\ undelivered \subseteq OutboxRows \X Subs
    /\ relayFaults \in 0..MaxRelayFaults /\ userCalls \in 0..MaxUserCalls

\* "marks rows dispatched only after delivery": every delivery that the relay of a
\* dispatched row had set out to make was made or parked in the dead letter queue,
\* across crashes, expired locks and overlapping relays.  Only a failed statement
\* loses one, and each costs one delivery at most.
NothingForgotten ==
    promised \subseteq settled \cup undelivered /\ Cardinality(undelivered) <= relayFaults

\* "auto-disables a subscription once WEBHOOK_MAX_CONSECUTIVE_FAILURES consecutive
\* attempts fail": however relays, retries and test events record their outcomes, an
\* active subscription has failed fewer times in a row.
BreakerHolds == \A s \in Subs : active[s] => failures[s] < MaxFailures

\* "A relay crash therefore causes a retry": every queued row is dispatched in the
\* end, if from some time on publish throws no more.  A single process that always has
\* a listening WebSocket client is enough to keep a row from all the relays: it may
\* be the one to claim it whenever the lock expires.
EveryRowDispatched ==
    <>[][\A w \in Relays : ~PublishThrows(w)]_deliveryVars =>
        \A r \in OutboxRows : outbox[r] = "pending" ~> outbox[r] = "dispatched"
=============================================================================
