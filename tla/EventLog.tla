------------------------------ MODULE EventLog ------------------------------
(***************************************************************************)
(* The on-chain event log of the explorer contract: a ring buffer of       *)
(* max_events slots, addressed by seq % max_events, whose capacity the     *)
(* admin may change (contracts/explorer/src/lib.rs: submit_event,          *)
(* submit_events, store_event, set_max_events, get_event; the arithmetic   *)
(* is state.rs).                                                           *)
(***************************************************************************)
EXTENDS ExplorerAdmin, Integers, FiniteSets

CONSTANTS
    Inputs,        \* event payloads
    InvalidInputs, \* those validate_event_input rejects
    NoEvent,       \* an empty slot
    MinMaxEvents,  \* MIN_MAX_EVENTS
    MaxMaxEvents,  \* MAX_MAX_EVENTS, the largest capacity init takes
    MaxBatch,      \* MAX_BATCH
    MaxCapacity,   \* bound: the largest capacity set_max_events is given (u32::MAX)
    MaxSeq         \* bound: sequence numbers that can be reserved (u64::MAX)

ASSUME EventLogAssumption ==
    /\ NoEvent \notin Inputs /\ InvalidInputs \subseteq Inputs
    /\ MinMaxEvents \in Nat \ {0} /\ MaxMaxEvents \in Nat /\ MaxBatch \in Nat
    /\ MaxCapacity \in Nat /\ MaxMaxEvents <= MaxCapacity
    /\ MaxSeq \in Nat

Slots == 0..(MaxCapacity - 1)
Seqs  == 0..(MaxSeq - 1)

VARIABLES
    eventSeq,    \* EventSeq: the next sequence number
    maxEvents,   \* MaxEvents
    log,         \* EventLog(slot): the stored event, or NoEvent
    accepted,    \* history: the payload submitted under each sequence number
    announced,   \* history: sequence numbers cap_hit has named as evicted
    resizedAt    \* history: eventSeq at the last set_max_events

eventLogVars == <<admin, paused, eventSeq, maxEvents, log, accepted, announced, resizedAt>>
logVars == <<eventSeq, maxEvents, log, accepted, announced, resizedAt>>

-----------------------------------------------------------------------------
(* state.rs *)

ring_slot(s, max) == s % max

\* Mutant: the sequence number after the evicted one.
evicted_seqs_off_by_one(S, max) == {e \in Seqs : e + max - 1 \in S}

\* checked_sub: nothing is evicted before the buffer wraps.
evicted_seqs(S, max) == {e \in Seqs : e + max \in S}

\* Mutant: the count goes on past the capacity.
retained_count_unbounded(next, max) == next

retained_count(next, max) == IF next < max THEN next ELSE max

oldest_retained(next, max) == IF next < max THEN 0 ELSE next - max

check_batch(count, max) == count # 0 /\ count <= MaxBatch /\ count <= max

check_resize_wrapped(next, current, new) == new >= MinMaxEvents

check_resize(next, current, new) == new >= MinMaxEvents /\ next < current

\* reserve_seqs: checked_add, so that the counter never wraps.
reserve_seqs(next, count) == next + count <= MaxSeq

-----------------------------------------------------------------------------
LogInit ==
    /\ AdminInit
    /\ eventSeq = 0 /\ maxEvents = 0
    /\ log = [slot \in Slots |-> NoEvent]
    /\ accepted = [s \in Seqs |-> NoEvent] /\ announced = {} /\ resizedAt = 0

init_log(newAdmin, cap) ==
    /\ InitAdmin(newAdmin)
    /\ MinMaxEvents <= cap /\ cap <= MaxMaxEvents
    /\ maxEvents' = cap
    /\ UNCHANGED <<eventSeq, log, accepted, announced, resizedAt>>

\* No upper limit here, unlike init.
set_max_events(caller, newMax) ==
    /\ require_admin(caller)
    /\ check_resize(eventSeq, maxEvents, newMax)
    /\ maxEvents' = newMax
    /\ resizedAt' = eventSeq
    /\ UNCHANGED <<admin, paused, eventSeq, log, accepted, announced>>

\* store_event for each of the batch in turn (a later write to the same slot wins),
\* with its cap_hit, and the counter written once.
store_events(inputs, count) ==
    LET new == eventSeq..(eventSeq + count - 1)
        Written(slot) == {s \in new : ring_slot(s, maxEvents) = slot}
        Last(S) == CHOOSE s \in S : \A t \in S : t <= s
    IN  /\ log' = [slot \in Slots |->
                     IF Written(slot) = {} THEN log[slot]
                     ELSE [seq   |-> Last(Written(slot)),
                           input |-> inputs[Last(Written(slot)) - eventSeq + 1]]]
        /\ accepted' = [s \in Seqs |-> IF s \in new THEN inputs[s - eventSeq + 1] ELSE accepted[s]]
        /\ announced' = announced \cup evicted_seqs(new, maxEvents)
        /\ eventSeq' = eventSeq + count

submit_event(caller, input) ==
    /\ input \notin InvalidInputs
    /\ ensure_writable
    /\ require_admin(caller)
    /\ reserve_seqs(eventSeq, 1)
    /\ store_events([i \in 1..1 |-> input], 1)
    /\ UNCHANGED <<admin, paused, maxEvents, resizedAt>>

\* All or nothing: one invalid item rejects the batch.
submit_events(caller, inputs, count) ==
    /\ ensure_writable
    /\ require_admin(caller)
    /\ check_batch(count, maxEvents)
    /\ \A i \in 1..count : inputs[i] \notin InvalidInputs
    /\ reserve_seqs(eventSeq, count)
    /\ store_events(inputs, count)
    /\ UNCHANGED <<admin, paused, maxEvents, resizedAt>>

LogNext ==
    \/ \E a \in Addresses, cap \in 0..MaxCapacity : init_log(a, cap)
    \/ \E caller \in Addresses :
         \/ \E a \in Addresses : transfer_admin(caller, a) /\ UNCHANGED logVars
         \/ pause(caller) /\ UNCHANGED logVars
         \/ unpause(caller) /\ UNCHANGED logVars
         \/ \E newMax \in 0..MaxCapacity : set_max_events(caller, newMax)
         \/ \E input \in Inputs : submit_event(caller, input)
         \/ \E count \in 1..MaxBatch : \E inputs \in [1..count -> Inputs] :
              submit_events(caller, inputs, count)

LogSpec == LogInit /\ [][LogNext]_eventLogVars
-----------------------------------------------------------------------------
(* Properties. *)

Events == [seq : Seqs, input : Inputs]

LogTypeOK ==
    /\ AdminTypeOK
    /\ eventSeq \in 0..MaxSeq
    /\ maxEvents \in 0..MaxCapacity /\ (admin # NoAdmin => maxEvents >= MinMaxEvents)
    /\ log \in [Slots -> Events \cup {NoEvent}]
    /\ accepted \in [Seqs -> Inputs \cup {NoEvent}]
    /\ announced \subseteq Seqs
    /\ resizedAt \in 0..eventSeq

\* get_event(s) answers with the payload submitted under s.
Retrievable(s) ==
    maxEvents > 0 /\ log[ring_slot(s, maxEvents)] = [seq |-> s, input |-> accepted[s]]

InWindow(s) == oldest_retained(eventSeq, maxEvents) <= s /\ s < eventSeq

\* An accepted event stays retrievable, with its own payload, until max_events
\* newer ones have been accepted: neither wrapping, a batch that crosses the end
\* of the buffer, nor a resize loses one early.  The exception is what the
\* last set_max_events cut off, the events from the new capacity upwards that
\* were in the log when the buffer was shrunk below its fill.
WindowIntact ==
    \A s \in Seqs : InWindow(s) /\ (s < maxEvents \/ resizedAt <= s) => Retrievable(s)

\* cap_hit never names an event that get_event still answers.
AnnouncedAreGone == \A s \in announced : ~Retrievable(s)

\* event_count is exact: get_event answers for as many sequence numbers as
\* retained_count says, before and after wrapping and across every resize (a
\* shrink changes which ones, not how many).
EventCountExact ==
    maxEvents > 0 =>
        Cardinality({s \in Seqs : s < eventSeq /\ Retrievable(s)}) = retained_count(eventSeq, maxEvents)
=============================================================================
