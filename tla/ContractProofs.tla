--------------------------- MODULE ContractProofs ---------------------------
(***************************************************************************)
(* Proofs about two parts of the contracts.  EventLog, for every           *)
(* capacity, batch size and number of events: the types, that the ring     *)
(* buffer loses no event before max_events newer ones have been accepted,  *)
(* and that event_count is exact.  Ticket, for any people, prices and      *)
(* number of seats: the types, and that the contract always holds exactly  *)
(* the face price of the seats not refunded.                               *)
(***************************************************************************)
EXTENDS EventLog, Ticket, FiniteSetTheorems, TLAPS

USE AdminAssumption, EventLogAssumption

-----------------------------------------------------------------------------
(* The ring's arithmetic. *)

\* A sequence number below the capacity is its own slot.
LEMMA SlotBelow == ASSUME NEW m \in Nat \ {0}, NEW s \in Nat, s < m PROVE ring_slot(s, m) = s
  BY DEF ring_slot

\* A slot lies within the buffer.
LEMMA SlotInRange == ASSUME NEW m \in Nat \ {0}, NEW s \in Nat PROVE ring_slot(s, m) \in 0..(m - 1)
  BY DEF ring_slot

\* Sequence numbers less than a capacity apart never share a slot.
LEMMA SlotsDistinct ==
  ASSUME NEW m \in Nat \ {0}, NEW s \in Nat, NEW t \in Nat, s < t, t - s < m
  PROVE  ring_slot(s, m) # ring_slot(t, m)
<1> SUFFICES ASSUME s % m = t % m PROVE FALSE
  BY DEF ring_slot
<1>1. s % m = s - m * (s \div m) /\ t % m = t - m * (t \div m)
  OBVIOUS
<1>2. s \div m \in Int /\ t \div m \in Int
  OBVIOUS
<1> DEFINE q == (t \div m) - (s \div m)
<1>3. q \in Int /\ t - s = m * q
  BY <1>1, <1>2
<1> HIDE DEF q
<1>4. q >= 1
  BY <1>3
<1>5. m * q >= m
  BY <1>3, <1>4
<1> QED BY <1>3, <1>5

\* Sequence numbers exactly a capacity apart share a slot.
LEMMA SlotReused ==
  ASSUME NEW m \in Nat \ {0}, NEW s \in Nat
  PROVE  ring_slot(s + m, m) = ring_slot(s, m)
<1> DEFINE r == s % m
           u == (s + m) % m
           k == (s \div m) + 1 - ((s + m) \div m)
<1>1. s % m = s - m * (s \div m) /\ (s + m) % m = (s + m) - m * ((s + m) \div m)
  OBVIOUS
<1>2. s \div m \in Int /\ (s + m) \div m \in Int /\ r \in 0..(m - 1) /\ u \in 0..(m - 1)
  OBVIOUS
<1>3. k \in Int /\ u - r = m * k
  BY <1>1, <1>2
<1> HIDE DEF r, u, k
<1>4. ~(k >= 1) /\ ~(k <= -1)
  <2>1. k >= 1 => m * k >= m
    BY <1>3
  <2>2. k <= -1 => m * k <= -m
    BY <1>3
  <2> QED BY <1>2, <1>3, <2>1, <2>2
<1>5. k = 0
  BY <1>3, <1>4
<1>6. u = r
  BY <1>2, <1>3, <1>5
<1> QED BY <1>6 DEF r, u, ring_slot

-----------------------------------------------------------------------------
(* The inductive invariant. *)

\* Before init there are no events; an announced event's slot has been reused.
StartInv == admin = NoAdmin => eventSeq = 0 /\ announced = {}

GoneInv ==
    \A e \in announced :
        /\ e + maxEvents < eventSeq
        /\ \E w \in Seqs, input \in Inputs :
             w # e /\ log[ring_slot(e, maxEvents)] = [seq |-> w, input |-> input]

\* Each of the retained_count slots in use holds an event that get_event finds there.
Answered(k) == \E s \in Seqs : s < eventSeq /\ ring_slot(s, maxEvents) = k /\ Retrievable(s)

FilledInv == maxEvents > 0 => \A k \in 0..(retained_count(eventSeq, maxEvents) - 1) : Answered(k)

IInv == LogTypeOK /\ StartInv /\ WindowIntact /\ GoneInv /\ FilledInv

\* What store_events does to the slots: each new event is in its own one, which no
\* other event of the batch takes, and the other slots are as they were.
LEMMA StoreSlots ==
  ASSUME LogTypeOK, maxEvents > 0,
         NEW count \in Nat, 1 <= count, count <= maxEvents, eventSeq + count <= MaxSeq,
         NEW inputs \in [1..count -> Inputs], store_events(inputs, count)
  PROVE  /\ \A s \in eventSeq..(eventSeq + count - 1) :
              log'[ring_slot(s, maxEvents)] = [seq |-> s, input |-> inputs[s - eventSeq + 1]]
         /\ \A slot \in Slots :
              (\A s \in eventSeq..(eventSeq + count - 1) : ring_slot(s, maxEvents) # slot)
                => log'[slot] = log[slot]
         /\ log' \in [Slots -> Events \cup {NoEvent}]
<1> DEFINE new == eventSeq..(eventSeq + count - 1)
           Written(slot) == {s \in new : ring_slot(s, maxEvents) = slot}
           Latest(S) == CHOOSE s \in S : \A t \in S : t <= s
           Entry(s) == [seq |-> s, input |-> inputs[s - eventSeq + 1]]
<1>1. log' = [slot \in Slots |->
                 IF Written(slot) = {} THEN log[slot] ELSE Entry(Latest(Written(slot)))]
  BY DEF store_events
<1>2. eventSeq \in Nat /\ maxEvents \in Nat \ {0} /\ maxEvents <= MaxCapacity
      /\ log \in [Slots -> Events \cup {NoEvent}]
  BY DEF LogTypeOK
<1>3. ASSUME NEW s \in new PROVE ring_slot(s, maxEvents) \in Slots /\ Entry(s) \in Events
  <2>1. s \in Nat /\ s \in Seqs /\ s - eventSeq + 1 \in 1..count
    BY <1>2 DEF Seqs
  <2>2. ring_slot(s, maxEvents) \in 0..(maxEvents - 1)
    BY <1>2, <2>1, SlotInRange
  <2>3. 0..(maxEvents - 1) \subseteq Slots
    BY <1>2 DEF Slots
  <2> QED BY <2>1, <2>2, <2>3 DEF Events
<1>4. ASSUME NEW s \in new PROVE Written(ring_slot(s, maxEvents)) = {s}
  <2>1. \A t \in new : ring_slot(t, maxEvents) = ring_slot(s, maxEvents) => t = s
    <3> SUFFICES ASSUME NEW t \in new, ring_slot(t, maxEvents) = ring_slot(s, maxEvents), t # s
                 PROVE  FALSE
      OBVIOUS
    <3>1. s \in Nat /\ t \in Nat /\ t - s < maxEvents /\ s - t < maxEvents
      BY <1>2
    <3>2. ~(s < t)
      BY <1>2, <3>1, SlotsDistinct
    <3>3. ~(t < s)
      BY <1>2, <3>1, SlotsDistinct
    <3> QED BY <3>1, <3>2, <3>3
  <2> QED BY <2>1
<1>5. ASSUME NEW s \in new PROVE Latest({s}) = s
  BY <1>2
<1> HIDE DEF Written, Latest, Entry, new
<1>6. ASSUME NEW s \in new PROVE log'[ring_slot(s, maxEvents)] = Entry(s)
  BY <1>1, <1>3, <1>4, <1>5
<1>7. ASSUME NEW slot \in Slots, Written(slot) # {}
      PROVE  \E s \in new : slot = ring_slot(s, maxEvents)
  BY <1>7 DEF Written
<1>8. ASSUME NEW slot \in Slots PROVE log'[slot] \in Events \cup {NoEvent}
  <2>1. CASE Written(slot) = {}
    BY <1>1, <1>2, <2>1
  <2>2. CASE Written(slot) # {}
    <3>1. PICK s \in new : slot = ring_slot(s, maxEvents)
      BY <1>7, <2>2
    <3> QED BY <1>3, <1>6, <3>1
  <2> QED BY <2>1, <2>2
<1>9. log' \in [Slots -> Events \cup {NoEvent}]
  BY <1>1, <1>8
<1>10. ASSUME NEW slot \in Slots, \A s \in new : ring_slot(s, maxEvents) # slot
       PROVE  log'[slot] = log[slot]
  BY <1>1, <1>7, <1>10
<1> QED
  BY <1>6, <1>9, <1>10 DEF new, Entry

\* Accepting events, singly or as a batch, keeps the invariant: the slots the new
\* events take belonged to events that just left the window.
LEMMA StoreInv ==
  ASSUME IInv, admin # NoAdmin,
         NEW count \in Nat, 1 <= count, count <= maxEvents, eventSeq + count <= MaxSeq,
         NEW inputs \in [1..count -> Inputs], store_events(inputs, count),
         UNCHANGED <<admin, paused, maxEvents, resizedAt>>
  PROVE  IInv'
<1> DEFINE new == eventSeq..(eventSeq + count - 1)
<1>1. /\ eventSeq \in Nat /\ maxEvents \in Nat \ {0} /\ maxEvents <= MaxCapacity
      /\ resizedAt \in Nat /\ announced \subseteq Seqs
      /\ LogTypeOK
  BY DEF IInv, LogTypeOK
<1>2. /\ eventSeq' = eventSeq + count
      /\ accepted' = [s \in Seqs |-> IF s \in new THEN inputs[s - eventSeq + 1] ELSE accepted[s]]
      /\ announced' = announced \cup evicted_seqs(new, maxEvents)
  BY DEF store_events
<1>s. /\ \A s \in eventSeq..(eventSeq + count - 1) :
           log'[ring_slot(s, maxEvents)] = [seq |-> s, input |-> inputs[s - eventSeq + 1]]
      /\ \A slot \in Slots :
           (\A s \in eventSeq..(eventSeq + count - 1) : ring_slot(s, maxEvents) # slot)
             => log'[slot] = log[slot]
      /\ log' \in [Slots -> Events \cup {NoEvent}]
  <2>1. LogTypeOK /\ maxEvents > 0
    BY <1>1
  <2> HIDE DEF new
  <2> QED BY <2>1, StoreSlots
<1>3. \A s \in new : log'[ring_slot(s, maxEvents)] = [seq |-> s, input |-> inputs[s - eventSeq + 1]]
  BY <1>s
<1>4. \A slot \in Slots : (\A s \in new : ring_slot(s, maxEvents) # slot) => log'[slot] = log[slot]
  BY <1>s
<1>5. log' \in [Slots -> Events \cup {NoEvent}]
  BY <1>s
<1>6. ASSUME NEW s \in Nat PROVE ring_slot(s, maxEvents) \in Slots
  <2>1. ring_slot(s, maxEvents) \in 0..(maxEvents - 1)
    BY <1>1, SlotInRange
  <2> QED BY <1>1, <2>1 DEF Slots
<1>7. ASSUME NEW s \in new PROVE s \in Seqs /\ s \in Nat /\ inputs[s - eventSeq + 1] \in Inputs
  BY <1>1 DEF Seqs
<1>8. LogTypeOK'
  <2>1. accepted' \in [Seqs -> Inputs \cup {NoEvent}]
    BY <1>1, <1>2, <1>7 DEF LogTypeOK
  <2>2. announced' \subseteq Seqs
    BY <1>1, <1>2 DEF evicted_seqs
  <2>3. eventSeq' \in 0..MaxSeq /\ resizedAt' \in 0..eventSeq'
    BY <1>1, <1>2 DEF LogTypeOK
  <2>4. maxEvents' \in 0..MaxCapacity /\ (admin' # NoAdmin => maxEvents' >= MinMaxEvents) /\ AdminTypeOK'
    BY <1>1 DEF LogTypeOK, AdminTypeOK
  <2> QED BY <1>5, <2>1, <2>2, <2>3, <2>4 DEF LogTypeOK
<1>9. WindowIntact'
  <2> SUFFICES ASSUME NEW s \in Seqs, InWindow(s)', s < maxEvents \/ resizedAt <= s
               PROVE  Retrievable(s)'
    BY DEF WindowIntact
  <2>1. s \in Nat /\ s < eventSeq + count /\ eventSeq + count <= s + maxEvents
    BY <1>1, <1>2 DEF InWindow, oldest_retained, Seqs
  <2>2. CASE s \in new
    <3>1. log'[ring_slot(s, maxEvents)] = [seq |-> s, input |-> accepted'[s]]
      BY <1>2, <1>3, <2>2
    <3> QED BY <1>1, <3>1 DEF Retrievable
  <2>3. CASE s \notin new
    <3>1. s < eventSeq
      BY <1>1, <2>1, <2>3
    <3>2. InWindow(s)
      BY <1>1, <2>1, <3>1 DEF InWindow, oldest_retained
    <3>3. Retrievable(s)
      BY <3>2 DEF IInv, WindowIntact
    <3>4. ASSUME NEW t \in new PROVE ring_slot(t, maxEvents) # ring_slot(s, maxEvents)
      <4>1. t \in Nat /\ s < t /\ t - s < maxEvents
        BY <1>1, <2>1, <3>1
      <4> QED BY <1>1, <2>1, <4>1, SlotsDistinct
    <3>5. log'[ring_slot(s, maxEvents)] = log[ring_slot(s, maxEvents)]
      BY <1>4, <1>6, <2>1, <3>4
    <3>6. accepted'[s] = accepted[s]
      BY <1>2, <2>3
    <3> QED BY <3>3, <3>5, <3>6 DEF Retrievable
  <2> QED BY <2>2, <2>3
<1>10. GoneInv'
  <2> SUFFICES ASSUME NEW e \in announced'
               PROVE  /\ e + maxEvents < eventSeq'
                      /\ \E w \in Seqs, input \in Inputs :
                           w # e /\ log'[ring_slot(e, maxEvents)] = [seq |-> w, input |-> input]
    BY DEF GoneInv
  <2>1. e \in Nat
    BY <1>1, <1>2 DEF evicted_seqs, Seqs
  <2>2. CASE e + maxEvents \in new
    <3>1. ring_slot(e + maxEvents, maxEvents) = ring_slot(e, maxEvents)
      BY <1>1, <2>1, SlotReused
    <3>2. e + maxEvents # e /\ e + maxEvents < eventSeq'
      BY <1>1, <1>2, <2>1, <2>2
    <3> DEFINE w == e + maxEvents
    <3>3. w \in new /\ w # e /\ ring_slot(w, maxEvents) = ring_slot(e, maxEvents)
      BY <2>2, <3>1, <3>2
    <3> HIDE DEF w, new
    <3>4. log'[ring_slot(e, maxEvents)] = [seq |-> w, input |-> inputs[w - eventSeq + 1]]
      BY <1>3, <3>3
    <3>5. w \in Seqs /\ inputs[w - eventSeq + 1] \in Inputs
      BY <1>7, <3>3
    <3> QED BY <3>2, <3>3, <3>4, <3>5
  <2>3. CASE e + maxEvents \notin new
    <3>1. e \in announced
      BY <1>2, <2>3 DEF evicted_seqs
    <3>2. e + maxEvents < eventSeq /\ e < eventSeq
      BY <1>1, <2>1, <3>1 DEF IInv, GoneInv
    <3>3. PICK w \in Seqs, input \in Inputs :
            w # e /\ log[ring_slot(e, maxEvents)] = [seq |-> w, input |-> input]
      BY <3>1 DEF IInv, GoneInv
    <3>4. CASE \E s \in new : ring_slot(s, maxEvents) = ring_slot(e, maxEvents)
      <4>1. PICK s \in new : ring_slot(s, maxEvents) = ring_slot(e, maxEvents)
        BY <3>4
      <4>2. s # e /\ e + maxEvents < eventSeq'
        BY <1>1, <1>2, <2>1, <3>2
      <4> QED BY <1>3, <1>7, <4>1, <4>2
    <3>5. CASE ~(\E s \in new : ring_slot(s, maxEvents) = ring_slot(e, maxEvents))
      <4>1. log'[ring_slot(e, maxEvents)] = log[ring_slot(e, maxEvents)]
        BY <1>4, <1>6, <2>1, <3>5
      <4>2. e + maxEvents < eventSeq'
        BY <1>1, <1>2, <2>1, <3>2
      <4> QED BY <3>3, <4>1, <4>2
    <3> QED BY <3>4, <3>5
  <2> QED BY <2>2, <2>3
<1>11. StartInv'
  BY DEF StartInv
<1>12. FilledInv'
  <2> SUFFICES ASSUME NEW k \in 0..(retained_count(eventSeq + count, maxEvents) - 1)
               PROVE  Answered(k)'
    BY <1>1, <1>2 DEF FilledInv
  <2>1. k \in Nat /\ k < maxEvents /\ k < eventSeq + count
    BY <1>1 DEF retained_count
  <2>2. CASE \E s \in new : ring_slot(s, maxEvents) = k
    <3>1. PICK s \in new : ring_slot(s, maxEvents) = k
      BY <2>2
    <3>2. log'[ring_slot(s, maxEvents)] = [seq |-> s, input |-> accepted'[s]]
      BY <1>2, <1>3, <1>7
    <3>3. s \in Seqs /\ s < eventSeq' /\ maxEvents' = maxEvents
      BY <1>1, <1>2, <1>7
    <3> HIDE DEF new
    <3> QED BY <1>1, <3>1, <3>2, <3>3 DEF Answered, Retrievable
  <2>3. CASE \A s \in new : ring_slot(s, maxEvents) # k
    <3>1. k < eventSeq
      <4> SUFFICES ASSUME k >= eventSeq PROVE FALSE
        BY <1>1, <2>1
      <4>1. k \in new /\ ring_slot(k, maxEvents) = k
        BY <1>1, <2>1, SlotBelow
      <4> QED BY <2>3, <4>1
    <3>2. PICK s \in Seqs : s < eventSeq /\ ring_slot(s, maxEvents) = k /\ Retrievable(s)
      BY <1>1, <2>1, <3>1 DEF IInv, FilledInv, Answered, retained_count
    <3>3. log'[k] = log[k] /\ accepted'[s] = accepted[s] /\ s < eventSeq'
      <4>1. k \in Slots
        BY <1>1, <2>1 DEF Slots
      <4>2. s \notin new /\ s < eventSeq'
        BY <1>1, <1>2, <3>2 DEF Seqs
      <4> QED BY <1>2, <1>4, <2>3, <4>1, <4>2
    <3> HIDE DEF new
    <3> QED BY <1>1, <3>2, <3>3 DEF Answered, Retrievable
  <2> QED BY <2>2, <2>3
<1> QED BY <1>8, <1>9, <1>10, <1>11, <1>12 DEF IInv

\* A resize is allowed only while every event is still in the slot of its own
\* number, which is its slot under any capacity above it.
LEMMA ResizeInv ==
  ASSUME IInv, NEW caller \in Addresses, NEW newMax \in 0..MaxCapacity,
         set_max_events(caller, newMax)
  PROVE  IInv'
<1>1. /\ UNCHANGED <<admin, paused, eventSeq, log, accepted, announced>>
      /\ maxEvents' = newMax /\ resizedAt' = eventSeq /\ newMax >= MinMaxEvents /\ eventSeq < maxEvents
  BY DEF set_max_events, check_resize
<1>2. eventSeq \in Nat /\ maxEvents \in Nat \ {0} /\ newMax \in Nat \ {0}
  BY <1>1 DEF IInv, LogTypeOK
<1>3. LogTypeOK'
  BY <1>1, <1>2 DEF IInv, LogTypeOK, AdminTypeOK
<1>4. announced = {}
  <2> SUFFICES ASSUME NEW e \in announced PROVE FALSE
    OBVIOUS
  <2>1. e + maxEvents < eventSeq /\ e \in Nat
    BY DEF IInv, GoneInv, LogTypeOK, Seqs
  <2> QED BY <1>1, <1>2, <2>1
<1>5. WindowIntact'
  <2> SUFFICES ASSUME NEW s \in Seqs, InWindow(s)', s < newMax \/ eventSeq <= s
               PROVE  Retrievable(s)'
    BY <1>1 DEF WindowIntact
  <2>1. s \in Nat /\ s < eventSeq /\ s < newMax /\ s < maxEvents
    BY <1>1, <1>2 DEF InWindow, Seqs
  <2>2. InWindow(s)
    BY <1>1, <1>2, <2>1 DEF InWindow, oldest_retained
  <2>3. log[ring_slot(s, maxEvents)] = [seq |-> s, input |-> accepted[s]]
    BY <2>1, <2>2 DEF IInv, WindowIntact, Retrievable
  <2>4. ring_slot(s, maxEvents) = s /\ ring_slot(s, newMax) = s
    BY <1>2, <2>1, SlotBelow
  <2> QED BY <1>1, <1>2, <2>3, <2>4 DEF Retrievable
<1>6. GoneInv' /\ StartInv'
  BY <1>1, <1>4 DEF GoneInv, StartInv, IInv
<1>7. FilledInv'
  <2> SUFFICES ASSUME NEW k \in 0..(retained_count(eventSeq, newMax) - 1) PROVE Answered(k)'
    BY <1>1 DEF FilledInv
  <2>1. k \in Nat /\ k < newMax /\ k < eventSeq /\ k < maxEvents /\ k \in Seqs
    BY <1>1, <1>2 DEF retained_count, IInv, LogTypeOK, Seqs
  <2>2. InWindow(k)
    BY <1>1, <1>2, <2>1 DEF InWindow, oldest_retained
  <2>3. log[ring_slot(k, maxEvents)] = [seq |-> k, input |-> accepted[k]]
    BY <2>1, <2>2 DEF IInv, WindowIntact, Retrievable
  <2>4. ring_slot(k, maxEvents) = k /\ ring_slot(k, newMax) = k
    BY <1>2, <2>1, SlotBelow
  <2> QED BY <1>1, <1>2, <2>1, <2>3, <2>4 DEF Answered, Retrievable
<1> QED BY <1>3, <1>5, <1>6, <1>7 DEF IInv

\* The admin's other calls do not touch the log.
LEMMA AdminInv ==
  ASSUME IInv, UNCHANGED logVars, admin' # NoAdmin \/ admin' = admin,
         AdminTypeOK', admin' # NoAdmin => admin # NoAdmin
  PROVE  IInv'
<1>1. UNCHANGED <<eventSeq, maxEvents, log, accepted, announced, resizedAt>>
  BY DEF logVars
<1>2. LogTypeOK'
  BY <1>1 DEF IInv, LogTypeOK
<1>3. WindowIntact' /\ GoneInv' /\ StartInv' /\ FilledInv'
  BY <1>1 DEF IInv, WindowIntact, InWindow, Retrievable, GoneInv, StartInv, FilledInv, Answered
<1> QED BY <1>2, <1>3 DEF IInv

\* The invariant holds in every reachable state.
LEMMA Inductive == LogSpec => []IInv
<1>1. LogInit => IInv
  <2> SUFFICES ASSUME LogInit PROVE IInv
    OBVIOUS
  <2>1. LogTypeOK
    <3>1. AdminTypeOK /\ admin = NoAdmin
      BY DEF LogInit, AdminInit, AdminTypeOK
    <3>2. log \in [Slots -> Events \cup {NoEvent}] /\ accepted \in [Seqs -> Inputs \cup {NoEvent}]
      BY DEF LogInit
    <3>3. eventSeq \in 0..MaxSeq /\ maxEvents \in 0..MaxCapacity /\ resizedAt \in 0..eventSeq
          /\ announced \subseteq Seqs
      BY DEF LogInit
    <3> QED BY <3>1, <3>2, <3>3 DEF LogTypeOK
  <2>2. WindowIntact
    BY DEF LogInit, WindowIntact, InWindow, Seqs
  <2>3. FilledInv
    BY DEF LogInit, FilledInv
  <2> QED BY <2>1, <2>2, <2>3 DEF LogInit, IInv, StartInv, GoneInv
<1>2. ASSUME IInv, [LogNext]_eventLogVars PROVE IInv'
  <2>1. CASE UNCHANGED eventLogVars
    BY <1>2, <2>1, AdminInv DEF eventLogVars, logVars, IInv, LogTypeOK, AdminTypeOK
  <2>2. ASSUME NEW a \in Addresses, NEW cap \in 0..MaxCapacity, init_log(a, cap) PROVE IInv'
    <3>1. /\ admin = NoAdmin /\ admin' = a /\ MinMaxEvents <= cap /\ maxEvents' = cap
          /\ UNCHANGED <<paused, eventSeq, log, accepted, announced, resizedAt>>
      BY <2>2 DEF init_log, InitAdmin
    <3>2. eventSeq = 0 /\ announced = {}
      BY <1>2, <3>1 DEF IInv, StartInv
    <3>3. LogTypeOK'
      BY <1>2, <3>1 DEF IInv, LogTypeOK, AdminTypeOK
    <3>4. WindowIntact' /\ GoneInv' /\ StartInv'
      BY <3>1, <3>2 DEF WindowIntact, InWindow, Seqs, GoneInv, StartInv
    <3>5. FilledInv'
      BY <3>1, <3>2 DEF FilledInv, retained_count
    <3> QED BY <3>3, <3>4, <3>5 DEF IInv
  <2>3. ASSUME NEW caller \in Addresses, NEW a \in Addresses, UNCHANGED logVars,
               transfer_admin(caller, a) \/ pause(caller) \/ unpause(caller)
        PROVE  IInv'
    <3>1. admin \in Addresses /\ admin' \in Addresses /\ paused' \in BOOLEAN
      BY <1>2, <2>3 DEF transfer_admin, pause, unpause, require_admin, IInv, LogTypeOK, AdminTypeOK
    <3> QED BY <1>2, <2>3, <3>1, AdminInv DEF AdminTypeOK
  <2>4. ASSUME NEW caller \in Addresses, NEW input \in Inputs, submit_event(caller, input) PROVE IInv'
    <3>1. [i \in 1..1 |-> input] \in [1..1 -> Inputs] /\ 1 <= maxEvents /\ admin # NoAdmin
      BY <1>2, <2>4 DEF submit_event, require_admin, IInv, LogTypeOK
    <3>2. /\ eventSeq + 1 <= MaxSeq /\ store_events([i \in 1..1 |-> input], 1)
          /\ UNCHANGED <<admin, paused, maxEvents, resizedAt>>
      BY <2>4 DEF submit_event, reserve_seqs
    <3> DEFINE inputs == [i \in 1..1 |-> input]
    <3>3. inputs \in [1..1 -> Inputs] /\ store_events(inputs, 1) /\ 1 \in Nat /\ 1 <= 1
      BY <3>1, <3>2
    <3> HIDE DEF inputs
    <3> QED BY <1>2, <3>1, <3>2, <3>3, StoreInv
  <2>5. ASSUME NEW caller \in Addresses, NEW count \in 1..MaxBatch, NEW inputs \in [1..count -> Inputs],
               submit_events(caller, inputs, count)
        PROVE  IInv'
    <3>1. admin # NoAdmin /\ count <= maxEvents /\ count \in Nat /\ 1 <= count
      BY <2>5 DEF submit_events, require_admin, check_batch
    <3> QED BY <1>2, <2>5, <3>1, StoreInv DEF submit_events, reserve_seqs
  <2> QED
    BY <1>2, <2>1, <2>2, <2>3, <2>4, <2>5, ResizeInv DEF LogNext
<1> QED BY <1>1, <1>2, PTL DEF LogSpec

\* The counter, the capacity, the slots and the admin keep their types; once the
\* contract is initialised the capacity is at least MIN_MAX_EVENTS.
THEOREM TypeCorrect == LogSpec => []LogTypeOK
<1>1. IInv => LogTypeOK BY DEF IInv
<1> QED BY <1>1, Inductive, PTL

\* The ring buffer answers for every event of its window with that event's own
\* payload, except for what the last shrink cut off, for every capacity, batch
\* size and number of events.
THEOREM NoEarlyEviction == LogSpec => []WindowIntact
<1>1. IInv => WindowIntact BY DEF IInv
<1> QED BY <1>1, Inductive, PTL

\* An event that cap_hit names as evicted can never be fetched again.
THEOREM CapHitIsFinal == LogSpec => []AnnouncedAreGone
<1>1. IInv => AnnouncedAreGone
  <2> SUFFICES ASSUME IInv, NEW s \in announced, Retrievable(s) PROVE FALSE
    BY DEF AnnouncedAreGone
  <2>1. PICK w \in Seqs, input \in Inputs :
          w # s /\ log[ring_slot(s, maxEvents)] = [seq |-> w, input |-> input]
    BY DEF IInv, GoneInv
  <2>2. log[ring_slot(s, maxEvents)] = [seq |-> s, input |-> accepted[s]]
    BY DEF Retrievable
  <2>3. log[ring_slot(s, maxEvents)].seq = w /\ log[ring_slot(s, maxEvents)].seq = s
    BY <2>1, <2>2
  <2> QED BY <2>1, <2>3
<1> QED BY <1>1, Inductive, PTL

\* The events that can be fetched and the slots in use are one to one.
LEMMA OnePerSlot ==
  ASSUME IInv, maxEvents > 0
  PROVE  Cardinality({s \in Seqs : s < eventSeq /\ Retrievable(s)}) = retained_count(eventSeq, maxEvents)
<1> DEFINE n == retained_count(eventSeq, maxEvents)
           S == {s \in Seqs : s < eventSeq /\ Retrievable(s)}
           f == [s \in S |-> ring_slot(s, maxEvents)]
<1>1. /\ eventSeq \in Nat /\ maxEvents \in Nat \ {0}
      /\ n \in Nat /\ n = IF eventSeq < maxEvents THEN eventSeq ELSE maxEvents
  BY DEF IInv, LogTypeOK, retained_count
<1>2. ASSUME NEW s \in S PROVE f[s] \in 0..(n - 1)
  <2>1. s \in Nat /\ s < eventSeq
    BY DEF Seqs
  <2>2. f[s] \in 0..(maxEvents - 1) /\ (s < maxEvents => f[s] = s)
    BY <1>1, <2>1, SlotInRange, SlotBelow
  <2> HIDE DEF f, n
  <2> QED BY <1>1, <2>1, <2>2
<1>3. ASSUME NEW s \in S, NEW t \in S, f[s] = f[t] PROVE s = t
  <2>1. log[f[s]].seq = s /\ log[f[t]].seq = t
    BY DEF Retrievable
  <2> QED BY <1>3, <2>1
<1>4. ASSUME NEW k \in 0..(n - 1) PROVE \E s \in S : f[s] = k
  BY DEF IInv, FilledInv, Answered
<1>5. IsFiniteSet(0..(n - 1)) /\ Cardinality(0..(n - 1)) = n
  <2> HIDE DEF n
  <2>1. 0 \in Int /\ n - 1 \in Int
    BY <1>1
  <2> QED BY <1>1, <2>1, FS_Interval
<1> HIDE DEF f, n, S
<1>6. f \in [S -> 0..(n - 1)]
  BY <1>2 DEF f
<1>7. f \in Injection(S, 0..(n - 1))
  BY <1>3, <1>6 DEF Injection, IsInjective
<1>8. f \in Surjection(S, 0..(n - 1))
  BY <1>4, <1>6 DEF Surjection
<1>9. Cardinality(S) = Cardinality(0..(n - 1))
  BY <1>5, <1>7, <1>8, FS_Injection
<1> QED BY <1>5, <1>9 DEF S, n

\* event_count is what get_event answers for: retained_count says how many of the
\* accepted events can be fetched, for every capacity and sequence of resizes.
THEOREM CountIsExact == LogSpec => []EventCountExact
<1>1. IInv => EventCountExact
  BY OnePerSlot DEF EventCountExact
<1> QED BY <1>1, Inductive, PTL

-----------------------------------------------------------------------------
(* The ticket contract. *)

USE TicketAssumption

\* What EscrowExact needs besides the types: nothing is sold before initialize, and
\* from then on the organizer is a person, so that a resale, which pays the organizer,
\* never touches the escrow.
TicketStarted ==
    /\ event = "none" => nextId = 0
    /\ event # "none" => terms.admin \in People

TicketIInv == TicketTypeOK /\ TicketStarted /\ EscrowExact

\* A transfer keeps balances natural numbers, and moves the amount.
LEMMA TransferEffect ==
  ASSUME purse \in [Wallets -> Nat], NEW from \in Wallets, NEW to \in Wallets, NEW amount \in Int,
         TokenTransfer(from, to, amount)
  PROVE  /\ purse' \in [Wallets -> Nat]
         /\ amount \in Nat
         /\ from # TicketSelf /\ to # TicketSelf => purse'[TicketSelf] = purse[TicketSelf]
         /\ from # TicketSelf /\ to = TicketSelf => purse'[TicketSelf] = purse[TicketSelf] + amount
<1>1. purse[from] \in Nat /\ purse[to] \in Nat /\ amount \in Nat /\ TicketSelf \in Wallets
  BY DEF TokenTransfer, Wallets
<1>2. CASE from = to
  BY <1>1, <1>2 DEF TokenTransfer
<1>3. CASE from # to
  <2>1. purse' = [purse EXCEPT ![from] = @ - amount, ![to] = @ + amount] /\ amount <= purse[from]
    BY <1>3 DEF TokenTransfer
  <2>2. purse[from] - amount \in Nat /\ purse[to] + amount \in Nat
    BY <1>1, <2>1
  <2> QED BY <1>1, <1>3, <2>1, <2>2
<1> QED BY <1>2, <1>3

\* The sets of seats are finite.
LEMMA SeatSetsFinite ==
  ASSUME nextId \in Nat
  PROVE  /\ IsFiniteSet(Unrefunded) /\ Cardinality(Unrefunded) \in Nat
         /\ IsFiniteSet(Refundable) /\ Cardinality(Refundable) \in Nat
<1>1. IsFiniteSet(0..(nextId - 1))
  BY FS_Interval
<1>2. Unrefunded \subseteq 0..(nextId - 1) /\ Refundable \subseteq 0..(nextId - 1)
  BY DEF Unrefunded, Refundable
<1>3. IsFiniteSet(Unrefunded) /\ IsFiniteSet(Refundable)
  BY <1>1, <1>2, FS_Subset
<1> QED BY <1>3, FS_CardinalityType

LEMMA TicketInitHolds == TicketInit => TicketIInv
<1> SUFFICES ASSUME TicketInit PROVE TicketIInv
  OBVIOUS
<1>1. TicketTypeOK
  BY DEF TicketInit, TicketTypeOK, NoTerms, NoSeat, SeatIds, Wallets, Seats
<1>2. Unrefunded = {}
  BY DEF TicketInit, Unrefunded
<1>3. purse[TicketSelf] = 0 /\ terms.price = 0
  BY DEF TicketInit, NoTerms, Wallets
<1>4. EscrowExact
  BY <1>2, <1>3, FS_EmptySet DEF TicketInit, EscrowExact
<1> QED BY <1>1, <1>4 DEF TicketIInv, TicketStarted, TicketInit

LEMMA InitializeKeeps ==
  ASSUME TicketIInv, NEW organizer \in People, NEW max \in 0..MaxSeats, NEW price \in Prices, NEW resale \in Prices,
         initialize(organizer, max, price, resale)
  PROVE  TicketIInv'
<1>1. nextId = 0 /\ nextId' = 0 /\ seat' = seat /\ purse' = purse /\ admitted' = admitted
  BY DEF TicketIInv, TicketStarted, initialize
<1>2. TicketTypeOK'
  <2>1. terms' \in [admin : Wallets, max : 0..MaxSeats, price : Nat, resale : Nat]
    <3>1. price \in Nat /\ resale \in Nat
      BY DEF initialize
    <3> QED BY <3>1 DEF initialize, Wallets
  <2> QED BY <1>1, <2>1 DEF TicketIInv, TicketTypeOK, initialize
<1>3. Unrefunded = {} /\ Unrefunded' = {}
  BY <1>1 DEF Unrefunded
<1>4. EscrowExact'
  <2>1. terms.price \in Nat /\ terms'.price \in Nat
    BY <1>2 DEF TicketIInv, TicketTypeOK
  <2>2. purse[TicketSelf] = terms.price * 0
    BY <1>3, FS_EmptySet DEF TicketIInv, EscrowExact
  <2>3. purse'[TicketSelf] = terms'.price * 0
    BY <1>1, <2>1, <2>2
  <2> QED BY <1>1, <1>3, <2>3, FS_EmptySet DEF TicketIInv, EscrowExact
<1> QED BY <1>2, <1>4 DEF TicketIInv, TicketStarted, initialize

LEMMA MintKeeps ==
  ASSUME TicketIInv, NEW p \in People, mint_ticket(p)
  PROVE  TicketIInv'
<1> USE DEF TicketIInv
<1>1. nextId \in Nat /\ nextId < MaxSeats /\ nextId \in SeatIds /\ nextId' = nextId + 1 /\ terms' = terms
      /\ terms.price \in Nat
  BY DEF TicketTypeOK, mint_ticket, SeatIds
<1>2. /\ purse' \in [Wallets -> Nat]
      /\ purse'[TicketSelf] = purse[TicketSelf] + terms.price
  BY <1>1, TransferEffect DEF mint_ticket, TicketTypeOK, Wallets
<1>3. \A i \in SeatIds : seat'[i] = IF i = nextId THEN [owner |-> p, status |-> "valid"] ELSE seat[i]
  BY DEF mint_ticket, TicketTypeOK
<1>4. TicketTypeOK'
  <2>1. seat' \in [SeatIds -> Seats \cup {NoSeat}]
    BY DEF mint_ticket, TicketTypeOK, Seats
  <2>2. \A i \in SeatIds : i < nextId' <=> seat'[i] # NoSeat
    BY <1>1, <1>3 DEF TicketTypeOK, NoSeat, SeatIds
  <2> QED BY <1>1, <1>2, <2>1, <2>2 DEF mint_ticket, TicketTypeOK
<1>5. Unrefunded' = Unrefunded \cup {nextId} /\ nextId \notin Unrefunded
  BY <1>1, <1>3 DEF Unrefunded, TicketTypeOK, SeatIds
<1>6. Cardinality(Unrefunded') = Cardinality(Unrefunded) + 1 /\ Cardinality(Unrefunded) \in Nat
  BY <1>1, <1>5, SeatSetsFinite, FS_AddElement
<1>7. purse'[TicketSelf] = terms'.price * Cardinality(Unrefunded')
  <2>1. purse[TicketSelf] = terms.price * Cardinality(Unrefunded)
    BY DEF EscrowExact
  <2>2. \A a, n \in Nat : a * (n + 1) = a * n + a
    OBVIOUS
  <2> QED BY <1>1, <1>2, <1>6, <2>1, <2>2
<1>8. \A i \in admitted' : seat'[i].status = "used"
  BY <1>1, <1>3 DEF mint_ticket, EscrowExact, TicketTypeOK, SeatIds
<1> QED BY <1>4, <1>7, <1>8 DEF EscrowExact, TicketStarted, mint_ticket, OrganizerCall

\* A step that keeps the money, the terms and who is refunded keeps the escrow exact.
LEMMA EscrowUntouched ==
  ASSUME EscrowExact, purse'[TicketSelf] = purse[TicketSelf], terms' = terms, Unrefunded' = Unrefunded,
         \A i \in admitted' : seat'[i].status = "used"
  PROVE  EscrowExact'
  BY DEF EscrowExact

LEMMA ResaleKeeps ==
  ASSUME TicketIInv, NEW i \in SeatIds, NEW to \in People, NEW price \in Prices, transfer_ticket(i, to, price)
  PROVE  TicketIInv'
<1> USE DEF TicketIInv
<1>1. seat[i] \in Seats /\ terms.admin \in People
  <2>1. seat[i] # NoSeat
    BY DEF transfer_ticket, NoSeat
  <2> QED BY <2>1 DEF transfer_ticket, TicketTypeOK, TicketStarted
<1>2. purse' \in [Wallets -> Nat] /\ purse'[TicketSelf] = purse[TicketSelf]
  <2>1. seat[i].owner \in Wallets /\ seat[i].owner # TicketSelf /\ terms.admin \in Wallets /\ terms.admin # TicketSelf
    BY <1>1 DEF Seats, Wallets
  <2> QED BY <2>1, TransferEffect DEF transfer_ticket, TicketTypeOK
<1>3. \A k \in SeatIds : seat'[k] = IF k = i THEN [owner |-> to, status |-> "transferred"] ELSE seat[k]
  BY DEF transfer_ticket, TicketTypeOK
<1>4. TicketTypeOK'
  <2>1. seat' \in [SeatIds -> Seats \cup {NoSeat}]
    BY DEF transfer_ticket, TicketTypeOK, Seats
  <2>2. \A k \in SeatIds : k < nextId' <=> seat'[k] # NoSeat
    BY <1>3 DEF transfer_ticket, TicketTypeOK, NoSeat
  <2> QED BY <1>2, <2>1, <2>2 DEF transfer_ticket, TicketTypeOK
<1>5. Unrefunded' = Unrefunded
  BY <1>3 DEF Unrefunded, transfer_ticket, TicketTypeOK, SeatIds
<1>6. \A k \in admitted' : seat'[k].status = "used"
  BY <1>3 DEF transfer_ticket, EscrowExact, TicketTypeOK, SeatIds
<1> QED BY <1>2, <1>4, <1>5, <1>6, EscrowUntouched DEF TicketStarted, transfer_ticket

LEMMA VerifyKeeps ==
  ASSUME TicketIInv, NEW i \in SeatIds, verify_ticket(i)
  PROVE  TicketIInv'
<1> USE DEF TicketIInv
<1>1. \A k \in SeatIds : seat'[k] = IF k = i THEN [seat[i] EXCEPT !.status = "used"] ELSE seat[k]
  BY DEF verify_ticket, TicketTypeOK
<1>2. seat[i] \in Seats
  BY DEF verify_ticket, NoSeat, TicketTypeOK
<1>3. seat'[i] \in Seats /\ seat'[i].status = "used"
  BY <1>1, <1>2 DEF Seats
<1>4. TicketTypeOK'
  <2>1. seat' \in [SeatIds -> Seats \cup {NoSeat}]
    BY <1>2 DEF verify_ticket, TicketTypeOK, Seats
  <2>2. \A k \in SeatIds : k < nextId' <=> seat'[k] # NoSeat
    BY <1>1, <1>3 DEF verify_ticket, TicketTypeOK, NoSeat
  <2>3. admitted' \subseteq 0..(nextId' - 1)
    BY DEF verify_ticket, TicketTypeOK, SeatIds
  <2> QED BY <2>1, <2>2, <2>3 DEF verify_ticket, TicketTypeOK
<1>5. Unrefunded' = Unrefunded
  BY <1>1, <1>3 DEF Unrefunded, verify_ticket, TicketTypeOK, SeatIds
<1>6. \A k \in admitted' : seat'[k].status = "used"
  BY <1>1, <1>3 DEF verify_ticket, EscrowExact, TicketTypeOK, SeatIds
<1> QED BY <1>4, <1>5, <1>6, EscrowUntouched DEF TicketStarted, verify_ticket

LEMMA CancelKeeps ==
  ASSUME TicketIInv, cancel_event
  PROVE  TicketIInv'
<1> USE DEF TicketIInv
<1>1. /\ \A k \in SeatIds : seat'[k] = IF k \in Refundable THEN [seat[k] EXCEPT !.status = "cancelled"] ELSE seat[k]
      /\ terms' = terms /\ nextId' = nextId /\ admitted' = admitted
      /\ nextId \in Nat /\ terms.price \in Nat
  BY DEF cancel_event, TicketTypeOK
<1>2. \A k \in Refundable : k \in SeatIds /\ k < nextId /\ seat[k] \in Seats
  BY DEF Refundable, TicketTypeOK, SeatIds
<1>3. TicketTypeOK'
  <2>1. ASSUME NEW k \in SeatIds PROVE seat'[k] \in Seats \cup {NoSeat} /\ (k < nextId' <=> seat'[k] # NoSeat)
    <3>1. CASE k \in Refundable
      <4>1. seat'[k] \in Seats
        BY <1>1, <1>2, <3>1 DEF Seats
      <4> QED BY <4>1, <1>1, <1>2, <3>1 DEF Seats, NoSeat
    <3>2. CASE k \notin Refundable
      BY <1>1, <3>2 DEF TicketTypeOK
    <3> QED BY <3>1, <3>2
  <2>2. seat' \in [SeatIds -> Seats \cup {NoSeat}]
    BY <2>1 DEF cancel_event
  <2>3. purse' \in [Wallets -> Nat]
    <3>1. ASSUME NEW a \in Wallets PROVE RefundOf(a) \in Nat
      <4>1. {i \in Refundable : seat[i].owner = a} \subseteq Refundable
        OBVIOUS
      <4>2. Cardinality({i \in Refundable : seat[i].owner = a}) \in Nat
        BY <4>1, <1>1, SeatSetsFinite, FS_Subset, FS_CardinalityType
      <4> QED BY <4>2, <1>1 DEF RefundOf
    <3>2. Cardinality(Refundable) \in Nat
      BY <1>1, SeatSetsFinite
    <3>3. purse[TicketSelf] - terms.price * Cardinality(Refundable) \in Nat
      <4>1. terms.price * Cardinality(Refundable) \in Nat /\ purse[TicketSelf] \in Nat
        BY <1>1, <3>2 DEF TicketTypeOK, Wallets
      <4> QED BY <4>1 DEF cancel_event
    <3>4. \A a \in Wallets : purse[a] + RefundOf(a) \in Nat
      BY <3>1 DEF TicketTypeOK
    <3> QED BY <3>3, <3>4 DEF cancel_event
  <2> QED BY <1>1, <2>1, <2>2, <2>3 DEF cancel_event, TicketTypeOK
<1>4. Unrefunded' = Unrefunded \ Refundable /\ Refundable \subseteq Unrefunded
  <2>1. \A k \in 0..(nextId - 1) : k \in SeatIds
    BY <1>1 DEF TicketTypeOK, SeatIds
  <2>2. \A k \in Refundable : seat'[k].status = "cancelled"
    BY <1>1, <1>2 DEF Seats
  <2>3. \A k \in 0..(nextId - 1) : k \notin Refundable => seat'[k] = seat[k]
    BY <1>1, <2>1
  <2>4. Refundable \subseteq Unrefunded
    BY DEF Refundable, Unrefunded
  <2> QED BY <1>1, <2>2, <2>3, <2>4 DEF Unrefunded
<1>5. /\ Cardinality(Unrefunded') = Cardinality(Unrefunded) - Cardinality(Refundable)
      /\ Cardinality(Unrefunded) \in Nat /\ Cardinality(Refundable) \in Nat
  <2>1. Unrefunded \cap Refundable = Refundable
    BY <1>4
  <2> QED BY <1>1, <1>4, <2>1, SeatSetsFinite, FS_Difference
<1>6. purse'[TicketSelf] = terms'.price * Cardinality(Unrefunded')
  <2>1. purse[TicketSelf] = terms.price * Cardinality(Unrefunded)
    BY DEF EscrowExact
  <2>2. purse'[TicketSelf] = purse[TicketSelf] - terms.price * Cardinality(Refundable)
    BY DEF cancel_event, Wallets
  <2>3. \A a, m, n \in Nat : a * m - a * n = a * (m - n)
    OBVIOUS
  <2> QED BY <1>1, <1>5, <2>1, <2>2, <2>3
<1>7. \A k \in admitted' : seat'[k].status = "used"
  <2>1. \A k \in admitted : k \in SeatIds
    BY DEF TicketTypeOK, SeatIds
  <2>2. \A k \in admitted : seat[k].status = "used" /\ k \notin Refundable
    BY DEF EscrowExact, Refundable
  <2> QED BY <1>1, <2>1, <2>2
<1> QED BY <1>3, <1>6, <1>7 DEF EscrowExact, TicketStarted, cancel_event, OrganizerCall

LEMMA TicketStepKeeps == ASSUME TicketIInv, [TicketNext]_ticketVars PROVE TicketIInv'
<1>1. CASE UNCHANGED ticketVars
  BY <1>1 DEF TicketIInv, TicketTypeOK, TicketStarted, EscrowExact, Unrefunded, ticketVars
<1>2. CASE complete_event
  <2>1. UNCHANGED <<terms, nextId, seat, purse, admitted>>
    BY <1>2 DEF complete_event
  <2>2. Unrefunded' = Unrefunded
    BY <2>1 DEF Unrefunded
  <2>3. TicketTypeOK'
    BY <1>2, <2>1 DEF TicketIInv, TicketTypeOK, complete_event
  <2>4. EscrowExact'
    BY <2>1, <2>2 DEF TicketIInv, EscrowExact
  <2> QED BY <1>2, <2>3, <2>4 DEF TicketIInv, TicketStarted, complete_event, OrganizerCall
<1> QED BY <1>1, <1>2, InitializeKeeps, MintKeeps, ResaleKeeps, VerifyKeeps, CancelKeeps DEF TicketNext

LEMMA TicketInvariance == TicketSpec => []TicketIInv
<1>1. TicketIInv /\ [TicketNext]_ticketVars => TicketIInv'
  BY TicketStepKeeps
<1> QED BY TicketInitHolds, <1>1, PTL DEF TicketSpec

\* No call overdraws a balance, sells past max_tickets or leaves a seat half-written.
THEOREM TicketTypeCorrect == TicketSpec => []TicketTypeOK
<1>1. TicketIInv => TicketTypeOK
  BY DEF TicketIInv
<1> QED BY <1>1, TicketInvariance, PTL

\* The escrow is exact: a cancellation can pay every holder, and refunds no used seat.
THEOREM EscrowIsExact == TicketSpec => []EscrowExact
<1>1. TicketIInv => EscrowExact
  BY DEF TicketIInv
<1> QED BY <1>1, TicketInvariance, PTL
=============================================================================
