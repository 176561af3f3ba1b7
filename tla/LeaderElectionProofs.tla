------------------------ MODULE LeaderElectionProofs ------------------------
(***************************************************************************)
(* Proofs about LeaderElection for any number of instances and any lease,  *)
(* interval and delay that satisfy LeaderAssumption: the type invariant,   *)
(* mutual exclusion of acting leaders, and the refinement of LeaderLease.  *)
(***************************************************************************)
EXTENDS LeaderElection, TLAPS

IInv == TypeOK /\ LeaseMargins

USE LeaderAssumption, HolderAssumption DEF None, Free, Gone

\* The initial state satisfies the inductive invariant: everyone is down.
LEMMA InitIInv == Init => IInv
  BY DEF Init, IInv, TypeOK, Calls, LeaseMargins, LeaseMargin

\* Time passing leaves every acting leader at least one tick of lease.
LEMMA TickIInv == IInv /\ Tick => IInv'
<1> SUFFICES ASSUME IInv, Tick PROVE IInv'
  OBVIOUS
<1>1. TypeOK'
  BY DEF IInv, TypeOK, Calls, Tick, OnTime
<1>2. ASSUME NEW p \in Instances PROVE LeaseMargin(p)'
  <2>1. LeaseMargin(p) /\ OnTime(p)
    BY DEF IInv, LeaseMargins, Tick
  <2>2. CASE status[p] # "running"
    BY <2>1, <2>2 DEF Tick, LeaseMargin
  <2>3. CASE status[p] = "running" /\ isLeader[p]
    <3>1. ttl > 1 /\ holder = p
      BY <2>1, <2>3 DEF LeaseMargin, OnTime, IInv, TypeOK
    <3>2. ttl' = ttl - 1 /\ holder' = p
      BY <3>1 DEF Tick, IInv, TypeOK
    <3>3. /\ isLeader'[p] = isLeader[p] /\ status'[p] = status[p] /\ call'[p] = call[p]
          /\ timer'[p] = timer[p] + 1
          /\ call[p] # None => age'[p] = age[p] + 1
      BY <2>3 DEF Tick, IInv, TypeOK
    <3>4. /\ call[p] = None      => ttl' + timer'[p] >= LeaseTtl - MaxDelay
          /\ call[p] = "renew"   => ttl' + age'[p] >= LeaseTtl - MaxDelay - RenewInterval
          /\ call[p] = "renewed" => ttl' + age'[p] >= LeaseTtl
      BY <2>1, <2>3, <3>2, <3>3 DEF LeaseMargin, IInv, TypeOK
    <3> QED
      BY <2>1, <2>3, <3>2, <3>3, <3>4 DEF LeaseMargin
  <2>4. CASE status[p] = "running" /\ ~isLeader[p]
    <3>1. CASE call[p] = "acquired"
      <4>1. ttl > 1 /\ holder = p
        BY <2>1, <2>4, <3>1 DEF LeaseMargin, OnTime, IInv, TypeOK
      <4>2. ttl' = ttl - 1 /\ holder' = p
        BY <4>1 DEF Tick, IInv, TypeOK
      <4> QED
        BY <2>1, <2>4, <3>1, <4>1, <4>2 DEF LeaseMargin, Tick, IInv, TypeOK
    <3>2. CASE call[p] # "acquired"
      BY <2>1, <2>4, <3>2 DEF LeaseMargin, Tick
    <3> QED BY <3>1, <3>2
  <2> QED BY <2>2, <2>3, <2>4 DEF IInv, TypeOK
<1> QED BY <1>1, <1>2 DEF IInv, LeaseMargins

\* No step of one instance takes the key from another acting leader.
LEMMA StepIInv == ASSUME IInv, NEW q \in Instances, Step(q) PROVE IInv'
<1> USE DEF IInv, TypeOK, Calls, LeaseMargins, LeaseMargin, Call
<1>1. CASE Start(q)       BY <1>1 DEF Start
<1>2. CASE SendAcquire(q) BY <1>2 DEF SendAcquire
<1>3. CASE ExecAcquire(q) BY <1>3 DEF ExecAcquire
<1>4. CASE FireRenew(q)   BY <1>4 DEF FireRenew
<1>5. CASE ExecRenew(q)   BY <1>5 DEF ExecRenew
<1>6. CASE ExecRelease(q) BY <1>6 DEF ExecRelease
<1>7. CASE HandleAnswer(q)
  <2> USE DEF HandleAnswer
  <2>0. isLeader' \in [Instances -> BOOLEAN]
    <3>1. CASE isLeader' = [isLeader EXCEPT ![q] = TRUE] BY <3>1
    <3>2. CASE isLeader' = isLeader BY <3>2
    <3>3. CASE isLeader' = [isLeader EXCEPT ![q] = FALSE] BY <3>3
    <3> QED BY <1>7, <3>1, <3>2, <3>3
  <2>1. TypeOK'
    <3>1. call' = [call EXCEPT ![q] = None] /\ age' = [age EXCEPT ![q] = 0]
      BY <1>7
    <3>2. UNCHANGED <<holder, ttl, status, timer, faults>>
      BY <1>7
    <3> HIDE DEF HandleAnswer
    <3> QED BY <2>0, <3>1, <3>2
  <2>2. LeaseMargin(q)'
    BY <1>7 DEF HandleAnswer
  <2>3. ASSUME NEW p \in Instances, p # q PROVE LeaseMargin(p)'
    BY <1>7, <2>3 DEF HandleAnswer
  <2> QED BY <2>1, <2>2, <2>3
<1>8. CASE CallFails(q)   BY <1>8 DEF CallFails, Fault
<1>9. CASE Stop(q)        BY <1>9 DEF Stop, Fault
<1>10. CASE Exit(q)       BY <1>10 DEF Exit, Vanish
<1>11. CASE Crash(q)      BY <1>11 DEF Crash, Fault, Vanish
<1> QED
  BY <1>1, <1>2, <1>3, <1>4, <1>5, <1>6, <1>7, <1>8, <1>9, <1>10, <1>11 DEF Step

\* The invariant is inductive.
LEMMA NextIInv == IInv /\ [Next]_vars => IInv'
<1>1. IInv /\ UNCHANGED vars => IInv'
  BY DEF IInv, TypeOK, Calls, LeaseMargins, LeaseMargin, vars
<1> QED
  BY <1>1, TickIInv, StepIInv DEF Next

\* Every reachable state is well typed, the age of a command and the phase of
\* the renewal interval included.
THEOREM TypeCorrect == Spec => []TypeOK
<1>1. IInv => TypeOK BY DEF IInv
<1> QED BY <1>1, InitIInv, NextIInv, PTL DEF Spec

\* The lease margins hold in every reachable state.
LEMMA InductiveInvariant == Spec => []IInv
  BY InitIInv, NextIInv, PTL DEF Spec

\* Two acting leaders would both be the value of the one Redis key.
LEMMA IInvExcludes == IInv => AtMostOneLeader
  BY DEF IInv, LeaseMargins, LeaseMargin, AtMostOneLeader, ActingLeaders

\* At most one instance acts as leader, for any lease longer than a renewal
\* interval plus two round trips.
THEOREM MutualExclusion == Spec => []AtMostOneLeader
  BY InductiveInvariant, IInvExcludes, PTL

\* A step changes the acting leaders only as LeaderLease allows.
LEMMA StepRefines ==
  ASSUME IInv, IInv', NEW q \in Instances, Step(q)
  PROVE  Promise!LeaseNext \/ UNCHANGED ActingLeaders
<1> USE DEF Promise!LeaseNext, Promise!BecomeLeader, Promise!StopLeading, ActingLeaders, Call,
            IInv, TypeOK
<1>1. CASE Start(q)
  BY <1>1 DEF Start, LeaseMargins, LeaseMargin
<1>2. CASE SendAcquire(q) \/ ExecAcquire(q) \/ FireRenew(q) \/ ExecRenew(q) \/ ExecRelease(q)
  BY <1>2 DEF SendAcquire, ExecAcquire, FireRenew, ExecRenew, ExecRelease
<1>3. CASE HandleAnswer(q) /\ call[q] = "acquired"
  <2>1. holder = q /\ isLeader' = [isLeader EXCEPT ![q] = TRUE] /\ status' = status
    BY <1>3 DEF HandleAnswer, LeaseMargins, LeaseMargin
  <2>2. ActingLeaders \subseteq {q}
    BY <2>1 DEF LeaseMargins, LeaseMargin
  <2>3. ActingLeaders' \subseteq {q}
    BY <2>1, <2>2
  <2>4. q \in ActingLeaders'
    BY <1>3, <2>1 DEF HandleAnswer
  <2>5. q \notin ActingLeaders
    BY <1>3 DEF LeaseMargins, LeaseMargin, HandleAnswer
  <2> QED BY <2>2, <2>3, <2>4, <2>5
<1>4. CASE UNCHANGED <<isLeader, status>>
  BY <1>4
<1>5. ASSUME \A p \in Instances : p # q => isLeader'[p] = isLeader[p] /\ status'[p] = status[p],
             ~isLeader'[q] \/ status'[q] # "running"
      PROVE  Promise!StopLeading(q) \/ UNCHANGED ActingLeaders
  <2>1. ActingLeaders' = ActingLeaders \ {q}
    BY <1>5
  <2> QED BY <2>1
<1>6. CASE CallFails(q) \/ Stop(q) \/ Exit(q) \/ Crash(q)
  BY <1>5, <1>6 DEF CallFails, Stop, Exit, Crash, Vanish
<1>7. CASE HandleAnswer(q) /\ call[q] = "renewed"
  BY <1>4, <1>7 DEF HandleAnswer
<1>8. CASE HandleAnswer(q) /\ call[q] = "refused"
  BY <1>5, <1>8 DEF HandleAnswer
<1> QED
  BY <1>1, <1>2, <1>3, <1>6, <1>7, <1>8 DEF Step, HandleAnswer

\* The election implements LeaderLease: what it promises the ingest daemon.
THEOREM Refinement == Spec => KeepsPromise
<1>1. Init => Promise!LeaseInit
  BY DEF Init, Promise!LeaseInit, ActingLeaders
<1>2. IInv /\ IInv' /\ [Next]_vars => [Promise!LeaseNext]_ActingLeaders
  <2>1. ASSUME Tick PROVE UNCHANGED ActingLeaders
    BY <2>1 DEF Tick, ActingLeaders
  <2>2. ASSUME UNCHANGED vars PROVE UNCHANGED ActingLeaders
    BY <2>2 DEF vars, ActingLeaders
  <2> QED
    BY <2>1, <2>2, StepRefines DEF Next
<1> QED
  BY <1>1, <1>2, InductiveInvariant, PTL DEF Spec, KeepsPromise, Promise!LeaseSpec
=============================================================================
