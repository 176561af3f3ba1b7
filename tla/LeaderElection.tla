--------------------------- MODULE LeaderElection ---------------------------
(***************************************************************************)
(* optional/leaderElection.js: the Redis lease that elects the ingesting   *)
(* instance.  Time is counted in ticks.  A Redis command is sent, executed *)
(* by Redis, and answered; _isLeader changes when the answer arrives, not  *)
(* when Redis acts, so the local flag and the key can disagree.            *)
(*                                                                         *)
(* MaxDelay bounds the time from sending a command to handling its answer, *)
(* and timers fire on time: both are what the event loop and Redis must    *)
(* provide for the lease to work, and LeaderAssumption says how much       *)
(* smaller than the lease they must be.                                    *)
(***************************************************************************)
EXTENDS Integers

CONSTANTS
    Instances,      \* indexer processes
    LeaseTtl,       \* LEASE_TTL_S
    RenewInterval,  \* RENEW_INTERVAL_MS
    MaxDelay,       \* longest Redis round trip, the handling of the answer included
    MaxFaults       \* bound: crashes, shutdowns and failed Redis commands

ASSUME LeaderAssumption ==
    /\ LeaseTtl \in Nat /\ RenewInterval \in Nat \ {0} /\ MaxDelay \in Nat
    /\ MaxFaults \in Nat
    /\ MaxDelay < RenewInterval
    /\ RenewInterval + 2 * MaxDelay < LeaseTtl

Free == "free"   \* the key does not exist
Gone == "gone"   \* the key holds the id of a process that no longer runs

ASSUME HolderAssumption == Free \notin Instances /\ Gone \notin Instances

VARIABLES
    holder,    \* value of LEADER_KEY
    ttl,       \* ticks until the key expires (0 when it does not exist)
    isLeader,  \* _isLeader
    status,    \* "running", "stopping" (stop() has begun) or "down"
    call,      \* the instance's outstanding Redis command, or its unhandled answer
    age,       \* ticks since that command was sent
    timer,     \* ticks since the renewal interval last fired
    faults     \* crashes, shutdowns and failed commands so far

vars == <<holder, ttl, isLeader, status, call, age, timer, faults>>

None == "none"

Init ==
    /\ holder = Free /\ ttl = 0
    /\ isLeader = [p \in Instances |-> FALSE]
    /\ status = [p \in Instances |-> "down"]
    /\ call = [p \in Instances |-> None]
    /\ age = [p \in Instances |-> 0]
    /\ timer = [p \in Instances |-> 0]
    /\ faults = 0

Call(p, c) == call' = [call EXCEPT ![p] = c] /\ age' = [age EXCEPT ![p] = 0]

\* The process starts; getInstanceId() is new, so an old key is not its own.
Start(p) ==
    /\ status[p] = "down"
    /\ status' = [status EXCEPT ![p] = "running"]
    /\ timer' = [timer EXCEPT ![p] = 0]
    /\ UNCHANGED <<holder, ttl, isLeader, call, age, faults>>

\* The election interval (and run(), at startup) calls tryAcquireLock().
SendAcquire(p) ==
    /\ status[p] = "running" /\ ~isLeader[p] /\ call[p] = None
    /\ Call(p, "acquire")
    /\ UNCHANGED <<holder, ttl, isLeader, status, timer, faults>>

\* Mutant: SET without NX takes the key from whoever holds it.
ExecAcquireWithoutNX(p) ==
    /\ call[p] = "acquire"
    /\ holder' = p /\ ttl' = LeaseTtl
    /\ call' = [call EXCEPT ![p] = "acquired"]
    /\ UNCHANGED <<isLeader, status, age, timer, faults>>

\* SET key id NX EX ttl.
ExecAcquire(p) ==
    /\ call[p] = "acquire"
    /\ \/ /\ holder = Free
          /\ holder' = p /\ ttl' = LeaseTtl
          /\ call' = [call EXCEPT ![p] = "acquired"]
       \/ /\ holder # Free
          /\ call' = [call EXCEPT ![p] = "refused"]
          /\ UNCHANGED <<holder, ttl>>
    /\ UNCHANGED <<isLeader, status, age, timer, faults>>

\* The renewal interval fires: renewLock() does nothing in a standby.
FireRenew(p) ==
    /\ status[p] = "running" /\ timer[p] = RenewInterval
    /\ timer' = [timer EXCEPT ![p] = 0]
    /\ IF isLeader[p] THEN call[p] = None /\ Call(p, "renew") ELSE UNCHANGED <<call, age>>
    /\ UNCHANGED <<holder, ttl, isLeader, status, faults>>

\* Mutant: the lease is added to the time left instead of replacing it.
ExecRenewAccumulates(p) ==
    /\ call[p] = "renew"
    /\ ttl' = IF holder = p THEN ttl + LeaseTtl ELSE ttl
    /\ call' = [call EXCEPT ![p] = IF holder = p THEN "renewed" ELSE "refused"]
    /\ UNCHANGED <<holder, isLeader, status, age, timer, faults>>

\* RENEW_SCRIPT: extend the key if it is still ours.
ExecRenew(p) ==
    /\ call[p] = "renew"
    /\ ttl' = IF holder = p THEN LeaseTtl ELSE ttl
    /\ call' = [call EXCEPT ![p] = IF holder = p THEN "renewed" ELSE "refused"]
    /\ UNCHANGED <<holder, isLeader, status, age, timer, faults>>

\* Mutant: DEL without comparing the key with the instance's id.
ExecReleaseAnyOwner(p) ==
    /\ call[p] = "release"
    /\ holder' = Free /\ ttl' = 0
    /\ call' = [call EXCEPT ![p] = "released"]
    /\ UNCHANGED <<isLeader, status, age, timer, faults>>

\* RELEASE_SCRIPT: delete the key if it is still ours.
ExecRelease(p) ==
    /\ call[p] = "release"
    /\ IF holder = p THEN holder' = Free /\ ttl' = 0 ELSE UNCHANGED <<holder, ttl>>
    /\ call' = [call EXCEPT ![p] = "released"]
    /\ UNCHANGED <<isLeader, status, age, timer, faults>>

\* Mutant: the answer of SET is compared with the wrong value, and never wins.
HandleAnswerIgnoresOK(p) ==
    /\ status[p] = "running"
    /\ call[p] \in {"acquired", "renewed", "refused"}
    /\ isLeader' = [isLeader EXCEPT ![p] = @ /\ call[p] = "renewed"]
    /\ Call(p, None)
    /\ UNCHANGED <<holder, ttl, status, timer, faults>>

\* The answer (or the connection's error) reaches the instance.  A refused
\* acquire finds the flag FALSE already; a failed renewal clears it.
HandleAnswer(p) ==
    /\ status[p] = "running"
    /\ \/ /\ call[p] = "acquired"
          /\ isLeader' = [isLeader EXCEPT ![p] = TRUE]
       \/ /\ call[p] = "renewed"
          /\ UNCHANGED isLeader
       \/ /\ call[p] = "refused"
          /\ isLeader' = [isLeader EXCEPT ![p] = FALSE]
    /\ Call(p, None)
    /\ UNCHANGED <<holder, ttl, status, timer, faults>>

Fault == faults < MaxFaults /\ faults' = faults + 1

\* The command is lost with the connection, before or after Redis executed it.
CallFails(p) ==
    /\ Fault
    /\ status[p] = "running" /\ call[p] # None
    /\ isLeader' = [isLeader EXCEPT ![p] = FALSE]
    /\ Call(p, None)
    /\ UNCHANGED <<holder, ttl, status, timer>>

\* stop(): the poll loop has ended and the intervals are cleared; a leader
\* sends the release, and its flag stays set until the process exits.  What a
\* command in flight did to the key stands, its answer is not awaited.
Stop(p) ==
    /\ Fault
    /\ status[p] = "running"
    /\ status' = [status EXCEPT ![p] = "stopping"]
    /\ Call(p, IF isLeader[p] THEN "release" ELSE "released")
    /\ UNCHANGED <<holder, ttl, isLeader, timer>>

\* The process is gone; a key it still holds stays until it expires.
Vanish(p) ==
    /\ status' = [status EXCEPT ![p] = "down"]
    /\ isLeader' = [isLeader EXCEPT ![p] = FALSE]
    /\ Call(p, None)
    /\ holder' = IF holder = p THEN Gone ELSE holder
    /\ timer' = [timer EXCEPT ![p] = 0]
    /\ UNCHANGED ttl

\* drainAndExit, after stop().
Exit(p) ==
    /\ status[p] = "stopping" /\ call[p] = "released"
    /\ Vanish(p)
    /\ UNCHANGED faults

Crash(p) ==
    /\ Fault
    /\ status[p] # "down"
    /\ Vanish(p)

\* Nothing is late: every command is answered within MaxDelay of being sent,
\* and no interval is overdue.
OnTime(p) ==
    status[p] = "running" =>
        /\ call[p] # None => age[p] < MaxDelay
        /\ timer[p] < RenewInterval

Tick ==
    /\ \A p \in Instances : OnTime(p)
    /\ ttl' = IF ttl > 0 THEN ttl - 1 ELSE 0
    /\ holder' = IF ttl > 1 THEN holder ELSE Free
    /\ age' = [p \in Instances |->
                 IF status[p] = "running" /\ call[p] # None THEN age[p] + 1 ELSE age[p]]
    /\ timer' = [p \in Instances |->
                   IF status[p] = "running" THEN timer[p] + 1 ELSE timer[p]]
    /\ UNCHANGED <<isLeader, status, call, faults>>

Step(p) ==
    \/ Start(p) \/ SendAcquire(p) \/ ExecAcquire(p) \/ FireRenew(p) \/ ExecRenew(p)
    \/ ExecRelease(p) \/ HandleAnswer(p) \/ CallFails(p) \/ Stop(p) \/ Exit(p) \/ Crash(p)

Next == Tick \/ \E p \in Instances : Step(p)

Spec == Init /\ [][Next]_vars

\* Time passes, intervals fire, Redis executes and answers, and the
\* orchestrator restarts what went down.
FairSpec ==
    /\ Spec
    /\ WF_vars(Tick)
    /\ \A p \in Instances :
         /\ WF_vars(Start(p)) /\ WF_vars(SendAcquire(p)) /\ WF_vars(FireRenew(p))
         /\ WF_vars(ExecAcquire(p) \/ ExecRenew(p) \/ ExecRelease(p))
         /\ WF_vars(HandleAnswer(p)) /\ WF_vars(Exit(p))

-----------------------------------------------------------------------------
(* Properties. *)

Calls == {None, "acquire", "acquired", "renew", "renewed", "refused", "release", "released"}

TypeOK ==
    /\ holder \in Instances \cup {Free, Gone} /\ ttl \in 0..LeaseTtl
    /\ isLeader \in [Instances -> BOOLEAN]
    /\ status \in [Instances -> {"running", "stopping", "down"}]
    /\ call \in [Instances -> Calls]
    /\ age \in [Instances -> 0..MaxDelay] /\ timer \in [Instances -> 0..RenewInterval]
    /\ faults \in 0..MaxFaults

\* The instances that ingest: flag set and poll loop running.
ActingLeaders == {p \in Instances : isLeader[p] /\ status[p] = "running"}

\* Why the key of an acting leader is safe: how much of the lease is left,
\* against the time since the interval last fired or the command was sent.
LeaseMargin(p) ==
    /\ status[p] = "down" => ~isLeader[p] /\ call[p] = None
    /\ status[p] = "running" /\ isLeader[p] =>
         /\ holder = p
         /\ call[p] \in {None, "renew", "renewed"}
         /\ call[p] = None      => ttl + timer[p] >= LeaseTtl - MaxDelay
         /\ call[p] = "renew"   => ttl + age[p] >= LeaseTtl - MaxDelay - RenewInterval
         /\ call[p] = "renewed" => ttl + age[p] >= LeaseTtl
    /\ status[p] = "running" /\ ~isLeader[p] =>
         /\ call[p] \in {None, "acquire", "acquired", "refused"}
         /\ call[p] = "acquired" => holder = p /\ ttl + age[p] >= LeaseTtl

LeaseMargins == \A p \in Instances : LeaseMargin(p)

\* At most one instance ingests at a time, although flags lag behind the key:
\* an acting leader's key cannot expire, nor be taken, before its next renewal.
AtMostOneLeader == \A p, q \in ActingLeaders : p = q

\* The election keeps the promise of LeaderLease.
Promise == INSTANCE LeaderLease WITH leaders <- ActingLeaders

KeepsPromise == Promise!LeaseSpec

\* Failover completes: when failures cease, some instance leads, and goes on
\* leading, even if the last leader died holding the key.
LeaderEmerges == <>[](ActingLeaders # {})
=============================================================================
