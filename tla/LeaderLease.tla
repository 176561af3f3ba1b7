---------------------------- MODULE LeaderLease ----------------------------
(***************************************************************************)
(* What optional/leaderElection.js promises its callers: isLeader() is     *)
(* true in at most one ingesting instance at a time.  A standby may start  *)
(* acting as leader only when nobody does; a leader may stop at any time   *)
(* (lost lease, Redis error, shutdown, crash).                             *)
(*                                                                         *)
(* LeaderElection implements this module under its timing assumptions,     *)
(* and IngestDaemon composes it with the poll loops of the instances.      *)
(***************************************************************************)
CONSTANT Instances   \* the indexer processes that share one Redis lease key

VARIABLE leaders     \* the instances whose poll loop sees isLeader() = true

LeaseInit == leaders = {}

\* tryAcquireLock() returned true and set _isLeader.
BecomeLeader(p) ==
    /\ leaders = {}
    /\ leaders' = {p}

\* renewLock()/releaseLock() cleared _isLeader, or the process is gone.
StopLeading(p) ==
    /\ p \in leaders
    /\ leaders' = leaders \ {p}

LeaseNext == \E p \in Instances : BecomeLeader(p) \/ StopLeading(p)

LeaseSpec == LeaseInit /\ [][LeaseNext]_leaders
=============================================================================
