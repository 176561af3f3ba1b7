-------------------------- MODULE MCLeaderElection --------------------------
EXTENDS LeaderElection
=============================================================================
