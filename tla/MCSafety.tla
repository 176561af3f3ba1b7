------------------------------ MODULE MCSafety ------------------------------
(***************************************************************************)
(* Components of which no liveness is asked, one after the other: the      *)
(* explorer contract's event log and its registry, the ticket contract,    *)
(* and the dead letter queue.  part says whose behaviour this is; the      *)
(* other parts stay in their initial states.  Log and registry share the   *)
(* administrator's keys, as they do in lib.rs; but for init, which sets    *)
(* those of both, no call reads the keys of both, so each part has its own *)
(* half of init.                                                           *)
(***************************************************************************)
EXTENDS EventLog, ExplorerRegistry, Ticket, DeadLetterQueue, TLC

CONSTANTS c1, c2

VARIABLE part

safetyVars == <<admin, paused, logVars, contractKeys, money, ticketVars, vars, part>>

\* c1 has an admin() view, which may name anyone; c2 has none.
MCViewAnswers == (c1 :> Addresses) @@ (c2 :> {})

MCAmounts == {-1, 0, 1}

\* Calls tell addresses apart by equality only, the queue its entries and workers; the
\* ticket contract's callers are People.  Registry and queue never move together, so one
\* permutation swaps the two addresses and the two entries.
Swap(S) == CHOOSE f \in Permutations(S) : \A x \in S : f[x] # x
Symmetry == {Swap(Addresses) @@ Swap(Entries)} \cup Permutations(Workers)

SafetyInit ==
    /\ part \in {"log", "registry", "ticket", "queue"}
    /\ LogInit /\ RegistryInit /\ TicketInit /\ Init

SafetyNext ==
    /\ UNCHANGED part
    /\ \/ part = "log" /\ LogNext /\ UNCHANGED <<contractKeys, money, ticketVars, vars>>
       \/ part = "registry" /\ RegistryNext /\ UNCHANGED <<logVars, ticketVars, vars>>
       \/ /\ part = "ticket" /\ TicketNext
          /\ UNCHANGED <<admin, paused, logVars, contractKeys, money, vars>>
       \/ /\ part = "queue" /\ Next
          /\ UNCHANGED <<admin, paused, logVars, contractKeys, money, ticketVars>>

SafetySpec == SafetyInit /\ [][SafetyNext]_safetyVars
=============================================================================
