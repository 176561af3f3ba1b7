---------------------------- MODULE RpcFailover ----------------------------
(***************************************************************************)
(* The pool of Soroban RPC nodes: callWithFailover, nextHealthy and the    *)
(* recovery poll of indexer/src/rpcMultiNode.js.  Calls run concurrently   *)
(* and share the nodes' health and the index of the primary; between two   *)
(* attempts of one call the others may change both.                        *)
(*                                                                         *)
(* A timeout is a failed call.  A node answers with any ledger, 0 standing *)
(* for an answer that carries none.  Several probes of one node in flight  *)
(* count as one.  Call statistics are left out.                            *)
(***************************************************************************)
EXTENDS Integers, FiniteSets, FiniteSetsExt

CONSTANTS
    NodeCount,     \* nodes.length
    Calls,         \* calls that may run at the same time
    LagThreshold,  \* LAG_THRESHOLD
    LastLedger     \* bound: ledgers a node answers with

ASSUME FailoverAssumption ==
    NodeCount \in Nat \ {0} /\ LagThreshold \in Nat /\ LastLedger \in Nat

VARIABLES
    healthy,       \* nodes whose healthy flag is set
    latestLedger,  \* latestLedger of each node
    primaryIndex,
    probed,        \* nodes that checkNodeRecovery waits for
    status,        \* of each call: "idle" (also once it has returned), "calling" or "threw"
    idx,           \* the node a call is trying; 0 once it is over
    attempt,       \* attempts a call has behind it; 0 once it is over
    spared         \* history: nodes healthy when the call began and not found unfit since

poolVars == <<healthy, latestLedger, primaryIndex, probed, status, idx, attempt, spared>>

Nodes == 0..(NodeCount - 1)

\* Mutant: always from the head of the list, where a node may just have recovered.
FirstHealthy(startIndex, fit) == IF fit = {} THEN 0 ELSE Min(fit)

\* The first healthy node after startIndex round the ring, or 0 once none is left.
nextHealthy(startIndex, fit) ==
    IF fit = {} THEN 0
    ELSE (startIndex + Min({i \in 1..NodeCount : (startIndex + i) % NodeCount \in fit})) % NodeCount

\* What nextHealthy leaves of the flags: with every node unhealthy it sets them all.
resetIfNone(fit) == IF fit = {} THEN Nodes ELSE fit

FailoverInit ==
    /\ healthy = Nodes /\ latestLedger = [n \in Nodes |-> 0] /\ primaryIndex = 0 /\ probed = {}
    /\ status = [c \in Calls |-> "idle"] /\ idx = [c \in Calls |-> 0]
    /\ attempt = [c \in Calls |-> 0] /\ spared = [c \in Calls |-> {}]

BeginCall(c) ==
    /\ status[c] # "calling"
    /\ status' = [status EXCEPT ![c] = "calling"]
    /\ idx' = [idx EXCEPT ![c] = primaryIndex]
    /\ attempt' = [attempt EXCEPT ![c] = 0]
    /\ spared' = [spared EXCEPT ![c] = healthy]
    /\ UNCHANGED <<healthy, latestLedger, primaryIndex, probed>>

LoopEnds(c, outcome) ==
    /\ status' = [status EXCEPT ![c] = outcome]
    /\ idx' = [idx EXCEPT ![c] = 0]
    /\ attempt' = [attempt EXCEPT ![c] = 0]

\* The node tried is marked unhealthy and the loop goes on with the next one, or throws.
TryNext(c) ==
    LET fit == healthy \ {idx[c]} IN
    /\ healthy' = resetIfNone(fit)
    /\ spared' = [d \in Calls |-> spared[d] \ {idx[c]}]
    /\ IF attempt[c] + 1 < NodeCount
       THEN /\ idx' = [idx EXCEPT ![c] = nextHealthy(@, fit)]
            /\ attempt' = [attempt EXCEPT ![c] = @ + 1]
            /\ UNCHANGED status
       ELSE LoopEnds(c, "threw")

CallFails(c) ==
    /\ status[c] = "calling"
    /\ TryNext(c)
    /\ UNCHANGED <<latestLedger, primaryIndex, probed>>

\* A node behind the best ledger known loses its answer and its place.
CallAnswered(c, ledger) ==
    /\ status[c] = "calling"
    /\ latestLedger' = IF ledger = 0 THEN latestLedger ELSE [latestLedger EXCEPT ![idx[c]] = ledger]
    /\ IF Max({latestLedger'[n] : n \in Nodes}) - latestLedger'[idx[c]] > LagThreshold
       THEN TryNext(c) /\ primaryIndex' = nextHealthy(idx[c], healthy \ {idx[c]})
       ELSE /\ primaryIndex' = idx[c]
            /\ LoopEnds(c, "idle")
            /\ spared' = [spared EXCEPT ![c] = {}]
            /\ UNCHANGED healthy
    /\ UNCHANGED probed

\* startNodeRecoveryPoll asks the nodes that are unhealthy at its tick.
ProbeUnhealthy ==
    /\ Nodes \ healthy # {}
    /\ probed' = probed \cup (Nodes \ healthy)
    /\ UNCHANGED <<healthy, latestLedger, primaryIndex, status, idx, attempt, spared>>

ProbeAnswered(n, ledger) ==
    /\ n \in probed /\ probed' = probed \ {n}
    /\ latestLedger' = [latestLedger EXCEPT ![n] = ledger]
    /\ healthy' = healthy \cup {n}
    /\ UNCHANGED <<primaryIndex, status, idx, attempt, spared>>

ProbeFails(n) ==
    /\ n \in probed /\ probed' = probed \ {n}
    /\ UNCHANGED <<healthy, latestLedger, primaryIndex, status, idx, attempt, spared>>

FailoverNext ==
    \/ \E c \in Calls : \/ BeginCall(c) \/ CallFails(c)
                        \/ \E ledger \in 0..LastLedger : CallAnswered(c, ledger)
    \/ ProbeUnhealthy
    \/ \E n \in Nodes : ProbeFails(n) \/ \E ledger \in 1..LastLedger : ProbeAnswered(n, ledger)

FailoverSpec == FailoverInit /\ [][FailoverNext]_poolVars
-----------------------------------------------------------------------------
(* Properties. *)

FailoverTypeOK ==
    /\ healthy \subseteq Nodes /\ probed \subseteq Nodes /\ primaryIndex \in Nodes
    /\ latestLedger \in [Nodes -> 0..LastLedger]
    /\ status \in [Calls -> {"idle", "calling", "threw"}]
    /\ idx \in [Calls -> Nodes] /\ attempt \in [Calls -> 0..NodeCount]
    /\ spared \in [Calls -> SUBSET Nodes]

\* "If it fails or falls behind consensus, the client switches to the next healthy node":
\* however other calls move the primary and reset the flags meanwhile, a call throws only
\* when every node that was healthy as it began has been found failing or lagging since.
FailsOnlyWhenAllDid == \A c \in Calls : status[c] = "threw" => spared[c] = {}
=============================================================================
