--------------------------- MODULE RuntimeConfig ---------------------------
(***************************************************************************)
(* Hot-reloadable settings: indexer/src/runtimeConfig.js on several        *)
(* instances that share the versioned table runtime_config.  A version     *)
(* stands for its row; versions that fail validation are not stored.       *)
(*                                                                         *)
(* Each query of an instance runs on a connection of the pool: it is sent, *)
(* runs in the database, and its answer is handled, as separate steps, and *)
(* answers of different connections arrive in any order.  apply runs under *)
(* an exclusive table lock, so its transaction is one step.  revertTo is   *)
(* an apply that is refused unless the instance is up to date, which adds  *)
(* no behaviour; the guardrail is such a revert.  Lost connections, after  *)
(* which the last-known-good settings stay, are left out.                  *)
(***************************************************************************)
EXTENDS Integers

CONSTANTS
    Servers,      \* processes in the roles "all" and "workers": only they call initRuntimeConfig
    MaxVersion    \* bound: versions stored

VARIABLES
    stored,     \* the latest version in runtime_config
    current,    \* version of current in each process
    boot,       \* where initRuntimeConfig is: "load", "loaded", "listen" or "up"
    loaded,     \* the version its own loadLatest read
    sent,       \* loadLatest queries of the listener sent and not yet run
    answers     \* versions they read, or apply wrote, whose answer is on its way

configVars == <<stored, current, boot, loaded, sent, answers>>

ConfigInit ==
    /\ stored = 0
    /\ current = [i \in Servers |-> 0] /\ boot = [i \in Servers |-> "load"]
    /\ loaded = [i \in Servers |-> 0]
    /\ sent = [i \in Servers |-> 0] /\ answers = [i \in Servers |-> {}]

\* initRuntimeConfig loads, sets what it loaded, and only then sends LISTEN.
LoadRuns(i) ==
    /\ boot[i] = "load" /\ boot' = [boot EXCEPT ![i] = "loaded"]
    /\ loaded' = [loaded EXCEPT ![i] = stored]
    /\ UNCHANGED <<stored, current, sent, answers>>

\* setCurrent: no row changes nothing, any other version replaces the current one.
setCurrent(i, version) == current' = [current EXCEPT ![i] = IF version = 0 THEN @ ELSE version]

LoadAnswered(i) ==
    /\ boot[i] = "loaded" /\ boot' = [boot EXCEPT ![i] = "listen"]
    /\ setCurrent(i, loaded[i])
    /\ UNCHANGED <<stored, loaded, sent, answers>>

Listen(i) ==
    /\ boot[i] = "listen" /\ boot' = [boot EXCEPT ![i] = "up"]
    /\ UNCHANGED <<stored, current, loaded, sent, answers>>

ReloadRuns(i) ==
    /\ sent[i] > 0 /\ sent' = [sent EXCEPT ![i] = @ - 1]
    /\ answers' = [answers EXCEPT ![i] = @ \cup {stored}]
    /\ UNCHANGED <<stored, current, boot, loaded>>

Answered(i) ==
    /\ \E version \in answers[i] :
          setCurrent(i, version) /\ answers' = [answers EXCEPT ![i] = @ \ {version}]
    /\ UNCHANGED <<stored, boot, loaded, sent>>

\* The commit notifies every listener, whose handler sends a loadLatest, and the
\* inserted row comes back to the process that applied it.
apply(i) ==
    /\ stored < MaxVersion /\ stored' = stored + 1
    /\ sent' = [j \in Servers |-> IF boot[j] = "up" THEN sent[j] + 1 ELSE sent[j]]
    /\ answers' = [answers EXCEPT ![i] = @ \cup {stored + 1}]
    /\ UNCHANGED <<current, boot, loaded>>

Reacts(i) == LoadRuns(i) \/ LoadAnswered(i) \/ Listen(i) \/ ReloadRuns(i) \/ Answered(i)

ConfigNext == \E i \in Servers : Reacts(i) \/ apply(i)

\* Fairness: the process runs and the database answers.  Nobody has to change the settings.
ConfigSpec ==
    ConfigInit /\ [][ConfigNext]_configVars /\ \A i \in Servers : WF_configVars(Reacts(i))
-----------------------------------------------------------------------------
(* Properties. *)

\* "Each instance LISTENs and reloads, so a change is live everywhere within about a
\* second": a process that listens ends up at each version stored, or a later one.
ChangesGoLive ==
    \A i \in Servers, v \in 1..MaxVersion :
        (boot[i] = "up" /\ stored >= v) ~> [](current[i] >= v)
=============================================================================
