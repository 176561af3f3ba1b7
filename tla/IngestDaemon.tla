---------------------------- MODULE IngestDaemon ----------------------------
(***************************************************************************)
(* The ingest daemon (indexer/src/index.js: runIngest, indexLedger), its   *)
(* reorg check (reorgWorker.js) and the tables both write (db.js: events,  *)
(* ledger_hashes, daemon_state), for one or more instances that share the  *)
(* database and, when LeadershipEnabled, the Redis leader lease.           *)
(*                                                                         *)
(* The network is a chain of ledgers 1..tip.  chain[l] is the fork that    *)
(* ledger l belongs to, and stands for the ledger's hash: two versions of  *)
(* a ledger have the same hash iff they are on the same fork.  A ledger    *)
(* carries one contract event, so an events row is a pair <<l, fork>>.     *)
(*                                                                         *)
(* One action is one await-delimited step of the loop: between two of them *)
(* the chain may grow or reorganise, another instance may run, leadership  *)
(* may change, and the process may crash.                                  *)
(***************************************************************************)
EXTENDS Integers, FiniteSets

CONSTANTS
    Instances,           \* ingest processes
    LeadershipEnabled,   \* LEADER_ELECTION_ENABLED
    StartLedger,         \* START_LEDGER
    PageLimit,           \* PAGE_LIMIT: events per getEvents page
    BatchSize,           \* INGEST_BATCH_SIZE: events per pipeline batch
    ReorgCheckInterval,  \* REORG_CHECK_INTERVAL
    ReorgMaxDepth,       \* REORG_MAX_DEPTH
    LeaseMayLapse,       \* may a living leader lose its lease (Redis outage, stall)?
    TipMayRegress,       \* may the RPC node's latest ledger go back in a reorg?
    MaxLedger,           \* bound: the chain stops growing here
    MaxForks,            \* bound: forks the chain ever has (MaxForks - 1 reorgs)
    MaxFaults            \* bound: crashes, RPC, database and batch failures

ASSUME IngestAssumption ==
    /\ LeadershipEnabled \in BOOLEAN /\ LeaseMayLapse \in BOOLEAN /\ TipMayRegress \in BOOLEAN
    /\ StartLedger \in Nat \ {0} /\ MaxLedger \in Nat \ {0} /\ MaxForks \in Nat \ {0}
    /\ PageLimit \in Nat \ {0} /\ BatchSize \in Nat \ {0}
    /\ ReorgCheckInterval \in Nat \ {0} /\ ReorgMaxDepth \in Nat \ {0}
    /\ MaxFaults \in Nat
    /\ StartLedger <= MaxLedger

Ledgers == 1..MaxLedger
Forks   == 1..MaxForks
NoHash  == 0            \* no ledger_hashes row

VARIABLES
    chain, tip, forkId,  \* the network: version of each ledger, latest ledger, newest fork
    rows,                \* events table: set of <<ledger, fork>>
    hashes,              \* ledger_hashes table: ledger -> fork, or NoHash
    dbCursor,            \* daemon_state 'cursor' (0 in a fresh database)
    lastIndexed,         \* daemon_state 'last_indexed_ledger'
    lost,                \* history: events whose batch failed, as if rolled back with rows
    unheard,             \* history: ledgers purged by a rollback whose COMMIT went unanswered
    faults,              \* failures so far
    leaders,             \* instances whose isLeader() is true
    pc,                  \* where each instance is in its loop
    cursor,              \* _cursor
    polledFrom,          \* polledFrom
    page,                \* the page in hand: next start, whether more follow, pending batches
    latest, latestHash,  \* latestLedger, latestLedgerHash of the last response
    since,               \* ledgersSinceReorgCheck
    fork                 \* fork ledger the reorg check found (0: none)

network == <<chain, tip, forkId>>
tables  == <<rows, hashes, dbCursor, lastIndexed, lost, unheard>>
poll    == <<polledFrom, page, latest, latestHash>>
vars    == <<network, tables, faults, leaders, pc, cursor, poll, since, fork>>

Lease == INSTANCE LeaderLease

IsLeader(p) == LeadershipEnabled => p \in leaders

NoPage == [next |-> 0, more |-> FALSE, batches |-> {}]

Init ==
    /\ chain = [l \in Ledgers |-> 1] /\ tip = StartLedger /\ forkId = 1
    /\ rows = {} /\ hashes = [l \in Ledgers |-> NoHash]
    /\ dbCursor = 0 /\ lastIndexed = 0 /\ lost = {} /\ unheard = {}
    /\ faults = 0
    /\ Lease!LeaseInit
    /\ pc = [p \in Instances |-> "down"]
    /\ cursor = [p \in Instances |-> 0]
    /\ polledFrom = [p \in Instances |-> 0]
    /\ page = [p \in Instances |-> NoPage]
    /\ latest = [p \in Instances |-> 0] /\ latestHash = [p \in Instances |-> NoHash]
    /\ since = [p \in Instances |-> 0]
    /\ fork = [p \in Instances |-> 0]

-----------------------------------------------------------------------------
(* The network behind the RPC node. *)

CloseLedger ==
    /\ tip < MaxLedger
    /\ tip' = tip + 1
    /\ UNCHANGED <<chain, forkId, tables, faults, leaders, pc, cursor, poll, since, fork>>

\* Ledgers k.. are replaced by other versions of themselves.
Reorganise ==
    /\ forkId < MaxForks
    /\ forkId' = forkId + 1
    /\ \E k \in 1..tip :
         /\ chain' = [l \in Ledgers |-> IF l >= k THEN forkId + 1 ELSE chain[l]]
         /\ tip' \in IF TipMayRegress THEN k..tip ELSE {tip}
    /\ UNCHANGED <<tables, faults, leaders, pc, cursor, poll, since, fork>>

-----------------------------------------------------------------------------
(* Starting, stopping and losing leadership. *)

Fault == faults < MaxFaults /\ faults' = faults + 1

Goto(p, label) == pc' = [pc EXCEPT ![p] = label]

\* The saved cursor, else the highest indexed ledger, else START_LEDGER.
resolveStartupCursor ==
    IF dbCursor > 0 THEN dbCursor
    ELSE IF rows # {} THEN CHOOSE l \in Ledgers : /\ \E f \in Forks : <<l, f>> \in rows
                                                  /\ \A r \in rows : r[1] <= l
    ELSE StartLedger

\* runIngest reads the saved cursor ...
Boot(p) ==
    /\ pc[p] = "down"
    /\ cursor' = [cursor EXCEPT ![p] = resolveStartupCursor]
    /\ since' = [since EXCEPT ![p] = 0]
    /\ Goto(p, "booting")
    /\ UNCHANGED <<network, tables, faults, leaders, poll, fork>>

\* ... and writes what it resolved back, leader or not.
SaveStartupCursor(p) ==
    /\ pc[p] = "booting"
    /\ dbCursor' = cursor[p]
    /\ Goto(p, "idle")
    /\ UNCHANGED <<network, rows, hashes, lastIndexed, lost, unheard, faults, leaders, cursor,
                   poll, since, fork>>

Crash(p) ==
    /\ Fault
    /\ pc[p] # "down"
    /\ Goto(p, "down")
    /\ leaders' = leaders \ {p}
    /\ cursor' = [cursor EXCEPT ![p] = 0]
    /\ polledFrom' = [polledFrom EXCEPT ![p] = 0]
    /\ page' = [page EXCEPT ![p] = NoPage]
    /\ latest' = [latest EXCEPT ![p] = 0]
    /\ latestHash' = [latestHash EXCEPT ![p] = NoHash]
    /\ since' = [since EXCEPT ![p] = 0]
    /\ fork' = [fork EXCEPT ![p] = 0]
    /\ UNCHANGED <<network, tables>>

Elected(p) ==
    /\ LeadershipEnabled /\ pc[p] # "down"
    /\ Lease!BecomeLeader(p)
    /\ UNCHANGED <<network, tables, faults, pc, cursor, poll, since, fork>>

LeaseLost(p) ==
    /\ LeadershipEnabled /\ LeaseMayLapse
    /\ Fault
    /\ Lease!StopLeading(p)
    /\ UNCHANGED <<network, tables, pc, cursor, poll, since, fork>>

-----------------------------------------------------------------------------
(* indexLedger: getEvents page by page, each page through the pipeline. *)

PageFrom(start) == {l \in Ledgers : start <= l /\ l <= tip /\ l < start + PageLimit}

\* A page of 200 events is four batches of 64 for four workers: all of a page's
\* batches are in flight together and finish in any order.
BatchesFrom(start) ==
    LET BatchNo(l) == (l - start) \div BatchSize
    IN  {{<<l, chain[l]>> : l \in {k \in PageFrom(start) : BatchNo(k) = BatchNo(m)}}
            : m \in PageFrom(start)}

FetchPage(p) ==
    /\ pc[p] \in {"idle", "nextPage"}
    /\ IsLeader(p)
    /\ LET start == IF pc[p] = "idle" THEN cursor[p] ELSE page[p].next
       IN  page' = [page EXCEPT ![p] = [next    |-> start + PageLimit,
                                        more    |-> start + PageLimit - 1 <= tip,
                                        batches |-> BatchesFrom(start)]]
    /\ polledFrom' = [polledFrom EXCEPT ![p] = cursor[p]]
    /\ latest' = [latest EXCEPT ![p] = tip]
    /\ latestHash' = [latestHash EXCEPT ![p] = chain[tip]]
    /\ Goto(p, "ingesting")
    /\ UNCHANGED <<network, tables, faults, leaders, cursor, since, fork>>

\* processEventBatch inserts the whole batch in one statement, or fails; the
\* pipeline logs a failed batch and carries on.
ProcessBatch(p) ==
    /\ pc[p] = "ingesting"
    /\ \E b \in page[p].batches :
         /\ page' = [page EXCEPT ![p].batches = @ \ {b}]
         /\ \/ rows' = rows \cup b /\ UNCHANGED <<lost, faults>>
            \/ Fault /\ lost' = lost \cup b /\ UNCHANGED rows
    /\ UNCHANGED <<network, hashes, dbCursor, lastIndexed, unheard, leaders, pc, cursor,
                   polledFrom, latest, latestHash, since, fork>>

\* The pipeline has drained: record the latest ledger's hash (first writer wins,
\* errors are swallowed) and follow the page cursor if the page was full.
FinishPage(p) ==
    /\ pc[p] = "ingesting"
    /\ page[p].batches = {}
    /\ \/ /\ hashes' = IF hashes[latest[p]] = NoHash
                       THEN [hashes EXCEPT ![latest[p]] = latestHash[p]] ELSE hashes
          /\ UNCHANGED faults
       \/ Fault /\ UNCHANGED hashes
    /\ Goto(p, IF page[p].more THEN "nextPage" ELSE "polled")
    /\ UNCHANGED <<network, rows, dbCursor, lastIndexed, lost, unheard, leaders, cursor,
                   poll, since, fork>>

\* assertLeadership() throws, or an RPC call fails after its retries: the loop
\* catches, keeps its cursor and starts over.
Interrupted(p) ==
    /\ \/ pc[p] \in {"nextPage", "polled", "scanned", "rolledBack"} /\ ~IsLeader(p) /\ UNCHANGED faults
       \/ pc[p] = "nextPage" /\ Fault
    /\ Goto(p, "idle")
    /\ UNCHANGED <<network, tables, leaders, cursor, poll, since, fork>>

-----------------------------------------------------------------------------
(* checkForReorg and the rest of the loop body. *)

Recorded == {l \in Ledgers : hashes[l] # NoHash}

\* getRecentLedgerHashes: the newest REORG_CHECK_INTERVAL + REORG_MAX_DEPTH rows.
RecentHashes ==
    {l \in Recorded : Cardinality({m \in Recorded : m > l}) < ReorgCheckInterval + ReorgMaxDepth}

\* Stored rows the network contradicts; getLedger answers null for a ledger it
\* does not have or, for the ledgers in `unreachable`, because the call failed.
Mismatches(unreachable) ==
    {l \in RecentHashes \ unreachable : l <= tip /\ hashes[l] # chain[l]}

MayBeUnreachable(unreachable) ==
    IF unreachable = {} THEN UNCHANGED faults ELSE Fault

Earliest(f, S) == f \in S /\ \A l \in S : f <= l

\* The fast path: the ledger just polled is on record with another hash.  An
\* error reading the hashes counts as no fork.
CheckFastPath(p) ==
    /\ pc[p] = "polled"
    /\ IsLeader(p)
    /\ LET mismatch == latest[p] \in RecentHashes /\ hashes[latest[p]] # latestHash[p]
       IN  \/ /\ mismatch
              /\ \E unreachable \in SUBSET RecentHashes, f \in Ledgers :
                   /\ Earliest(f, Mismatches(unreachable) \cup {latest[p]})
                   /\ fork' = [fork EXCEPT ![p] = f]
                   /\ MayBeUnreachable(unreachable)
              /\ Goto(p, "fastRollback")
           \/ /\ ~mismatch
              /\ Goto(p, "checked") /\ UNCHANGED <<faults, fork>>
           \/ Fault /\ Goto(p, "checked") /\ UNCHANGED fork
    /\ UNCHANGED <<network, tables, leaders, cursor, poll, since>>

\* Mutant: an idle poll, whose span is 0, counts for nothing.
CountLedgersWithoutFloor(p) ==
    /\ pc[p] = "checked"
    /\ LET n == since[p] + latest[p] - polledFrom[p] + 1
       IN  /\ since' = [since EXCEPT ![p] = IF n < ReorgCheckInterval THEN n ELSE ReorgCheckInterval]
           /\ Goto(p, IF n >= ReorgCheckInterval THEN "scan" ELSE "save")
    /\ UNCHANGED <<network, tables, faults, leaders, cursor, poll, fork>>

\* Count the ledgers of this poll; the count is only compared with the interval.
CountLedgers(p) ==
    /\ pc[p] = "checked"
    /\ LET span == latest[p] - polledFrom[p] + 1
           n    == since[p] + (IF span > 1 THEN span ELSE 1)
       IN  /\ since' = [since EXCEPT ![p] = IF n < ReorgCheckInterval THEN n ELSE ReorgCheckInterval]
           /\ Goto(p, IF n >= ReorgCheckInterval THEN "scan" ELSE "save")
    /\ UNCHANGED <<network, tables, faults, leaders, cursor, poll, fork>>

\* The periodic scan over all recent hashes; a database error aborts the poll.
ScanHashes(p) ==
    /\ pc[p] = "scan"
    /\ \/ \E unreachable \in SUBSET RecentHashes :
            /\ MayBeUnreachable(unreachable)
            /\ \/ /\ Mismatches(unreachable) = {}
                  /\ Goto(p, "scanned") /\ UNCHANGED fork
               \/ \E f \in Mismatches(unreachable) :
                    /\ Earliest(f, Mismatches(unreachable))
                    /\ fork' = [fork EXCEPT ![p] = f]
                    /\ Goto(p, "scanRollback")
       \/ Fault /\ Goto(p, "idle") /\ UNCHANGED fork
    /\ UNCHANGED <<network, tables, leaders, cursor, poll, since>>

\* Mutant: the rewind is left to the caller, outside the transaction.
RollbackTablesWithoutRewind(f) ==
    /\ rows' = {r \in rows : r[1] < f}
    /\ lost' = {r \in lost : r[1] < f}
    /\ hashes' = [l \in Ledgers |-> IF l < f THEN hashes[l] ELSE NoHash]
    /\ UNCHANGED <<dbCursor, lastIndexed>>

\* rollbackFromLedger: one transaction purges rows and hashes and rewinds the
\* durable cursor.
RollbackTables(f) ==
    /\ rows' = {r \in rows : r[1] < f}
    /\ lost' = {r \in lost : r[1] < f}
    /\ hashes' = [l \in Ledgers |-> IF l < f THEN hashes[l] ELSE NoHash]
    /\ dbCursor' = f
    /\ UNCHANGED lastIndexed

\* The fast path then rewinds _cursor; the scan path still has an
\* assertLeadership() before it does.
Rollback(p) ==
    /\ RollbackTables(fork[p])
    /\ unheard' = {l \in unheard : l < fork[p]}
    /\ \/ /\ pc[p] = "fastRollback"
          /\ cursor' = [cursor EXCEPT ![p] = fork[p]]
          /\ Goto(p, "idle")
       \/ /\ pc[p] = "scanRollback"
          /\ Goto(p, "rolledBack") /\ UNCHANGED cursor
    /\ UNCHANGED <<network, faults, leaders, poll, since, fork>>

\* An error on the fast path is logged and the poll goes on as if there were no
\* fork; one on the scan path aborts the poll.  Neither rewinds _cursor.
GoOnWithoutRewind(p) ==
    \/ pc[p] = "fastRollback" /\ Goto(p, "checked")
    \/ pc[p] = "scanRollback" /\ Goto(p, "idle")

\* The transaction is refused or its connection breaks before the COMMIT.
RollbackFails(p) ==
    /\ Fault
    /\ GoOnWithoutRewind(p)
    /\ UNCHANGED <<network, tables, leaders, cursor, poll, since, fork>>

\* The COMMIT takes effect and the connection breaks before the answer: to the
\* caller it is the same error, while the tables are purged.
RollbackUnanswered(p) ==
    /\ Fault
    /\ RollbackTables(fork[p])
    /\ unheard' = unheard \cup {r[1] : r \in {s \in rows \cup lost : s[1] >= fork[p]}}
    /\ GoOnWithoutRewind(p)
    /\ UNCHANGED <<network, leaders, cursor, poll, since, fork>>

AfterScan(p) ==
    /\ IsLeader(p)
    /\ since' = [since EXCEPT ![p] = 0]
    /\ \/ /\ pc[p] = "scanned"
          /\ Goto(p, "save") /\ UNCHANGED cursor
       \/ /\ pc[p] = "rolledBack"
          /\ cursor' = [cursor EXCEPT ![p] = fork[p]]
          /\ Goto(p, "idle")
    /\ UNCHANGED <<network, tables, faults, leaders, poll, fork>>

\* Mutants: the cursor is saved one ledger too far, or not past the latest one.
SaveAt(p, next) ==
    /\ pc[p] = "save"
    /\ cursor' = [cursor EXCEPT ![p] = next]
    /\ dbCursor' = next /\ lastIndexed' = latest[p]
    /\ Goto(p, "idle")
    /\ UNCHANGED <<network, rows, hashes, lost, unheard, faults, leaders, poll, since, fork>>

SaveProgressAtLatest(p) == SaveAt(p, latest[p])

\* _cursor is advanced before the two writes; either may fail.
SaveProgress(p) ==
    /\ pc[p] = "save"
    /\ cursor' = [cursor EXCEPT ![p] = latest[p] + 1]
    /\ \/ /\ dbCursor' = latest[p] + 1
          /\ \/ lastIndexed' = latest[p] /\ UNCHANGED faults
             \/ Fault /\ UNCHANGED lastIndexed
       \/ Fault /\ UNCHANGED <<dbCursor, lastIndexed>>
    /\ Goto(p, "idle")
    /\ UNCHANGED <<network, rows, hashes, lost, unheard, leaders, poll, since, fork>>

-----------------------------------------------------------------------------
LoopStep(p) ==
    \/ Boot(p) \/ SaveStartupCursor(p)
    \/ FetchPage(p) \/ ProcessBatch(p) \/ FinishPage(p) \/ Interrupted(p)
    \/ CheckFastPath(p) \/ CountLedgers(p) \/ ScanHashes(p)
    \/ Rollback(p) \/ RollbackFails(p) \/ RollbackUnanswered(p)
    \/ AfterScan(p) \/ SaveProgress(p)

Next ==
    \/ CloseLedger \/ Reorganise
    \/ \E p \in Instances : LoopStep(p) \/ Crash(p) \/ Elected(p) \/ LeaseLost(p)

Spec == Init /\ [][Next]_vars

\* The event loop always gets to the next step of the poll loop, and faults,
\* being finitely many, eventually cease.
FairSpec == Spec /\ \A p \in Instances : WF_vars(LoopStep(p)) /\ WF_vars(Elected(p))
-----------------------------------------------------------------------------
(* Properties. *)

Labels == {"down", "booting", "idle", "ingesting", "nextPage", "polled", "fastRollback",
           "checked", "scan", "scanRollback", "scanned", "rolledBack", "save"}

Pages == [next : Nat, more : BOOLEAN, batches : SUBSET SUBSET (Ledgers \X Forks)]

TypeOK ==
    /\ chain \in [Ledgers -> Forks] /\ tip \in Ledgers /\ forkId \in Forks
    /\ rows \subseteq Ledgers \X Forks /\ lost \subseteq Ledgers \X Forks /\ unheard \subseteq Ledgers
    /\ hashes \in [Ledgers -> Forks \cup {NoHash}]
    /\ dbCursor \in 0..(MaxLedger + 1) /\ lastIndexed \in 0..MaxLedger
    /\ faults \in 0..MaxFaults
    /\ leaders \subseteq Instances
    /\ pc \in [Instances -> Labels]
    /\ cursor \in [Instances -> 0..(MaxLedger + 1)]
    /\ polledFrom \in [Instances -> 0..(MaxLedger + 1)]
    /\ page \in [Instances -> Pages]
    /\ latest \in [Instances -> 0..MaxLedger]
    /\ latestHash \in [Instances -> Forks \cup {NoHash}]
    /\ since \in [Instances -> 0..ReorgCheckInterval]
    /\ fork \in [Instances -> 0..MaxLedger]

\* Ledger l has an event row, or the batch that held its event was logged as failed.
Covered(l) == \E f \in Forks : <<l, f>> \in rows \cup lost

Accounted(l) == Covered(l) \/ l \in unheard

\* The durable cursor never passes a ledger that did not go through the pipeline
\* since a rollback purged it (the cursor is rewound in the purging transaction),
\* whatever crashes, failed saves, partial pages and rollbacks happened.  The one
\* exception is named: ledgers purged by a rollback that the loop never heard had
\* committed, and whose rewind its next save overwrites (index.js:694, 722).
CursorCoverage == \A l \in StartLedger..(dbCursor - 1) : Accounted(l)

\* reorgWorker.js: "the orphaned rows are purged and the cursor is rewound to the fork
\* height so the main indexer loop can re-index from there": below the durable cursor
\* nothing is left purged.
PurgedIsReindexed == \A l \in StartLedger..(dbCursor - 1) : Covered(l)

\* Once the chain is quiet, the daemon catches up with it and stays caught up:
\* the durable cursor settles just past the network's latest ledger.
CatchesUp == <>[](dbCursor = tip + 1)

\* Once the chain is quiet, every recent hash on record is the network's: a
\* reorganisation below a recorded ledger is found, by the fast path or by a
\* scan that some earlier getLedger failure made miss it, even if no further
\* ledger ever closes.
HashesRepaired == <>[](Mismatches({}) = {})

\* docs/guides/game-day.md, kill-ingest-leader: "New leader elected; [...] no new
\* gaps": whichever instance was killed and took over, every ledger of the quiet
\* chain ends up ingested (an unheard rollback makes gaps without any kill:
\* PurgedIsReindexed).
NoNewGaps == <>[](\A l \in StartLedger..tip : Accounted(l))

\* reorgWorker.js: "When a mismatch is detected the orphaned rows are purged":
\* when a rollback has run, no row of a replaced ledger version is left.
RollbackPurgesOrphans ==
    [][\A p \in Instances : Rollback(p) => \A r \in rows' : r[2] = chain[r[1]]]_vars
=============================================================================
