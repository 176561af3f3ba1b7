---------------------------- MODULE IngestProofs ----------------------------
(***************************************************************************)
(* Proofs about IngestDaemon: the type invariant for any deployment, and   *)
(* CursorCoverage for the deployment the durable cursor was designed for,  *)
(* one ingest process and an RPC node whose latest ledger never regresses, *)
(* and for any number of processes while the chain does not fork (then     *)
(* without exception: nothing is rolled back, so unheard stays empty).     *)
(* Chain length, forks, faults and page sizes are otherwise arbitrary.     *)
(***************************************************************************)
EXTENDS IngestDaemon, TLAPS

\* The loop has taken a response from the RPC node and not finished with it.
Polling == {"ingesting", "nextPage", "polled", "fastRollback", "checked", "scan",
            "scanRollback", "scanned", "save"}

\* Nothing is ingested before some instance has saved a startup cursor.
StartupInv ==
    /\ dbCursor = 0 => rows = {} /\ \A p \in Instances : pc[p] \in {"down", "booting"}
    /\ \A p \in Instances :
         /\ pc[p] # "down" => cursor[p] > 0
         /\ pc[p] \in Polling => latest[p] > 0 /\ latestHash[p] # NoHash
         /\ pc[p] \in {"fastRollback", "scanRollback", "rolledBack"} => fork[p] > 0

TypeInv == TypeOK /\ StartupInv

CoveredBelow(n) == \A l \in StartLedger..(n - 1) : Accounted(l)

InFlight(p, l) == \E b \in page[p].batches : \E f \in Forks : <<l, f>> \in b

\* The pages of the poll in progress are in the tables, or in flight.
PageInv(p) ==
    /\ pc[p] \in {"ingesting", "nextPage"} =>
         /\ \A l \in StartLedger..(page[p].next - 1) :
              l <= latest[p] => Accounted(l) \/ InFlight(p, l)
         /\ page[p].more <=> page[p].next - 1 <= latest[p]
    /\ pc[p] = "nextPage" => page[p].batches = {} /\ page[p].more

\* What that poll has ingested so far, against what it may save.
PollInv(p) ==
    /\ pc[p] \notin {"down", "rolledBack"} => CoveredBelow(cursor[p])
    /\ PageInv(p)
    /\ pc[p] \in Polling \ {"ingesting", "nextPage"} => CoveredBelow(latest[p] + 1)
    /\ pc[p] \in Polling =>
         latest[p] <= tip /\ \A l \in Ledgers : hashes[l] # NoHash => l <= latest[p]
    /\ pc[p] \in {"fastRollback", "scanRollback"} => fork[p] <= latest[p]
    /\ pc[p] = "rolledBack" => CoveredBelow(fork[p])

\* No hash is on record for a ledger the network has not closed.
HashInv == \A l \in Ledgers : hashes[l] # NoHash => l <= tip

CoverageInv == CursorCoverage /\ HashInv /\ \A p \in Instances : PollInv(p)

USE IngestAssumption

-----------------------------------------------------------------------------
(* Type correctness. *)

\* A fresh database and processes that are all down are well typed.
LEMMA InitTypeInv == Init => TypeInv
  BY DEF Init, TypeInv, TypeOK, StartupInv, Polling, NoPage, Pages, Labels, Lease!LeaseInit,
         Ledgers, Forks, NoHash

\* Closing or replacing ledgers keeps the chain within its bounds.
LEMMA NetworkTypeInv == TypeInv /\ (CloseLedger \/ Reorganise) => TypeInv'
<1> USE DEF TypeInv, TypeOK, StartupInv, Polling, tables, poll
<1>1. ASSUME TypeInv, CloseLedger PROVE TypeInv'
  BY <1>1 DEF CloseLedger, Ledgers
<1>2. ASSUME TypeInv, Reorganise PROVE TypeInv'
  <2>1. forkId' \in Forks
    BY <1>2 DEF Reorganise, Forks
  <2>2. tip' \in Ledgers /\ chain' \in [Ledgers -> Forks]
    BY <1>2, <2>1 DEF Reorganise, Ledgers
  <2> QED
    BY <1>2, <2>1, <2>2 DEF Reorganise
<1> QED BY <1>1, <1>2

\* Every step of an instance keeps the tables and its loop state well typed; a
\* fork is never found, nor a hash recorded, without a response in hand.
LEMMA InstanceTypeInv ==
  ASSUME TypeInv, NEW p \in Instances,
         LoopStep(p) \/ Crash(p) \/ Elected(p) \/ LeaseLost(p)
  PROVE  TypeInv'
<1> USE DEF TypeInv, network, tables, poll, Goto, Fault, Labels
<1>1. CASE Boot(p)
  <2> USE <1>1 DEF Boot
  <2>0. resolveStartupCursor \in 1..(MaxLedger + 1)
    BY DEF resolveStartupCursor, TypeOK, StartupInv
  <2>1. TypeOK' BY <2>0 DEF TypeOK
  <2>2. StartupInv' BY <2>0 DEF TypeOK, StartupInv, Polling
  <2> QED BY <2>1, <2>2 DEF TypeInv
<1>2. CASE SaveStartupCursor(p)
  <2> USE <1>2 DEF SaveStartupCursor
  <2>1. TypeOK' BY DEF TypeOK
  <2>2. StartupInv' BY DEF TypeOK, StartupInv, Polling
  <2> QED BY <2>1, <2>2 DEF TypeInv
<1>3. CASE FetchPage(p)
  <2> USE <1>3 DEF FetchPage
  <2>1. chain[tip] \in Forks /\ tip \in Ledgers
    BY DEF TypeOK
  <2>2. ASSUME NEW start \in Nat PROVE BatchesFrom(start) \in SUBSET SUBSET (Ledgers \X Forks)
    BY DEF BatchesFrom, PageFrom, TypeOK
  <2>3. page' \in [Instances -> Pages]
    <3> DEFINE start == IF pc[p] = "idle" THEN cursor[p] ELSE page[p].next
    <3>1. start \in Nat
      BY DEF TypeOK, Pages
    <3>2. [next |-> start + PageLimit, more |-> start + PageLimit - 1 <= tip,
           batches |-> BatchesFrom(start)] \in Pages
      BY <3>1, <2>2 DEF Pages
    <3>3. page' = [page EXCEPT ![p] = [next |-> start + PageLimit,
                                       more |-> start + PageLimit - 1 <= tip,
                                       batches |-> BatchesFrom(start)]]
      OBVIOUS
    <3> HIDE DEF start
    <3> QED BY <3>2, <3>3 DEF TypeOK
  <2>4. /\ latest' = [latest EXCEPT ![p] = tip] /\ latestHash' = [latestHash EXCEPT ![p] = chain[tip]]
        /\ tip \in 0..MaxLedger /\ tip > 0 /\ chain[tip] # NoHash
    BY <2>1 DEF Ledgers, Forks, NoHash
  <2>5. polledFrom' = [polledFrom EXCEPT ![p] = cursor[p]] /\ pc' = [pc EXCEPT ![p] = "ingesting"]
    OBVIOUS
  <2>6. UNCHANGED <<network, tables, faults, leaders, cursor, since, fork>> /\ pc[p] \in {"idle", "nextPage"}
    OBVIOUS
  <2> HIDE <1>3 DEF FetchPage
  <2>7. TypeOK' BY <2>1, <2>3, <2>4, <2>5, <2>6 DEF TypeOK
  <2>8. StartupInv' BY <2>1, <2>4, <2>5, <2>6 DEF TypeOK, StartupInv, Polling
  <2> QED BY <2>7, <2>8 DEF TypeInv
<1>4. CASE ProcessBatch(p)
  <2> USE <1>4 DEF ProcessBatch
  <2>1. PICK b \in page[p].batches : page' = [page EXCEPT ![p].batches = @ \ {b}]
    OBVIOUS
  <2>2. page' \in [Instances -> Pages]
    BY <2>1 DEF TypeOK, Pages
  <2>3. rows' \subseteq Ledgers \X Forks /\ lost' \subseteq Ledgers \X Forks
    BY DEF TypeOK, Pages
  <2>4. faults' \in 0..MaxFaults
    BY DEF TypeOK
  <2>5. TypeOK' BY <2>2, <2>3, <2>4 DEF TypeOK
  <2>6. StartupInv' BY DEF TypeOK, StartupInv, Polling
  <2> QED BY <2>5, <2>6 DEF TypeInv
<1>5. CASE FinishPage(p)
  <2> USE <1>5 DEF FinishPage
  <2>1. TypeOK' BY DEF TypeOK
  <2>2. StartupInv' BY DEF TypeOK, StartupInv, Polling
  <2> QED BY <2>1, <2>2 DEF TypeInv
<1>6. CASE Interrupted(p)
  <2> USE <1>6 DEF Interrupted
  <2>1. TypeOK' BY DEF TypeOK
  <2>2. StartupInv' BY DEF TypeOK, StartupInv, Polling
  <2> QED BY <2>1, <2>2 DEF TypeInv
<1>7. CASE CheckFastPath(p)
  <2> USE <1>7 DEF CheckFastPath
  <2>1. faults' \in 0..MaxFaults
    <3>1. faults' = faults \/ Fault
      BY DEF MayBeUnreachable
    <3> HIDE <1>7 DEF CheckFastPath
    <3> QED BY <3>1 DEF TypeOK
  <2>2. \/ \E f \in 1..MaxLedger : fork' = [fork EXCEPT ![p] = f] /\ Goto(p, "fastRollback")
        \/ fork' = fork /\ Goto(p, "checked")
    BY DEF Ledgers
  <2>3. UNCHANGED <<network, tables, leaders, cursor, poll, since>> /\ pc[p] = "polled"
    OBVIOUS
  <2> HIDE <1>7 DEF CheckFastPath
  <2>4. pc' \in [Instances -> Labels] /\ fork' \in [Instances -> 0..MaxLedger]
    BY <2>2 DEF TypeOK, Labels
  <2>5. TypeOK' BY <2>1, <2>3, <2>4 DEF TypeOK
  <2>6. StartupInv' BY <2>2, <2>3 DEF TypeOK, StartupInv, Polling
  <2> QED BY <2>5, <2>6 DEF TypeInv
<1>8. CASE CountLedgers(p)
  <2> USE <1>8 DEF CountLedgers
  <2>1. TypeOK' BY DEF TypeOK
  <2>2. StartupInv' BY DEF TypeOK, StartupInv, Polling
  <2> QED BY <2>1, <2>2 DEF TypeInv
<1>9. CASE ScanHashes(p)
  <2> USE <1>9 DEF ScanHashes
  <2>1. faults' \in 0..MaxFaults
    BY DEF MayBeUnreachable, TypeOK
  <2>2. \/ \E f \in 1..MaxLedger : fork' = [fork EXCEPT ![p] = f] /\ Goto(p, "scanRollback")
        \/ fork' = fork /\ Goto(p, "scanned")
        \/ fork' = fork /\ Goto(p, "idle")
    BY DEF Mismatches, RecentHashes, Recorded, Ledgers
  <2>3. UNCHANGED <<network, tables, leaders, cursor, poll, since>> /\ pc[p] = "scan"
    OBVIOUS
  <2> HIDE <1>9 DEF ScanHashes
  <2>4. pc' \in [Instances -> Labels] /\ fork' \in [Instances -> 0..MaxLedger]
    BY <2>2 DEF TypeOK, Labels
  <2>5. TypeOK' BY <2>1, <2>3, <2>4 DEF TypeOK
  <2>6. StartupInv' BY <2>2, <2>3 DEF TypeOK, StartupInv, Polling
  <2> QED BY <2>5, <2>6 DEF TypeInv
<1>10. CASE Rollback(p)
  <2> USE <1>10 DEF Rollback, RollbackTables
  <2>1. TypeOK' BY DEF TypeOK
  <2>2. StartupInv' BY DEF TypeOK, StartupInv, Polling
  <2> QED BY <2>1, <2>2 DEF TypeInv
<1>11. CASE RollbackFails(p)
  <2> USE <1>11 DEF RollbackFails, GoOnWithoutRewind
  <2>1. TypeOK' BY DEF TypeOK
  <2>2. StartupInv' BY DEF TypeOK, StartupInv, Polling
  <2> QED BY <2>1, <2>2 DEF TypeInv
<1>12. CASE AfterScan(p)
  <2> USE <1>12 DEF AfterScan
  <2>1. TypeOK' BY DEF TypeOK
  <2>2. StartupInv' BY DEF TypeOK, StartupInv, Polling
  <2> QED BY <2>1, <2>2 DEF TypeInv
<1>13. CASE SaveProgress(p)
  <2> USE <1>13 DEF SaveProgress
  <2>1. TypeOK' BY DEF TypeOK
  <2>2. StartupInv' BY DEF TypeOK, StartupInv, Polling
  <2> QED BY <2>1, <2>2 DEF TypeInv
<1>14. CASE Crash(p)
  <2> USE <1>14 DEF Crash, NoPage
  <2>1. TypeOK' BY DEF TypeOK, Pages
  <2>2. StartupInv' BY DEF TypeOK, StartupInv, Polling
  <2> QED BY <2>1, <2>2 DEF TypeInv
<1>15. CASE Elected(p)
  <2> USE <1>15 DEF Elected, Lease!BecomeLeader
  <2>1. TypeOK' BY DEF TypeOK
  <2>2. StartupInv' BY DEF TypeOK, StartupInv, Polling
  <2> QED BY <2>1, <2>2 DEF TypeInv
<1>16. CASE LeaseLost(p)
  <2> USE <1>16 DEF LeaseLost, Lease!StopLeading
  <2>1. TypeOK' BY DEF TypeOK
  <2>2. StartupInv' BY DEF TypeOK, StartupInv, Polling
  <2> QED BY <2>1, <2>2 DEF TypeInv
<1>17. CASE RollbackUnanswered(p)
  <2> USE <1>17 DEF RollbackUnanswered, RollbackTables, GoOnWithoutRewind
  <2>1. TypeOK' BY DEF TypeOK
  <2>2. StartupInv' BY DEF TypeOK, StartupInv, Polling
  <2> QED BY <2>1, <2>2 DEF TypeInv
<1> QED
  BY <1>1, <1>2, <1>3, <1>4, <1>5, <1>6, <1>7, <1>8, <1>9, <1>10, <1>11, <1>12, <1>13,
     <1>14, <1>15, <1>16, <1>17 DEF LoopStep

\* The same for every step of the system.
LEMMA NextTypeInv == TypeInv /\ [Next]_vars => TypeInv'
<1>1. TypeInv /\ UNCHANGED vars => TypeInv'
  BY DEF TypeInv, TypeOK, StartupInv, vars, network, tables, poll
<1> QED
  BY <1>1, NetworkTypeInv, InstanceTypeInv DEF Next

\* Cursors stay within one past the chain, the interval counter below its
\* threshold, and rows, hashes and page batches name real ledgers, for any
\* number of instances of index.js:runIngest with or without the lease.
THEOREM TypeCorrect == Spec => []TypeOK
<1>1. TypeInv => TypeOK BY DEF TypeInv
<1> QED BY <1>1, InitTypeInv, NextTypeInv, PTL DEF Spec

-----------------------------------------------------------------------------
(* CursorCoverage. *)

\* One process ingests, without the election, from a node whose latest ledger
\* never goes back.
SoleIngester ==
    /\ \A p, q \in Instances : p = q
    /\ ~LeadershipEnabled /\ ~TipMayRegress

\* Nothing is below the cursor of a fresh database.
LEMMA InitCoverage == Init => CoverageInv
  BY DEF Init, CoverageInv, CursorCoverage, HashInv, PollInv, PageInv, Polling

\* Every ledger of a fetched page is in one of its batches.
LEMMA PageInFlight ==
  ASSUME TypeOK, NEW start \in Nat, NEW l \in Ledgers,
         start <= l, l <= tip, l < start + PageLimit
  PROVE  \E b \in BatchesFrom(start) : <<l, chain[l]>> \in b
<1> DEFINE batch == {<<k, chain[k]>> : k \in {k \in PageFrom(start) :
                        (k - start) \div BatchSize = (l - start) \div BatchSize}}
<1>1. l \in PageFrom(start)
  BY DEF PageFrom
<1>2. batch \in BatchesFrom(start)
  BY <1>1, Zenon DEF BatchesFrom
<1>3. <<l, chain[l]>> \in batch
  BY <1>1, Zenon
<1> HIDE DEF batch
<1> QED BY <1>2, <1>3

\* A page in hand holds every ledger from its start to its end.
LEMMA PageFetched ==
  ASSUME TypeInv, NEW p \in Instances, PageInv(p), CoveredBelow(cursor[p]), FetchPage(p)
  PROVE  /\ UNCHANGED <<tip, rows, hashes, lost, unheard, dbCursor, cursor>>
         /\ pc'[p] = "ingesting" /\ latest'[p] = tip /\ PageInv(p)'
         /\ \A q \in Instances : q # p => pc'[q] = pc[q] /\ page'[q] = page[q] /\ latest'[q] = latest[q]
<1> DEFINE start == IF pc[p] = "idle" THEN cursor[p] ELSE page[p].next
           more  == start + PageLimit - 1 <= tip
<1>1. /\ UNCHANGED <<chain, tip, rows, hashes, lost, unheard, dbCursor, cursor>>
      /\ pc[p] \in {"idle", "nextPage"} /\ pc'[p] = "ingesting" /\ latest'[p] = tip
      /\ page'[p] = [next |-> start + PageLimit, more |-> more, batches |-> BatchesFrom(start)]
      /\ \A q \in Instances : q # p => pc'[q] = pc[q] /\ page'[q] = page[q] /\ latest'[q] = latest[q]
  BY DEF FetchPage, Goto, TypeInv, TypeOK, network, tables
<1>2. \A l : Accounted(l)' <=> Accounted(l)
  BY <1>1 DEF Accounted, Covered
<1>3. TypeOK
  BY DEF TypeInv
<1>4. start \in Nat /\ tip \in Ledgers
  BY <1>3 DEF TypeOK, Pages
<1>5. CoveredBelow(start)
  <2>1. CASE pc[p] = "idle"
    BY <2>1
  <2>2. CASE pc[p] = "nextPage"
    <3>1. /\ page[p].batches = {} /\ page[p].next - 1 <= latest[p]
          /\ \A l \in StartLedger..(page[p].next - 1) : l <= latest[p] => Accounted(l) \/ InFlight(p, l)
      BY <2>2 DEF PageInv
    <3>2. page[p].next \in Nat /\ latest[p] \in Nat /\ start = page[p].next
      BY <1>3, <2>2 DEF TypeOK, Pages
    <3> QED BY <3>1, <3>2 DEF CoveredBelow, InFlight
  <2> QED BY <1>1, <2>1, <2>2
<1> HIDE DEF start
<1>6. ASSUME NEW l \in StartLedger..(start + PageLimit - 1), l <= tip
      PROVE  Accounted(l) \/ InFlight(p, l)'
  <2>1. l \in Ledgers
    BY <1>4, <1>6 DEF Ledgers
  <2>2. CASE l < start
    BY <1>4, <1>5, <2>2 DEF CoveredBelow
  <2>3. CASE start <= l
    <3>1. \E b \in BatchesFrom(start) : <<l, chain[l]>> \in b
      BY <1>3, <1>4, <1>6, <2>1, <2>3, PageInFlight
    <3>2. chain[l] \in Forks /\ page'[p].batches = BatchesFrom(start)
      BY <1>1, <1>3, <2>1 DEF TypeOK
    <3> QED BY <3>1, <3>2 DEF InFlight
  <2> QED BY <1>4, <2>1, <2>2, <2>3 DEF Ledgers
<1>7. page'[p].next = start + PageLimit /\ pc'[p] = "ingesting" /\ latest'[p] = tip
  BY <1>1
<1>8. page'[p].more <=> page'[p].next - 1 <= latest'[p]
  <2>1. page'[p].more <=> start + PageLimit - 1 <= tip
    <3> HIDE DEF more
    <3>1. page'[p].more = more
      BY <1>1
    <3> QED BY <3>1 DEF more
  <2> QED BY <1>4, <1>7, <2>1 DEF Ledgers
<1>9. \A l \in StartLedger..(page'[p].next - 1) : l <= latest'[p] => Accounted(l)' \/ InFlight(p, l)'
  BY <1>2, <1>4, <1>6, <1>7
<1>10. PageInv(p)'
  BY <1>7, <1>8, <1>9 DEF PageInv
<1> HIDE DEF more
<1> QED BY <1>1, <1>10

\* A batch leaves the page for the events table, or for the log of failures.
LEMMA BatchTaken ==
  ASSUME TypeInv, NEW p \in Instances, PageInv(p), ProcessBatch(p)
  PROVE  /\ UNCHANGED <<tip, hashes, unheard, dbCursor, pc, cursor, latest>> /\ pc[p] = "ingesting"
         /\ \A q \in Instances : q # p => page'[q] = page[q]
         /\ \A l : Accounted(l) => Accounted(l)'
         /\ PageInv(p)'
<1>0. TypeOK /\ page[p] \in Pages
  BY DEF TypeInv, TypeOK
<1>1. PICK b \in page[p].batches :
         /\ page' = [page EXCEPT ![p].batches = @ \ {b}]
         /\ rows' \cup lost' = (rows \cup lost) \cup b /\ UNCHANGED unheard
  BY DEF ProcessBatch
<1>2. /\ UNCHANGED <<tip, hashes, unheard, dbCursor, pc, cursor, latest>> /\ pc[p] = "ingesting"
      /\ page'[p].next = page[p].next /\ page'[p].more = page[p].more
      /\ page'[p].batches = page[p].batches \ {b}
      /\ \A q \in Instances : q # p => page'[q] = page[q]
  BY <1>0, <1>1 DEF ProcessBatch, network, TypeOK, Pages
<1>3. \A l : Accounted(l) => Accounted(l)'
  BY <1>1 DEF Accounted, Covered
<1>4. ASSUME NEW l, InFlight(p, l) PROVE Accounted(l)' \/ InFlight(p, l)'
  <2>1. PICK c \in page[p].batches, f \in Forks : <<l, f>> \in c
    BY <1>4 DEF InFlight
  <2>2. CASE c = b
    BY <1>1, <2>1, <2>2 DEF Accounted, Covered
  <2>3. CASE c # b
    BY <1>2, <2>1, <2>3 DEF InFlight
  <2> QED BY <2>2, <2>3
<1>5. PageInv(p)'
  BY <1>2, <1>3, <1>4 DEF PageInv
<1> QED BY <1>2, <1>3, <1>5

\* A drained last page leaves everything up to the latest ledger covered.
LEMMA PageFinished ==
  ASSUME TypeInv, NEW p \in Instances, PageInv(p), FinishPage(p)
  PROVE  /\ UNCHANGED <<tip, rows, lost, unheard, dbCursor, cursor, page, latest>>
         /\ pc[p] = "ingesting" /\ pc'[p] \in {"nextPage", "polled"}
         /\ pc'[p] = "polled" => CoveredBelow(latest[p] + 1)
         /\ \A l \in Ledgers : hashes'[l] # NoHash => hashes[l] # NoHash \/ l = latest[p]
         /\ \A q \in Instances : q # p => pc'[q] = pc[q]
         /\ PageInv(p)'
<1>0. TypeOK /\ page[p] \in Pages /\ latest[p] \in 0..MaxLedger
  BY DEF TypeInv, TypeOK
<1>1. /\ UNCHANGED <<tip, rows, lost, unheard, dbCursor, cursor, page, latest>>
      /\ pc[p] = "ingesting" /\ page[p].batches = {}
      /\ pc'[p] = IF page[p].more THEN "nextPage" ELSE "polled"
      /\ \A l \in Ledgers : hashes'[l] # NoHash => hashes[l] # NoHash \/ l = latest[p]
      /\ \A q \in Instances : q # p => pc'[q] = pc[q]
  BY <1>0 DEF FinishPage, Goto, network, poll, TypeOK
<1>2. \A l : Accounted(l)' <=> Accounted(l)
  BY <1>1 DEF Accounted, Covered
<1>3. /\ \A l \in StartLedger..(page[p].next - 1) : l <= latest[p] => Accounted(l)
      /\ page[p].more <=> page[p].next - 1 <= latest[p]
  BY <1>1 DEF PageInv, InFlight
<1>4. ~page[p].more => CoveredBelow(latest[p] + 1)
  BY <1>0, <1>3 DEF Pages, CoveredBelow
<1>5. PageInv(p)'
  BY <1>1, <1>2, <1>3 DEF PageInv
<1> QED BY <1>1, <1>4, <1>5

\* The network's own steps leave tables and loop alone and the tip does not regress.
LEMMA NetworkCoverage ==
  ASSUME TypeInv, CoverageInv, SoleIngester, CloseLedger \/ Reorganise
  PROVE  CoverageInv'
<1>1. tip' \in Nat /\ tip \in Nat /\ tip' >= tip
  BY DEF CloseLedger, Reorganise, SoleIngester, TypeInv, TypeOK, Ledgers
<1>2. UNCHANGED <<rows, hashes, lost, unheard, dbCursor, pc, cursor, page, latest, fork>>
  BY DEF CloseLedger, Reorganise, tables, poll
<1>3. CursorCoverage'
  BY <1>2 DEF CoverageInv, CursorCoverage, Accounted, Covered
<1>5. ASSUME NEW p \in Instances PROVE PollInv(p)'
  <2>1. PollInv(p) /\ latest \in [Instances -> 0..MaxLedger]
    BY DEF CoverageInv, TypeInv, TypeOK
  <2>2. pc[p] \in Polling => latest[p] <= tip'
    BY <1>1, <2>1 DEF PollInv, PageInv
  <2> QED
    BY <1>2, <2>1, <2>2 DEF PollInv, PageInv, CoveredBelow, Accounted, Covered, InFlight
<1>4. HashInv'
  BY <1>1, <1>2 DEF CoverageInv, HashInv, Ledgers
<1> QED
  BY <1>3, <1>4, <1>5 DEF CoverageInv

\* Steps that write no table and leave the response in hand as it is.
LEMMA LocalCoverage ==
  ASSUME TypeInv, TypeInv', CoverageInv, SoleIngester, NEW p \in Instances,
         \/ Boot(p) \/ Interrupted(p) \/ CheckFastPath(p) \/ CountLedgers(p) \/ ScanHashes(p)
         \/ RollbackFails(p) \/ AfterScan(p) \/ Crash(p) \/ Elected(p) \/ LeaseLost(p)
  PROVE  CoverageInv'
<1> USE DEF Goto
<1>1. UNCHANGED <<tip, rows, hashes, lost, unheard, dbCursor>>
  BY DEF Boot, Interrupted, CheckFastPath, CountLedgers, ScanHashes, RollbackFails, AfterScan,
         Crash, Elected, LeaseLost, network, tables
<1>2. CursorCoverage' /\ HashInv' /\ \A l : Accounted(l)' <=> Accounted(l)
  BY <1>1 DEF CoverageInv, CursorCoverage, HashInv, Accounted, Covered
<1>3. \A q \in Instances : q = p
  BY DEF SoleIngester
<1>4. PollInv(p) /\ TypeOK /\ TypeOK' /\ StartupInv /\ IsLeader(p)
  BY DEF CoverageInv, TypeInv, SoleIngester, IsLeader
<1>5. SUFFICES PollInv(p)'
  BY <1>2, <1>3 DEF CoverageInv
<1>6. cursor \in [Instances -> 0..(MaxLedger + 1)] /\ latest \in [Instances -> 0..MaxLedger]
      /\ fork \in [Instances -> 0..MaxLedger] /\ pc \in [Instances -> Labels]
  BY <1>4 DEF TypeOK
<1>7. CASE Boot(p)
  <2>1. cursor'[p] = resolveStartupCursor /\ pc'[p] = "booting"
    BY <1>6, <1>7 DEF Boot
  <2>2. CoveredBelow(resolveStartupCursor)
    <3>1. CASE dbCursor > 0
      BY <3>1 DEF resolveStartupCursor, CoverageInv, CursorCoverage, CoveredBelow
    <3>2. CASE ~(dbCursor > 0)
      <4>1. resolveStartupCursor = StartLedger
        BY <1>4, <3>2 DEF resolveStartupCursor, StartupInv, TypeOK
      <4> QED BY <4>1 DEF CoveredBelow
    <3> QED BY <3>1, <3>2
  <2> QED BY <1>2, <2>1, <2>2 DEF PollInv, PageInv, CoveredBelow, Polling
<1>8. CASE Interrupted(p)
  <2>1. pc'[p] = "idle" /\ UNCHANGED cursor /\ pc[p] # "down" /\ pc[p] # "rolledBack"
    BY <1>4, <1>6, <1>8 DEF Interrupted
  <2> QED BY <1>2, <1>4, <2>1 DEF PollInv, PageInv, CoveredBelow, Polling
<1>9. CASE CheckFastPath(p)
  <2>1. \/ pc'[p] = "fastRollback" /\ fork'[p] <= latest[p]
        \/ pc'[p] = "checked"
    BY <1>6, <1>9 DEF CheckFastPath, Earliest
  <2>2. UNCHANGED <<cursor, latest>> /\ pc[p] = "polled"
    BY <1>9 DEF CheckFastPath, poll
  <2> QED BY <1>1, <1>2, <1>4, <2>1, <2>2 DEF PollInv, PageInv, CoveredBelow, Polling
<1>10. CASE CountLedgers(p)
  <2>1. pc'[p] \in {"scan", "save"} /\ UNCHANGED <<cursor, latest>> /\ pc[p] = "checked"
    BY <1>6, <1>10 DEF CountLedgers, poll
  <2> QED BY <1>1, <1>2, <1>4, <2>1 DEF PollInv, PageInv, CoveredBelow, Polling
<1>11. CASE ScanHashes(p)
  <2>1. UNCHANGED <<cursor, latest>> /\ pc[p] = "scan"
    BY <1>11 DEF ScanHashes, poll
  <2>2. \A l \in Ledgers : hashes[l] # NoHash => l <= latest[p]
    BY <1>4, <2>1 DEF PollInv, PageInv, Polling
  <2>3. \A u : \A f \in Mismatches(u) : f <= latest[p]
    BY <2>2 DEF Mismatches, RecentHashes, Recorded
  <2>4. \/ \E f : f <= latest[p] /\ fork' = [fork EXCEPT ![p] = f] /\ pc'[p] = "scanRollback"
        \/ pc'[p] \in {"scanned", "idle"}
    BY <1>6, <1>11, <2>3 DEF ScanHashes
  <2>5. pc'[p] = "scanRollback" => fork'[p] <= latest[p]
    BY <1>6, <2>4
  <2> QED BY <1>1, <1>2, <1>4, <2>1, <2>4, <2>5 DEF PollInv, PageInv, CoveredBelow, Polling
<1>12. CASE RollbackFails(p)
  <2>1. /\ \/ pc[p] = "fastRollback" /\ pc'[p] = "checked"
           \/ pc[p] = "scanRollback" /\ pc'[p] = "idle"
        /\ UNCHANGED <<cursor, latest>>
    BY <1>6, <1>12 DEF RollbackFails, GoOnWithoutRewind, poll
  <2> QED BY <1>1, <1>2, <1>4, <2>1 DEF PollInv, PageInv, CoveredBelow, Polling
<1>13. CASE AfterScan(p)
  <2>1. /\ UNCHANGED latest
        /\ \/ pc[p] = "scanned" /\ pc'[p] = "save" /\ UNCHANGED cursor
           \/ pc[p] = "rolledBack" /\ pc'[p] = "idle" /\ cursor'[p] = fork[p]
    BY <1>6, <1>13 DEF AfterScan, poll
  <2> QED BY <1>1, <1>2, <1>4, <2>1 DEF PollInv, PageInv, CoveredBelow, Polling
<1>14. CASE Crash(p)
  <2>1. pc'[p] = "down"
    BY <1>6, <1>14 DEF Crash
  <2> QED BY <2>1 DEF PollInv, PageInv, Polling
<1>15. CASE Elected(p) \/ LeaseLost(p)
  BY <1>15 DEF Elected, LeaseLost, SoleIngester
<1> QED
  BY <1>7, <1>8, <1>9, <1>10, <1>11, <1>12, <1>13, <1>14, <1>15

\* runIngest saves a cursor below which everything is covered.
LEMMA StartupCoverage ==
  ASSUME TypeInv, CoverageInv, SoleIngester, NEW p \in Instances, SaveStartupCursor(p)
  PROVE  CoverageInv'
<1>1. UNCHANGED <<tip, rows, hashes, lost, unheard, cursor>> /\ dbCursor' = cursor[p]
      /\ pc[p] = "booting" /\ pc'[p] = "idle"
  BY DEF SaveStartupCursor, Goto, TypeInv, TypeOK, network
<1>2. HashInv' /\ (\A l : Accounted(l)' <=> Accounted(l)) /\ \A q \in Instances : q = p
  BY <1>1 DEF CoverageInv, HashInv, Accounted, Covered, SoleIngester
<1>3. CoveredBelow(cursor[p])
  BY <1>1 DEF CoverageInv, PollInv
<1>4. CursorCoverage' /\ PollInv(p)'
  BY <1>1, <1>2, <1>3 DEF CursorCoverage, PollInv, PageInv, CoveredBelow, Polling
<1> QED BY <1>2, <1>4 DEF CoverageInv

\* Fetching a page.
LEMMA FetchCoverage ==
  ASSUME TypeInv, CoverageInv, SoleIngester, NEW p \in Instances, FetchPage(p)
  PROVE  CoverageInv'
<1>a. PollInv(p) /\ HashInv /\ pc[p] \in {"idle", "nextPage"}
  BY DEF CoverageInv, FetchPage
<1>1. PageInv(p) /\ CoveredBelow(cursor[p]) /\ HashInv /\ tip \in Nat
  <2>1. PageInv(p) /\ CoveredBelow(cursor[p])
    BY <1>a DEF PollInv
  <2>2. tip \in Nat
    BY DEF TypeInv, TypeOK, Ledgers
  <2> QED BY <1>a, <2>1, <2>2
<1>2. /\ UNCHANGED <<tip, rows, hashes, lost, unheard, dbCursor, cursor>>
      /\ pc'[p] = "ingesting" /\ latest'[p] = tip /\ PageInv(p)'
  BY <1>1, PageFetched
<1>3. HashInv' /\ CursorCoverage' /\ (\A l : Accounted(l)' <=> Accounted(l)) /\ \A q \in Instances : q = p
  BY <1>2 DEF CoverageInv, HashInv, CursorCoverage, Accounted, Covered, SoleIngester
<1>4. PollInv(p)'
  BY <1>1, <1>2, <1>3 DEF PollInv, HashInv, CoveredBelow, Polling
<1> QED BY <1>3, <1>4 DEF CoverageInv

\* Taking a batch.
LEMMA BatchCoverage ==
  ASSUME TypeInv, CoverageInv, SoleIngester, NEW p \in Instances, ProcessBatch(p)
  PROVE  CoverageInv'
<1>1. PollInv(p) /\ PageInv(p)
  BY DEF CoverageInv, PollInv
<1>2. /\ UNCHANGED <<tip, hashes, dbCursor, pc, cursor, latest>> /\ pc[p] = "ingesting"
      /\ \A l : Accounted(l) => Accounted(l)'
      /\ PageInv(p)'
  BY <1>1, BatchTaken
<1>3. HashInv' /\ CursorCoverage' /\ \A q \in Instances : q = p
  BY <1>2 DEF CoverageInv, HashInv, CursorCoverage, SoleIngester
<1>4. PollInv(p)'
  BY <1>1, <1>2 DEF PollInv, CoveredBelow, Polling
<1> QED BY <1>3, <1>4 DEF CoverageInv

\* Finishing a page.
LEMMA FinishCoverage ==
  ASSUME TypeInv, CoverageInv, SoleIngester, NEW p \in Instances, FinishPage(p)
  PROVE  CoverageInv'
<1>0. PollInv(p) /\ PageInv(p) /\ HashInv /\ latest[p] \in 0..MaxLedger
  BY DEF TypeInv, TypeOK, CoverageInv, PollInv
<1>1. /\ UNCHANGED <<tip, rows, lost, unheard, dbCursor, cursor, page, latest>>
      /\ pc[p] = "ingesting" /\ pc'[p] \in {"nextPage", "polled"}
      /\ pc'[p] = "polled" => CoveredBelow(latest[p] + 1)
      /\ \A l \in Ledgers : hashes'[l] # NoHash => hashes[l] # NoHash \/ l = latest[p]
      /\ PageInv(p)'
  BY <1>0, PageFinished
<1>2. (\A l : Accounted(l)' <=> Accounted(l)) /\ \A q \in Instances : q = p
  BY <1>1 DEF Accounted, Covered, SoleIngester
<1>3. CursorCoverage'
  BY <1>1, <1>2 DEF CoverageInv, CursorCoverage
<1>4. latest[p] <= tip /\ CoveredBelow(cursor[p]) /\ \A l \in Ledgers : hashes[l] # NoHash => l <= latest[p]
  BY <1>0, <1>1 DEF PollInv, Polling
<1>5. HashInv' /\ \A l \in Ledgers : hashes'[l] # NoHash => l <= latest[p]
  BY <1>0, <1>1, <1>4 DEF HashInv, Ledgers
<1>6. PollInv(p)'
  BY <1>1, <1>2, <1>4, <1>5 DEF PollInv, CoveredBelow, Polling
<1> QED BY <1>2, <1>3, <1>5, <1>6 DEF CoverageInv

\* What a rollback keeps lies below the cursor it sets.
LEMMA RollbackCoverage ==
  ASSUME TypeInv, CoverageInv, SoleIngester, NEW p \in Instances, Rollback(p)
  PROVE  CoverageInv'
<1>0. TypeOK /\ PollInv(p) /\ HashInv /\ fork[p] \in Nat /\ latest[p] \in Nat
  BY DEF TypeInv, TypeOK, CoverageInv
<1>1. /\ UNCHANGED <<tip, page, latest, fork>> /\ dbCursor' = fork[p]
      /\ \/ pc[p] = "fastRollback" /\ pc'[p] = "idle" /\ cursor'[p] = fork[p]
         \/ pc[p] = "scanRollback" /\ pc'[p] = "rolledBack" /\ UNCHANGED cursor
  BY <1>0 DEF Rollback, RollbackTables, Goto, network, poll, TypeOK
<1>2. /\ rows' = {r \in rows : r[1] < fork[p]} /\ lost' = {r \in lost : r[1] < fork[p]}
      /\ unheard' = {l \in unheard : l < fork[p]}
  BY DEF Rollback, RollbackTables
<1>3. \A l : l < fork[p] /\ Accounted(l) => Accounted(l)'
  BY <1>2 DEF Accounted, Covered
<1>4. CoveredBelow(latest[p] + 1) /\ fork[p] <= latest[p]
  BY <1>0, <1>1 DEF PollInv, PageInv, Polling
<1>5. \A l \in StartLedger..(fork[p] - 1) : Accounted(l)'
  BY <1>0, <1>3, <1>4 DEF CoveredBelow
<1>6. CursorCoverage' /\ PollInv(p)'
  BY <1>1, <1>5 DEF CursorCoverage, PollInv, PageInv, CoveredBelow, Polling
<1>7. \A l \in Ledgers : hashes'[l] # NoHash => hashes[l] # NoHash
  BY DEF Rollback, RollbackTables
<1>8. HashInv'
  BY <1>0, <1>1, <1>7 DEF HashInv
<1> QED BY <1>6, <1>8 DEF CoverageInv, SoleIngester

\* What a rollback purges without the loop's knowing is accounted for as unheard.
LEMMA UnansweredCoverage ==
  ASSUME TypeInv, CoverageInv, SoleIngester, NEW p \in Instances, RollbackUnanswered(p)
  PROVE  CoverageInv'
<1>0. TypeOK /\ PollInv(p) /\ HashInv /\ fork[p] \in Nat /\ latest[p] \in Nat
  BY DEF TypeInv, TypeOK, CoverageInv
<1>1. /\ UNCHANGED <<tip, page, latest, cursor>> /\ dbCursor' = fork[p]
      /\ \/ pc[p] = "fastRollback" /\ pc'[p] = "checked"
         \/ pc[p] = "scanRollback" /\ pc'[p] = "idle"
  BY <1>0 DEF RollbackUnanswered, RollbackTables, GoOnWithoutRewind, Goto, network, poll, TypeOK
<1>2. /\ rows' = {r \in rows : r[1] < fork[p]} /\ lost' = {r \in lost : r[1] < fork[p]}
      /\ unheard' = unheard \cup {r[1] : r \in {s \in rows \cup lost : s[1] >= fork[p]}}
  BY DEF RollbackUnanswered, RollbackTables
<1>3. ASSUME NEW l \in Ledgers, Accounted(l) PROVE Accounted(l)'
  <2>1. CASE l \in unheard
    BY <1>2, <2>1 DEF Accounted
  <2>2. CASE Covered(l)
    <3>1. PICK f \in Forks : <<l, f>> \in rows \cup lost
      BY <2>2 DEF Covered
    <3>2. CASE l < fork[p]
      BY <1>2, <3>1, <3>2 DEF Accounted, Covered
    <3>3. CASE l >= fork[p]
      BY <1>2, <3>1, <3>3 DEF Accounted
    <3> QED BY <1>0, <3>2, <3>3 DEF Ledgers
  <2> QED BY <1>3, <2>1, <2>2 DEF Accounted
<1>4. CoveredBelow(latest[p] + 1) /\ CoveredBelow(cursor[p]) /\ fork[p] <= latest[p]
  BY <1>0, <1>1 DEF PollInv, PageInv, Polling
<1>5. latest[p] <= MaxLedger /\ cursor[p] \in 0..(MaxLedger + 1)
  BY <1>0 DEF TypeOK
<1>6. /\ \A l \in StartLedger..latest[p] : Accounted(l)'
      /\ \A l \in StartLedger..(cursor[p] - 1) : Accounted(l)'
  BY <1>0, <1>3, <1>4, <1>5 DEF CoveredBelow, Ledgers
<1>7. \A l \in Ledgers : hashes'[l] # NoHash => hashes[l] # NoHash
  BY DEF RollbackUnanswered, RollbackTables
<1>8. CursorCoverage' /\ HashInv'
  BY <1>0, <1>1, <1>4, <1>6, <1>7 DEF CursorCoverage, HashInv
<1>9. PollInv(p)'
  BY <1>0, <1>1, <1>6, <1>7 DEF PollInv, PageInv, CoveredBelow, Polling
<1> QED BY <1>8, <1>9 DEF CoverageInv, SoleIngester

\* The cursor is advanced only over what the finished poll covered.
LEMMA SaveCoverage ==
  ASSUME TypeInv, CoverageInv, SoleIngester, NEW p \in Instances, SaveProgress(p)
  PROVE  CoverageInv'
<1>1. /\ UNCHANGED <<tip, rows, hashes, lost, unheard>> /\ pc[p] = "save" /\ pc'[p] = "idle"
      /\ cursor'[p] = latest[p] + 1 /\ dbCursor' \in {dbCursor, latest[p] + 1}
  BY DEF SaveProgress, Goto, TypeInv, TypeOK, network
<1>2. HashInv' /\ (\A l : Accounted(l)' <=> Accounted(l)) /\ \A q \in Instances : q = p
  BY <1>1 DEF CoverageInv, HashInv, Accounted, Covered, SoleIngester
<1>3. CoveredBelow(latest[p] + 1)
  BY <1>1 DEF CoverageInv, PollInv, PageInv, Polling
<1>4. CursorCoverage'
  BY <1>1, <1>2, <1>3 DEF CoverageInv, CursorCoverage, CoveredBelow
<1>5. PollInv(p)'
  BY <1>1, <1>2, <1>3 DEF PollInv, PageInv, CoveredBelow, Polling
<1> QED BY <1>2, <1>4, <1>5 DEF CoverageInv

\* For a sole ingester the durable cursor never passes a ledger that did not go
\* through the pipeline, across any crashes, failed writes and reorganisations, but
\* for the ledgers purged by a rollback whose COMMIT took effect unanswered: those
\* are in unheard, and while it is empty CursorCoverage is PurgedIsReindexed.
THEOREM Coverage == SoleIngester /\ Spec => []CursorCoverage
<1>1. ASSUME SoleIngester, TypeInv, CoverageInv, [Next]_vars PROVE TypeInv' /\ CoverageInv'
  <2>1. TypeInv'
    BY <1>1, NextTypeInv
  <2>2. CASE UNCHANGED vars
    <3>1. UNCHANGED <<tip, rows, lost, unheard, hashes, dbCursor, pc, cursor, page, latest, fork>>
      BY <2>2 DEF vars, network, tables, poll
    <3>2. CursorCoverage' /\ HashInv'
      BY <1>1, <3>1 DEF CoverageInv, CursorCoverage, HashInv, Accounted, Covered
    <3>3. \A p \in Instances : PollInv(p)'
      BY <1>1, <3>1 DEF CoverageInv, PollInv, PageInv, CoveredBelow, Accounted, Covered, InFlight
    <3> QED BY <2>1, <3>2, <3>3 DEF CoverageInv
  <2>3. CASE Next
    <3>1. CASE CloseLedger \/ Reorganise
      BY <1>1, <2>1, <3>1, NetworkCoverage
    <3>2. CASE \E p \in Instances : LoopStep(p) \/ Crash(p) \/ Elected(p) \/ LeaseLost(p)
      <4>1. PICK p \in Instances : LoopStep(p) \/ Crash(p) \/ Elected(p) \/ LeaseLost(p)
        BY <3>2
      <4> QED
        BY <1>1, <2>1, <4>1, LocalCoverage, StartupCoverage, FetchCoverage, BatchCoverage,
           FinishCoverage, RollbackCoverage, UnansweredCoverage, SaveCoverage DEF LoopStep
    <3> QED BY <2>3, <3>1, <3>2 DEF Next
  <2> QED BY <1>1, <2>1, <2>2, <2>3
<1>2. CoverageInv => CursorCoverage
  BY DEF CoverageInv
<1> QED
  <2>1. SUFFICES ASSUME SoleIngester PROVE Spec => []CursorCoverage
    OBVIOUS
  <2> QED BY <1>1, <1>2, <2>1, InitTypeInv, InitCoverage, PTL DEF Spec

-----------------------------------------------------------------------------
(* CursorCoverage for any number of instances while the chain does not fork. *)

\* The chain never forks: no ledger is ever replaced by another.
QuietChain == MaxForks = 1

Rewinding == {"fastRollback", "scanRollback", "rolledBack"}

\* What the poll in progress has ingested so far, whoever else ingests beside it.
PolledInv(p) ==
    /\ pc[p] # "down" => CoveredBelow(cursor[p])
    /\ PageInv(p)
    /\ pc[p] \in Polling \ {"ingesting", "nextPage"} => CoveredBelow(latest[p] + 1)

QuietInv == CursorCoverage /\ unheard = {} /\ \A p \in Instances : pc[p] \notin Rewinding /\ PolledInv(p)

\* Without forks no hash on record is contradicted.
LEMMA NoMismatch ==
  ASSUME TypeInv, QuietChain
  PROVE  /\ \A unreachable : Mismatches(unreachable) = {}
         /\ \A p \in Instances : pc[p] = "polled" /\ latest[p] \in RecentHashes => hashes[latest[p]] = latestHash[p]
         /\ ~Reorganise
<1>1. Forks = {1}
  BY DEF QuietChain, Forks
<1>2. \A l \in Ledgers : chain[l] = 1 /\ (hashes[l] # NoHash => hashes[l] = 1)
  BY <1>1 DEF TypeInv, TypeOK
<1>3. \A unreachable : Mismatches(unreachable) = {}
  BY <1>2 DEF Mismatches, RecentHashes, Recorded
<1>4. ASSUME NEW p \in Instances, pc[p] = "polled", latest[p] \in RecentHashes
      PROVE  hashes[latest[p]] = latestHash[p]
  <2>1. latestHash[p] = 1
    BY <1>1, <1>4 DEF TypeInv, TypeOK, StartupInv, Polling
  <2>2. latest[p] \in Ledgers /\ hashes[latest[p]] # NoHash
    BY <1>4 DEF RecentHashes, Recorded
  <2> QED BY <1>2, <2>1, <2>2
<1>5. ~Reorganise
  BY <1>1 DEF Reorganise, QuietChain, TypeInv, TypeOK
<1> QED BY <1>3, <1>4, <1>5

\* Ledgers stay covered, so what one instance does leaves the others' polls as they were.
LEMMA OthersQuiet ==
  ASSUME QuietInv, NEW p \in Instances, UNCHANGED unheard,
         \A l : Accounted(l) => Accounted(l)',
         \A q \in Instances : q # p => /\ pc'[q] = pc[q] /\ cursor'[q] = cursor[q]
                                       /\ page'[q] = page[q] /\ latest'[q] = latest[q],
         CursorCoverage', pc'[p] \notin Rewinding, PolledInv(p)'
  PROVE  QuietInv'
<1>1. ASSUME NEW q \in Instances, q # p PROVE pc'[q] \notin Rewinding /\ PolledInv(q)'
  <2>1. pc[q] \notin Rewinding /\ PolledInv(q)
    BY DEF QuietInv
  <2> QED BY <1>1, <2>1 DEF PolledInv, PageInv, CoveredBelow, InFlight
<1> QED BY <1>1 DEF QuietInv

LEMMA InitQuiet == Init => QuietInv
  BY DEF Init, QuietInv, CursorCoverage, PolledInv, PageInv, Polling, Rewinding

\* Steps that write none of the variables the invariant is about.
LEMMA UntouchedQuiet ==
  ASSUME QuietInv, UNCHANGED <<rows, lost, unheard, dbCursor, pc, cursor, page, latest>>
  PROVE  QuietInv'
<1>1. \A l : Accounted(l)' <=> Accounted(l)
  BY DEF Accounted, Covered
<1>2. CursorCoverage'
  BY <1>1 DEF QuietInv, CursorCoverage
<1>3. ASSUME NEW p \in Instances PROVE pc'[p] \notin Rewinding /\ PolledInv(p)'
  BY <1>1 DEF QuietInv, PolledInv, PageInv, CoveredBelow, InFlight
<1> QED BY <1>2, <1>3 DEF QuietInv

\* Steps that write no table.
LEMMA LocalQuiet ==
  ASSUME TypeInv, QuietInv, QuietChain, NEW p \in Instances,
         \/ Boot(p) \/ Interrupted(p) \/ CheckFastPath(p) \/ CountLedgers(p) \/ ScanHashes(p)
         \/ RollbackFails(p) \/ AfterScan(p) \/ Crash(p) \/ Elected(p) \/ LeaseLost(p)
  PROVE  QuietInv'
<1> USE DEF Goto
<1>0. TypeOK /\ StartupInv /\ PolledInv(p) /\ pc[p] \notin Rewinding /\ CursorCoverage
  BY DEF TypeInv, QuietInv
<1>1. UNCHANGED <<rows, lost, unheard, dbCursor>>
  BY DEF Boot, Interrupted, CheckFastPath, CountLedgers, ScanHashes, RollbackFails, AfterScan,
         Crash, Elected, LeaseLost, network, tables
<1>2. \A l : Accounted(l)' <=> Accounted(l)
  BY <1>1 DEF Accounted, Covered
<1>3. CursorCoverage'
  BY <1>0, <1>1, <1>2 DEF CursorCoverage
<1>4. \A q \in Instances : q # p => /\ pc'[q] = pc[q] /\ cursor'[q] = cursor[q]
                                    /\ page'[q] = page[q] /\ latest'[q] = latest[q]
  BY <1>0 DEF Boot, Interrupted, CheckFastPath, CountLedgers, ScanHashes, RollbackFails, GoOnWithoutRewind,
         AfterScan, Crash, Elected, LeaseLost, poll, TypeOK
<1>5. pc \in [Instances -> Labels] /\ cursor \in [Instances -> 0..(MaxLedger + 1)]
  BY <1>0 DEF TypeOK
<1>6. SUFFICES pc'[p] \notin Rewinding /\ PolledInv(p)'
  BY <1>1, <1>2, <1>3, <1>4, OthersQuiet
<1>7. CASE Boot(p)
  <2>1. cursor'[p] = resolveStartupCursor /\ pc'[p] = "booting"
    BY <1>5, <1>7 DEF Boot
  <2>2. CoveredBelow(resolveStartupCursor)
    <3>1. CASE dbCursor > 0
      BY <1>0, <3>1 DEF resolveStartupCursor, CursorCoverage, CoveredBelow
    <3>2. CASE ~(dbCursor > 0)
      <4>1. resolveStartupCursor = StartLedger
        BY <1>0, <3>2 DEF resolveStartupCursor, StartupInv, TypeOK
      <4> QED BY <4>1 DEF CoveredBelow
    <3> QED BY <3>1, <3>2
  <2> QED BY <1>2, <2>1, <2>2 DEF PolledInv, PageInv, CoveredBelow, Polling, Rewinding
<1>8. CASE Interrupted(p)
  <2>1. pc'[p] = "idle" /\ UNCHANGED cursor /\ pc[p] # "down"
    BY <1>5, <1>8 DEF Interrupted
  <2> QED BY <1>0, <1>2, <2>1 DEF PolledInv, PageInv, CoveredBelow, Polling, Rewinding
<1>9. CASE CheckFastPath(p)
  <2>1. pc[p] = "polled" /\ UNCHANGED <<cursor, latest>>
    BY <1>9 DEF CheckFastPath, poll
  <2>2. ~(latest[p] \in RecentHashes /\ hashes[latest[p]] # latestHash[p])
    BY <2>1, NoMismatch
  <2>3. pc'[p] = "checked"
    BY <1>5, <1>9, <2>2 DEF CheckFastPath
  <2> QED BY <1>0, <1>2, <2>1, <2>3 DEF PolledInv, PageInv, CoveredBelow, Polling, Rewinding
<1>10. CASE CountLedgers(p)
  <2>1. pc'[p] \in {"scan", "save"} /\ UNCHANGED <<cursor, latest>> /\ pc[p] = "checked"
    BY <1>5, <1>10 DEF CountLedgers, poll
  <2> QED BY <1>0, <1>2, <2>1 DEF PolledInv, PageInv, CoveredBelow, Polling, Rewinding
<1>11. CASE ScanHashes(p)
  <2>1. pc[p] = "scan" /\ UNCHANGED <<cursor, latest>>
    BY <1>11 DEF ScanHashes, poll
  <2>2. pc'[p] \in {"scanned", "idle"}
    BY <1>5, <1>11, NoMismatch DEF ScanHashes
  <2> QED BY <1>0, <1>2, <2>1, <2>2 DEF PolledInv, PageInv, CoveredBelow, Polling, Rewinding
<1>12. CASE RollbackFails(p)
  BY <1>0, <1>12 DEF RollbackFails, GoOnWithoutRewind, Rewinding
<1>13. CASE AfterScan(p)
  <2>1. pc[p] = "scanned" /\ pc'[p] = "save" /\ UNCHANGED <<cursor, latest>>
    BY <1>0, <1>5, <1>13 DEF AfterScan, poll, Rewinding
  <2> QED BY <1>0, <1>2, <2>1 DEF PolledInv, PageInv, CoveredBelow, Polling, Rewinding
<1>14. CASE Crash(p)
  <2>1. pc'[p] = "down"
    BY <1>5, <1>14 DEF Crash
  <2> QED BY <2>1 DEF PolledInv, PageInv, Polling, Rewinding
<1>15. CASE Elected(p) \/ LeaseLost(p)
  <2>1. UNCHANGED <<pc, cursor, page, latest>>
    BY <1>15 DEF Elected, LeaseLost, poll
  <2> QED BY <1>0, <1>2, <2>1 DEF PolledInv, PageInv, CoveredBelow, InFlight
<1> QED BY <1>7, <1>8, <1>9, <1>10, <1>11, <1>12, <1>13, <1>14, <1>15

\* The two writes of the durable cursor.
LEMMA CursorQuiet ==
  ASSUME TypeInv, QuietInv, NEW p \in Instances, SaveStartupCursor(p) \/ SaveProgress(p)
  PROVE  QuietInv'
<1>0. TypeOK /\ PolledInv(p)
  BY DEF TypeInv, QuietInv
<1>1. UNCHANGED <<rows, lost, unheard, page, latest>> /\ pc' = [pc EXCEPT ![p] = "idle"]
  BY DEF SaveStartupCursor, SaveProgress, Goto, poll
<1>2. \A l : Accounted(l)' <=> Accounted(l)
  BY <1>1 DEF Accounted, Covered
<1>3. CoveredBelow(cursor'[p]) /\ dbCursor' \in {dbCursor, cursor'[p]}
      /\ \A q \in Instances : q # p => cursor'[q] = cursor[q]
  <2>1. CASE SaveStartupCursor(p)
    BY <1>0, <2>1 DEF SaveStartupCursor, PolledInv, TypeOK
  <2>2. CASE SaveProgress(p)
    <3>1. cursor'[p] = latest[p] + 1 /\ pc[p] = "save" /\ dbCursor' \in {dbCursor, latest[p] + 1}
          /\ \A q \in Instances : q # p => cursor'[q] = cursor[q]
      BY <1>0, <2>2 DEF SaveProgress, TypeOK
    <3> QED BY <1>0, <3>1 DEF PolledInv, PageInv, Polling
  <2> QED BY <2>1, <2>2
<1>4. CursorCoverage'
  BY <1>2, <1>3 DEF QuietInv, CursorCoverage, CoveredBelow
<1>5. pc'[p] = "idle" /\ \A q \in Instances : q # p => pc'[q] = pc[q] /\ page'[q] = page[q] /\ latest'[q] = latest[q]
  BY <1>0, <1>1 DEF TypeOK
<1>6. pc'[p] \notin Rewinding /\ PolledInv(p)'
  BY <1>2, <1>3, <1>5 DEF PolledInv, PageInv, CoveredBelow, Polling, Rewinding
<1> QED BY <1>1, <1>2, <1>3, <1>4, <1>5, <1>6, OthersQuiet

\* Fetching a page, taking a batch, finishing the page.
LEMMA PageQuiet ==
  ASSUME TypeInv, QuietInv, NEW p \in Instances, FetchPage(p) \/ ProcessBatch(p) \/ FinishPage(p)
  PROVE  QuietInv'
<1>0. PolledInv(p) /\ PageInv(p) /\ CursorCoverage
  BY DEF QuietInv, PolledInv
<1>1. CASE FetchPage(p)
  <2>0. CoveredBelow(cursor[p])
    BY <1>0, <1>1 DEF PolledInv, FetchPage
  <2>1. /\ UNCHANGED <<rows, lost, unheard, dbCursor, cursor>> /\ pc'[p] = "ingesting" /\ PageInv(p)'
        /\ \A q \in Instances : q # p => pc'[q] = pc[q] /\ page'[q] = page[q] /\ latest'[q] = latest[q]
    BY <1>0, <1>1, <2>0, PageFetched
  <2>2. \A l : Accounted(l)' <=> Accounted(l)
    BY <2>1 DEF Accounted, Covered
  <2>3. CursorCoverage' /\ pc'[p] \notin Rewinding /\ PolledInv(p)'
    BY <1>0, <2>0, <2>1, <2>2 DEF CursorCoverage, PolledInv, CoveredBelow, Polling, Rewinding
  <2> QED BY <2>1, <2>2, <2>3, OthersQuiet
<1>2. CASE ProcessBatch(p)
  <2>1. /\ UNCHANGED <<unheard, dbCursor, pc, cursor, latest>> /\ pc[p] = "ingesting"
        /\ \A q \in Instances : q # p => page'[q] = page[q]
        /\ \A l : Accounted(l) => Accounted(l)'
        /\ PageInv(p)'
    BY <1>0, <1>2, BatchTaken
  <2>2. CursorCoverage' /\ pc'[p] \notin Rewinding /\ PolledInv(p)'
    BY <1>0, <2>1 DEF CursorCoverage, PolledInv, CoveredBelow, Polling, Rewinding
  <2> QED BY <2>1, <2>2, OthersQuiet
<1>3. CASE FinishPage(p)
  <2>1. /\ UNCHANGED <<rows, lost, unheard, dbCursor, cursor, page, latest>>
        /\ pc[p] = "ingesting" /\ pc'[p] \in {"nextPage", "polled"}
        /\ pc'[p] = "polled" => CoveredBelow(latest[p] + 1)
        /\ \A q \in Instances : q # p => pc'[q] = pc[q]
        /\ PageInv(p)'
    BY <1>0, <1>3, PageFinished
  <2>2. \A l : Accounted(l)' <=> Accounted(l)
    BY <2>1 DEF Accounted, Covered
  <2>3. CursorCoverage' /\ pc'[p] \notin Rewinding /\ PolledInv(p)'
    BY <1>0, <2>1, <2>2 DEF CursorCoverage, PolledInv, CoveredBelow, Polling, Rewinding
  <2> QED BY <2>1, <2>2, <2>3, OthersQuiet
<1> QED BY <1>1, <1>2, <1>3

\* While the chain does not fork, any number of instances may ingest at once, with or without
\* the election, losing the lease at any moment: the durable cursor, which each of them writes
\* without looking at the others', never passes a ledger that did not go through the pipeline,
\* without any exception: no rollback runs, so none goes unheard.
THEOREM CoverageWithoutForks == QuietChain /\ Spec => [](CursorCoverage /\ PurgedIsReindexed)
<1>1. ASSUME QuietChain, TypeInv, QuietInv, [Next]_vars PROVE TypeInv' /\ QuietInv'
  <2>1. TypeInv'
    BY <1>1, NextTypeInv
  <2>2. CASE UNCHANGED vars \/ CloseLedger
    <3>1. UNCHANGED <<rows, lost, unheard, dbCursor, pc, cursor, page, latest>>
      BY <2>2 DEF vars, CloseLedger, network, tables, poll
    <3> QED BY <1>1, <2>1, <3>1, UntouchedQuiet
  <2>3. ~Reorganise
    BY <1>1, NoMismatch
  <2>4. ASSUME NEW p \in Instances, LoopStep(p) \/ Crash(p) \/ Elected(p) \/ LeaseLost(p) PROVE QuietInv'
    <3>1. ~Rollback(p) /\ ~RollbackUnanswered(p)
      BY <1>1 DEF Rollback, RollbackUnanswered, GoOnWithoutRewind, QuietInv, Rewinding
    <3> QED
      BY <1>1, <2>4, <3>1, LocalQuiet, CursorQuiet, PageQuiet DEF LoopStep
  <2> QED BY <1>1, <2>1, <2>2, <2>3, <2>4 DEF Next
<1>2. QuietInv => CursorCoverage /\ PurgedIsReindexed
  BY DEF QuietInv, CursorCoverage, PurgedIsReindexed, Accounted
<1> QED
  <2>1. SUFFICES ASSUME QuietChain PROVE Spec => [](CursorCoverage /\ PurgedIsReindexed)
    OBVIOUS
  <2> QED BY <1>1, <1>2, <2>1, InitTypeInv, InitQuiet, PTL DEF Spec
=============================================================================
