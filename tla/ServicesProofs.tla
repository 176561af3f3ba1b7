--------------------------- MODULE ServicesProofs ---------------------------
(***************************************************************************)
(* Proofs about the services around the API and the RPC pool, whose        *)
(* processes or calls share a store and no lock: ConcurrentLimiter, for    *)
(* any number of requests, any limit and any faults and expiries,          *)
(* Migrations, for any number of processes and any plan, RpcFailover, for  *)
(* any number of nodes and calls, KeysetPages, for any table, page size    *)
(* and number of changes, the types of CacheLayer, and the types of all of *)
(* them side by side.                                                      *)
(***************************************************************************)
EXTENDS MCServices, DeadLetterQueueProofs, FoldLemmas, SequenceTheorems

-----------------------------------------------------------------------------
(* ConcurrentLimiter *)

\* The requests that are served, or will be.
Admitted == {r \in Requests : \/ request[r].at = "served"
                              \/ request[r].at = "counted" /\ request[r].got <= Limit}

\* The counter is what is in flight, with the leaks and without what an expiry forgot;
\* so a count within the limit was given with few requests admitted.
CounterExact == counter = Cardinality(Counted) + leaked - forgotten

AdmittedFew == Cardinality(Admitted) <= Limit + forgotten

LimiterInv == LimiterTypeOK /\ CounterExact /\ AdmittedFew

\* The sets of requests are finite.
LEMMA RequestSetsFinite ==
  /\ IsFiniteSet(Counted) /\ IsFiniteSet(Admitted) /\ IsFiniteSet(Served)
  /\ Cardinality(Counted) \in Nat /\ Cardinality(Admitted) \in Nat /\ Cardinality(Served) \in Nat
  /\ Cardinality(Served) <= Cardinality(Admitted) /\ Cardinality(Admitted) <= Cardinality(Counted)
<1>1. Counted \subseteq Requests /\ Admitted \subseteq Counted /\ Served \subseteq Admitted
  BY DEF Counted, Admitted, Served
<1>2. IsFiniteSet(Counted)
  BY <1>1, FS_Subset, LimiterAssumption
<1>3. IsFiniteSet(Admitted) /\ Cardinality(Admitted) <= Cardinality(Counted)
  BY <1>1, <1>2, FS_Subset
<1>4. IsFiniteSet(Served) /\ Cardinality(Served) <= Cardinality(Admitted)
  BY <1>1, <1>3, FS_Subset
<1> QED BY <1>2, <1>3, <1>4, FS_CardinalityType

\* What each way of moving one request does to the two sets.
LEMMA RequestJoins ==
  ASSUME LimiterTypeOK, NEW r \in Requests, request[r].at \in {"none", "uncounted"}, NEW g \in Int,
         request' = [request EXCEPT ![r] = [at |-> "counted", got |-> g]]
  PROVE  /\ Cardinality(Counted') = Cardinality(Counted) + 1
         /\ Cardinality(Admitted') = IF g <= Limit THEN Cardinality(Admitted) + 1 ELSE Cardinality(Admitted)
<1>1. Counted' = Counted \cup {r} /\ r \notin Counted /\ r \notin Admitted
  BY DEF Counted, Admitted, LimiterTypeOK
<1>2. Admitted' = IF g <= Limit THEN Admitted \cup {r} ELSE Admitted
  BY DEF Admitted, LimiterTypeOK
<1> QED BY <1>1, <1>2, RequestSetsFinite, FS_AddElement

LEMMA RequestLeaves ==
  ASSUME LimiterTypeOK, NEW r \in Requests, r \in Counted, NEW place \in {"none", "uncounted"},
         request' = [request EXCEPT ![r] = [at |-> place, got |-> 0]]
  PROVE  /\ Cardinality(Counted') = Cardinality(Counted) - 1
         /\ Cardinality(Admitted') <= Cardinality(Admitted)
<1>1. Counted' = Counted \ {r}
  BY DEF Counted, LimiterTypeOK
<1>2. Admitted' = Admitted \ {r}
  BY DEF Admitted, LimiterTypeOK
<1>3. Cardinality(Counted \ {r}) = Cardinality(Counted) - 1
  BY RequestSetsFinite, FS_RemoveElement
<1>4. Cardinality(Admitted \ {r}) <= Cardinality(Admitted)
  BY RequestSetsFinite, FS_Subset
<1> QED BY <1>1, <1>2, <1>3, <1>4

LEMMA RequestMoves ==
  ASSUME LimiterTypeOK, NEW r \in Requests, NEW place, Goes(r, place),
         \/ /\ request[r].at \in {"none", "uncounted"} /\ place \in {"none", "uncounted"}
         \/ /\ request[r].at = "counted"
            /\ place = IF request[r].got > Limit THEN "rejecting" ELSE "served"
         \/ request[r].at = "served" /\ place = "leaving"
  PROVE  /\ Cardinality(Counted') = Cardinality(Counted)
         /\ Cardinality(Admitted') <= Cardinality(Admitted)
<1>1. \A q \in Requests : request'[q] = IF q = r THEN [request[r] EXCEPT !.at = place] ELSE request[q]
  BY DEF Goes, LimiterTypeOK
<1>2. request[r].got \in Int /\ request'[r].at = place /\ request'[r].got = request[r].got
  BY <1>1 DEF LimiterTypeOK
<1>3. Counted' = Counted
  BY <1>1, <1>2 DEF Counted
<1>4. Admitted' \subseteq Admitted
  BY <1>1, <1>2, LimiterAssumption DEF Admitted
<1> QED BY <1>3, <1>4, RequestSetsFinite, FS_Subset

LEMMA LimiterInitHolds == LimiterInit => LimiterInv
<1> SUFFICES ASSUME LimiterInit PROVE LimiterInv
  OBVIOUS
<1>1. Counted = {} /\ Admitted = {}
  BY DEF LimiterInit, Counted, Admitted, NoRequest
<1>2. LimiterTypeOK
  <2>1. request \in [Requests -> [at : {"none", "uncounted", "counted", "served", "rejecting", "leaving"},
                                  got : Int]]
    BY DEF LimiterInit, NoRequest
  <2>2. ttl \in BOOLEAN
    BY Zenon DEF LimiterInit
  <2> QED BY <2>1, <2>2, LimiterAssumption DEF LimiterInit, LimiterTypeOK
<1> QED BY <1>1, <1>2, FS_EmptySet, LimiterAssumption DEF LimiterInit, LimiterInv, CounterExact, AdmittedFew

LEMMA LimiterTypes == ASSUME LimiterTypeOK, LimiterNext PROVE LimiterTypeOK'
<1> USE LimiterAssumption DEF LimiterTypeOK
<1>1. ASSUME NEW r \in Requests, PassThrough(r) PROVE LimiterTypeOK'
  BY <1>1 DEF PassThrough, Goes
<1>2. ASSUME NEW r \in Requests, Increment(r) PROVE LimiterTypeOK'
  BY <1>2 DEF Increment
<1>3. ASSUME NEW r \in Requests, IncrementUnanswered(r) PROVE LimiterTypeOK'
  BY <1>3 DEF IncrementUnanswered, Goes, LimiterFault
<1>4. ASSUME NEW r \in Requests, RefreshTtl(r) PROVE LimiterTypeOK'
  BY <1>4 DEF RefreshTtl, Goes
<1>5. ASSUME NEW r \in Requests, RefreshFails(r) PROVE LimiterTypeOK'
  <2>1. ttl' \in BOOLEAN
    BY <1>5, Zenon DEF RefreshFails
  <2> QED BY <1>5, <2>1 DEF RefreshFails, LimiterFault
<1>6. ASSUME NEW r \in Requests, Finish(r) PROVE LimiterTypeOK'
  BY <1>6 DEF Finish, Goes
<1>7. ASSUME NEW r \in Requests, UncountedEnds(r) PROVE LimiterTypeOK'
  BY <1>7 DEF UncountedEnds, Goes
<1>8. ASSUME NEW r \in Requests, Decrement(r) PROVE LimiterTypeOK'
  BY <1>8 DEF Decrement, NoRequest
<1>9. ASSUME NEW r \in Requests, NotDecremented(r) PROVE LimiterTypeOK'
  BY <1>9 DEF NotDecremented, NoRequest, LimiterFault
<1>10. CASE KeyExpires
  <2>1. ttl' \in BOOLEAN
    BY <1>10, Zenon DEF KeyExpires
  <2>2. /\ counter' = 0 /\ leaked' = 0 /\ forgotten' = Cardinality(Counted)
        /\ UNCHANGED <<request, limiterFaults>>
        /\ expiries < MaxExpiries /\ expiries' = expiries + 1
    BY <1>10, Zenon DEF KeyExpires
  <2> QED BY <2>1, <2>2, RequestSetsFinite
<1> QED BY <1>1, <1>2, <1>3, <1>4, <1>5, <1>6, <1>7, <1>8, <1>9, <1>10 DEF LimiterNext

LEMMA LimiterStep == ASSUME LimiterInv, LimiterNext PROVE CounterExact' /\ AdmittedFew'
<1> DEFINE c  == Cardinality(Counted)
           c1 == Cardinality(Counted)'
           a  == Cardinality(Admitted)
           a1 == Cardinality(Admitted)'
<1> USE LimiterAssumption
<1>1. /\ c \in Nat /\ c1 \in Nat /\ a \in Nat /\ a1 \in Nat /\ a <= c /\ a1 <= c1
      /\ leaked \in Nat /\ forgotten \in Nat /\ counter \in Int /\ Limit \in Nat
      /\ counter = c + leaked - forgotten /\ a <= Limit + forgotten /\ LimiterTypeOK
  <2>1. Cardinality(Counted)' \in Nat /\ Cardinality(Admitted)' \in Nat /\ Cardinality(Admitted)' <= Cardinality(Counted)'
    <3>1. Counted' \subseteq Requests /\ Admitted' \subseteq Counted'
      BY DEF Counted, Admitted
    <3>2. IsFiniteSet(Counted') /\ IsFiniteSet(Admitted') /\ Cardinality(Admitted') <= Cardinality(Counted')
      BY <3>1, FS_Subset
    <3> QED BY <3>2, FS_CardinalityType
  <2> QED BY <2>1, RequestSetsFinite DEF LimiterInv, LimiterTypeOK, CounterExact, AdmittedFew
<1> HIDE DEF c, c1, a, a1
<1>g. ASSUME counter' = c1 + leaked' - forgotten', a1 <= Limit + forgotten'
      PROVE  CounterExact' /\ AdmittedFew'
  BY <1>g DEF CounterExact, AdmittedFew, c1, a1
<1>2. ASSUME NEW r \in Requests, PassThrough(r) \/ UncountedEnds(r) \/ Finish(r) \/ RefreshTtl(r)
      PROVE  CounterExact' /\ AdmittedFew'
  <2>1. c1 = c /\ a1 <= a
    BY <1>1, <1>2, RequestMoves DEF PassThrough, UncountedEnds, Finish, RefreshTtl, c, c1, a, a1
  <2>2. counter' = counter /\ leaked' = leaked /\ forgotten' = forgotten
    BY <1>2 DEF PassThrough, UncountedEnds, Finish, RefreshTtl
  <2> QED BY <1>1, <1>g, <2>1, <2>2
<1>3. ASSUME NEW r \in Requests, Increment(r) PROVE CounterExact' /\ AdmittedFew'
  <2>1. c1 = c + 1 /\ a1 = IF counter + 1 <= Limit THEN a + 1 ELSE a
    <3>1. /\ request[r].at \in {"none", "uncounted"} /\ counter + 1 \in Int
          /\ request' = [request EXCEPT ![r] = [at |-> "counted", got |-> counter + 1]]
      BY <1>1, <1>3 DEF Increment
    <3>2. /\ Cardinality(Counted') = Cardinality(Counted) + 1
          /\ Cardinality(Admitted') = IF counter + 1 <= Limit THEN Cardinality(Admitted) + 1 ELSE Cardinality(Admitted)
      BY <1>1, <3>1, RequestJoins
    <3> QED BY <3>2 DEF c, c1, a, a1
  <2>2. counter' = counter + 1 /\ leaked' = leaked /\ forgotten' = forgotten
    BY <1>3 DEF Increment
  <2> QED BY <1>1, <1>g, <2>1, <2>2
<1>4. ASSUME NEW r \in Requests, IncrementUnanswered(r) PROVE CounterExact' /\ AdmittedFew'
  <2>1. c1 = c /\ a1 <= a
    BY <1>1, <1>4, RequestMoves DEF IncrementUnanswered, c, c1, a, a1
  <2>2. counter' = counter + 1 /\ leaked' = leaked + 1 /\ forgotten' = forgotten
    BY <1>4 DEF IncrementUnanswered
  <2> QED BY <1>1, <1>g, <2>1, <2>2
<1>5. ASSUME NEW r \in Requests, RefreshFails(r) \/ NotDecremented(r) PROVE CounterExact' /\ AdmittedFew'
  <2>1. r \in Counted
    BY <1>5 DEF RefreshFails, NotDecremented, Counted
  <2>2. c1 = c - 1 /\ a1 <= a
    <3>1. PICK place \in {"none", "uncounted"} : request' = [request EXCEPT ![r] = [at |-> place, got |-> 0]]
      BY <1>5 DEF RefreshFails, NotDecremented, NoRequest
    <3>2. /\ Cardinality(Counted') = Cardinality(Counted) - 1
          /\ Cardinality(Admitted') <= Cardinality(Admitted)
      BY <1>1, <2>1, <3>1, RequestLeaves, Zenon
    <3> QED BY <3>2 DEF c, c1, a, a1
  <2>3. counter' = counter /\ leaked' = leaked + 1 /\ forgotten' = forgotten
    BY <1>5 DEF RefreshFails, NotDecremented
  <2> QED BY <1>1, <1>g, <2>2, <2>3
<1>6. ASSUME NEW r \in Requests, Decrement(r) PROVE CounterExact' /\ AdmittedFew'
  <2>1. r \in Counted
    BY <1>6 DEF Decrement, Counted
  <2>2. c1 = c - 1 /\ a1 <= a
    <3>1. PICK place \in {"none", "uncounted"} : request' = [request EXCEPT ![r] = [at |-> place, got |-> 0]]
      BY <1>6 DEF Decrement, NoRequest
    <3>2. /\ Cardinality(Counted') = Cardinality(Counted) - 1
          /\ Cardinality(Admitted') <= Cardinality(Admitted)
      BY <1>1, <2>1, <3>1, RequestLeaves, Zenon
    <3> QED BY <3>2 DEF c, c1, a, a1
  <2>3. counter' = counter - 1 /\ leaked' = leaked /\ forgotten' = forgotten
    BY <1>6 DEF Decrement
  <2> QED BY <1>1, <1>g, <2>2, <2>3
<1>7. CASE KeyExpires
  <2>1. c1 = c /\ a1 = a
    BY <1>7 DEF KeyExpires, Counted, Admitted, c, c1, a, a1
  <2>2. counter' = 0 /\ leaked' = 0 /\ forgotten' = c
    BY <1>7 DEF KeyExpires, c
  <2> QED BY <1>1, <1>g, <2>1, <2>2
<1> QED BY <1>2, <1>3, <1>4, <1>5, <1>6, <1>7 DEF LimiterNext

LEMMA LimiterInvariance == LimiterSpec => []LimiterInv
<1>1. ASSUME LimiterInv, [LimiterNext]_limiterVars PROVE LimiterInv'
  <2>1. CASE UNCHANGED limiterVars
    BY <1>1, <2>1 DEF LimiterInv, LimiterTypeOK, CounterExact, AdmittedFew, Counted, Admitted, limiterVars
  <2> QED BY <1>1, <2>1, LimiterTypes, LimiterStep DEF LimiterInv
<1> QED BY LimiterInitHolds, <1>1, PTL DEF LimiterSpec

\* Types of the limiter's state; the counter may be any integer.
THEOREM LimiterTypeCorrect == LimiterSpec => []LimiterTypeOK
<1>1. LimiterInv => LimiterTypeOK
  BY DEF LimiterInv
<1> QED BY <1>1, LimiterInvariance, PTL

\* Of the requests in progress, those the limiter let through uncounted aside, no more
\* exceed the cap than the last expiry forgot.
THEOREM LimitIsHeld == LimiterSpec => []LimitHolds
<1>1. LimiterInv => LimitHolds
  <2>1. /\ IsFiniteSet(Served) /\ IsFiniteSet(Uncounted) /\ Served \cap Uncounted = {}
        /\ Cardinality(Served) \in Nat /\ Cardinality(Uncounted) \in Nat
    <3>1. IsFiniteSet(Uncounted)
      BY FS_Subset, LimiterAssumption DEF Uncounted
    <3> QED BY <3>1, RequestSetsFinite, FS_CardinalityType DEF Served, Uncounted
  <2>2. Cardinality(InProgress) = Cardinality(Served) + Cardinality(Uncounted)
    BY <2>1, FS_Union, FS_EmptySet DEF InProgress
  <2> QED BY <2>1, <2>2, RequestSetsFinite, LimiterAssumption
          DEF LimiterInv, LimiterTypeOK, AdmittedFew, LimitHolds
<1> QED BY <1>1, LimiterInvariance, PTL
-----------------------------------------------------------------------------
(* Migrations *)

Phases(f)      == 1..Len(Plan[f])
Numbers(f, h)  == 1..Plan[f][h].size
Executed(f, h, k) == <<f, h, k>> \in executed

\* MigrationsInOrder, statement by statement.
Complete == \A f \in recorded : /\ 1..(f - 1) \subseteq recorded
                                /\ \A h \in Phases(f) : \A k \in Numbers(f, h) : Executed(f, h, k)

Reached(f, h, k) ==
    /\ 1..(f - 1) \subseteq recorded
    /\ \A g \in 1..(h - 1) : \A n \in Numbers(f, g) : Executed(f, g, n)
    /\ \A n \in 1..(k - 1) : Executed(f, h, n)

InTurn == \A f \in Files : \A h \in Phases(f) : \A k \in Numbers(f, h) :
              Executed(f, h, k) => Reached(f, h, k)

\* What a process in the middle of a file knows; inside a transactional phase, and
\* after the last phase, it stands at the first statement.
Placed(m) ==
    m.running =>
        /\ m.applied \subseteq recorded
        /\ Reached(m.file, m.phase, m.next)
        /\ \/ m.next = 1
           \/ /\ m.phase \in Phases(m.file) /\ Plan[m.file][m.phase].online
              /\ m.next \in Numbers(m.file, m.phase)

MigrationsInv ==
    /\ MigrationsTypeOK
    /\ Complete /\ InTurn
    /\ \A p \in Migrators : Placed(migrator[p])

LEMMA PlanType ==
  /\ \A f \in Files : Plan[f] \in Seq([online : BOOLEAN, size : Nat \ {0}]) /\ DOMAIN Plan[f] = Phases(f)
                      /\ Len(Plan[f]) \in Nat
  /\ \A f \in Files : \A h \in Phases(f) : Plan[f][h].size \in Nat \ {0}
<1>1. \A f \in Files : Plan[f] \in Seq([online : BOOLEAN, size : Nat \ {0}])
  BY MigrationsAssumption DEF Files
<1>2. ASSUME NEW f \in Files
      PROVE  /\ DOMAIN Plan[f] = Phases(f) /\ Len(Plan[f]) \in Nat
             /\ \A h \in Phases(f) : Plan[f][h].size \in Nat \ {0}
  <2>1. Plan[f] \in Seq([online : BOOLEAN, size : Nat \ {0}])
    BY <1>1
  <2>2. DOMAIN Plan[f] = Phases(f) /\ Len(Plan[f]) \in Nat
    BY <2>1 DEF Phases
  <2>3. ASSUME NEW h \in Phases(f) PROVE Plan[f][h].size \in Nat \ {0}
    <3>1. Plan[f][h] \in [online : BOOLEAN, size : Nat \ {0}]
      BY <2>1, ElementOfSeq DEF Phases
    <3>2. ASSUME NEW x \in [online : BOOLEAN, size : Nat \ {0}] PROVE x.size \in Nat \ {0}
      BY <3>2, Zenon
    <3> QED BY <3>1, <3>2
  <2> QED BY <2>2, <2>3
<1> QED BY <1>1, <1>2

LEMMA StatementsAre ==
  ASSUME NEW f \in Files, NEW t
  PROVE  t \in Statements(f) <=> \E h \in Phases(f) : \E k \in Numbers(f, h) : t = <<f, h, k>>
<1>1. t \in Statements(f) <=> \E h \in DOMAIN Plan[f] : t \in PhaseOf(f, h)
  BY DEF Statements
<1>2. \A h : t \in PhaseOf(f, h) <=> \E k \in Numbers(f, h) : t = <<f, h, k>>
  BY DEF PhaseOf, Numbers
<1> QED BY <1>1, <1>2, PlanType

\* The invariant gives the property.
LEMMA InOrderFollows == ASSUME MigrationsInv PROVE MigrationsInOrder
<1> SUFFICES ASSUME NEW f \in Files
             PROVE  /\ f \in recorded => Statements(f) \subseteq executed
                    /\ f \in recorded \/ Statements(f) \cap executed # {} => 1..(f - 1) \subseteq recorded
                    /\ \A s, t \in Statements(f) : Before(s, t) /\ t \in executed => s \in executed
  BY DEF MigrationsInOrder
<1>1. f \in recorded => Statements(f) \subseteq executed
  BY StatementsAre DEF MigrationsInv, Complete, Executed
<1>2. f \in recorded \/ Statements(f) \cap executed # {} => 1..(f - 1) \subseteq recorded
  BY StatementsAre DEF MigrationsInv, Complete, InTurn, Reached, Executed
<1>3. ASSUME NEW s \in Statements(f), NEW t \in Statements(f), Before(s, t), t \in executed
      PROVE  s \in executed
  <2>1. PICK g \in Phases(f) : \E n \in Numbers(f, g) : s = <<f, g, n>>
    BY StatementsAre
  <2>2. PICK h \in Phases(f) : \E k \in Numbers(f, h) : t = <<f, h, k>>
    BY StatementsAre
  <2> PICK n \in Numbers(f, g) : s = <<f, g, n>>
    BY <2>1
  <2> PICK k \in Numbers(f, h) : t = <<f, h, k>>
    BY <2>2
  <2>3. Reached(f, h, k)
    BY <1>3, <2>2 DEF MigrationsInv, InTurn, Executed
  <2>4. g < h \/ (g = h /\ n < k)
    BY <1>3, <2>1, <2>2 DEF Before
  <2>5. g \in Nat /\ h \in Nat /\ n \in Nat /\ k \in Nat /\ g >= 1 /\ n >= 1
    BY <2>1, <2>2, PlanType DEF Phases, Numbers
  <2> QED BY <2>1, <2>3, <2>4, <2>5 DEF Reached, Executed
<1> QED BY <1>1, <1>2, <1>3

\* What is executed or recorded stays so, so nobody's place is lost.
LEMMA ReachedKept ==
  ASSUME executed \subseteq executed', recorded \subseteq recorded', NEW f, NEW h, NEW k, Reached(f, h, k)
  PROVE  Reached(f, h, k)'
  BY DEF Reached, Executed

LEMMA MigrationsInitHolds == MigrationsInit => MigrationsInv
  BY MigrationsAssumption DEF MigrationsInit, MigrationsInv, MigrationsTypeOK, Complete, InTurn, Executed,
     Placed, Stopped

\* A step that executes and records what may be, and finds one process its place.
LEMMA StepPlaced ==
  ASSUME MigrationsInv, executed \subseteq executed', recorded \subseteq recorded',
         executed' \subseteq UNION {Statements(f) : f \in Files}, recorded' \subseteq Files,
         Complete', InTurn',
         NEW p \in Migrators, NEW m \in {Stopped} \cup Positions,
         migrator' = [migrator EXCEPT ![p] = m], Placed(m)',
         migrationFaults' \in 0..MaxMigrationFaults
  PROVE  MigrationsInv'
<1>1. MigrationsTypeOK'
  BY DEF MigrationsInv, MigrationsTypeOK
<1>2. \A q \in Migrators : migrator'[q] = IF q = p THEN m ELSE migrator[q]
  BY DEF MigrationsInv, MigrationsTypeOK
<1>3. \A q \in Migrators : q # p => Placed(migrator[q])'
  <2>1. ASSUME NEW q \in Migrators, q # p PROVE Placed(migrator[q])'
    <3>1. migrator'[q] = migrator[q] /\ Placed(migrator[q])
      BY <1>2, <2>1 DEF MigrationsInv
    <3> QED BY <3>1 DEF Placed, Reached, Executed
  <2> QED BY <2>1
<1>4. Placed(migrator[p])'
  <2>1. migrator'[p] = m
    BY <1>2
  <2> QED BY <2>1 DEF Placed, Reached, Executed
<1> QED BY <1>1, <1>3, <1>4 DEF MigrationsInv

\* A process whose schema-independent place changes: nothing is executed or recorded.
LEMMA SchemaUntouched ==
  ASSUME MigrationsInv, executed' = executed, recorded' = recorded, NEW p \in Migrators,
         migrator' = [migrator EXCEPT ![p] = Stopped], migrationFaults' \in 0..MaxMigrationFaults
  PROVE  MigrationsInv'
<1>1. Complete' /\ InTurn'
  BY ReachedKept DEF MigrationsInv, Complete, InTurn, Executed
<1>2. Placed(Stopped)'
  BY DEF Placed, Stopped
<1>3. executed' \subseteq UNION {Statements(f) : f \in Files} /\ recorded' \subseteq Files
  BY DEF MigrationsInv, MigrationsTypeOK
<1> QED BY <1>1, <1>2, <1>3, StepPlaced

\* Proceed finds a place behind which everything is recorded.
LEMMA ProceedPlaced ==
  ASSUME NEW p \in Migrators, NEW f \in 0..LastFile, NEW applied \in SUBSET Files, Proceed(p, f, applied),
         applied \subseteq recorded', 1..f \subseteq recorded', MigrationsAssumption
  PROVE  \E m \in {Stopped} \cup Positions :
            migrator' = [migrator EXCEPT ![p] = m] /\ Placed(m)'
<1> DEFINE rest == {g \in Files : g > f /\ g \notin applied}
<1>1. CASE migrator' = [migrator EXCEPT ![p] = Stopped]
  <2>1. Placed(Stopped)'
    BY DEF Placed, Stopped
  <2> QED BY <1>1, <2>1
<1>2. ASSUME NEW g \in rest, \A q \in rest : g <= q,
             migrator' = [migrator EXCEPT ![p] = [running |-> TRUE, applied |-> applied,
                                                  file |-> g, phase |-> 1, next |-> 1]]
      PROVE  \E m \in {Stopped} \cup Positions :
                migrator' = [migrator EXCEPT ![p] = m] /\ Placed(m)'
  <2> DEFINE m == [running |-> TRUE, applied |-> applied, file |-> g, phase |-> 1, next |-> 1]
  <2>1. m \in Positions
    <3>1. Len(Plan[g]) \in Nat
      BY PlanType
    <3> QED BY <3>1 DEF Positions
  <2>2. 1..(g - 1) \subseteq recorded'
    <3>1. ASSUME NEW q \in 1..(g - 1) PROVE q \in recorded'
      <4>1. q \in Files /\ q < g
        BY <3>1, MigrationsAssumption DEF Files
      <4>2. q \notin rest
        BY <1>2, <4>1 DEF Files
      <4>3. q <= f \/ q \in applied
        BY <4>1, <4>2 DEF Files
      <4> QED BY <4>3, <4>1 DEF Files
    <3> QED BY <3>1
  <2>3. Placed(m)'
    BY <2>2 DEF Placed, Reached
  <2> QED BY <1>2, <2>1, <2>3
<1> QED BY <1>1, <1>2 DEF Proceed

\* Executing statements that are reached keeps InTurn and Complete.
LEMMA Executing ==
  ASSUME MigrationsInv, recorded' = recorded, NEW f \in Files, NEW h \in Phases(f),
         NEW K \in SUBSET Numbers(f, h),
         executed' = executed \cup {<<f, h, k>> : k \in K},
         \A k \in K : Reached(f, h, k)'
  PROVE  /\ Complete' /\ InTurn'
         /\ executed' \subseteq UNION {Statements(g) : g \in Files}
<1>1. Complete'
  BY DEF MigrationsInv, Complete, Executed
<1>2. ASSUME NEW g \in Files, NEW i \in Phases(g), NEW k \in Numbers(g, i), Executed(g, i, k)'
      PROVE  Reached(g, i, k)'
  <2>1. CASE Executed(g, i, k)
    <3>1. Reached(g, i, k)
      BY <2>1 DEF MigrationsInv, InTurn
    <3> QED BY <3>1, ReachedKept
  <2>2. CASE ~Executed(g, i, k)
    <3>1. g = f /\ i = h /\ k \in K
      BY <1>2, <2>2 DEF Executed
    <3> QED BY <3>1
  <2> QED BY <2>1, <2>2
<1>3. InTurn'
  BY <1>2 DEF InTurn
<1>4. \A k \in K : <<f, h, k>> \in Statements(f)
  BY StatementsAre
<1> QED BY <1>1, <1>3, <1>4 DEF MigrationsInv, MigrationsTypeOK

\* What the invariant says of a process that is running.
LEMMA RunningPlace ==
  ASSUME MigrationsInv, NEW p \in Migrators, migrator[p].running
  PROVE  LET m == migrator[p]
         IN  /\ m \in Positions /\ m.file \in Files /\ m.phase \in Nat \ {0} /\ m.next \in Nat \ {0}
             /\ m.phase <= Len(Plan[m.file]) + 1 /\ Len(Plan[m.file]) \in Nat
             /\ m.applied \subseteq recorded
             /\ Reached(m.file, m.phase, m.next)
             /\ \/ m.next = 1
                \/ /\ m.phase \in Phases(m.file) /\ Plan[m.file][m.phase].online
                   /\ m.next \in Numbers(m.file, m.phase)
<1> DEFINE m == migrator[p]
<1>1. m # Stopped
  <2>1. Stopped.running = FALSE
    BY DEF Stopped
  <2> QED BY <2>1, Zenon
<1>2. m \in Positions
  BY <1>1 DEF MigrationsInv, MigrationsTypeOK
<1>3. m.file \in Files /\ m.phase \in Nat \ {0} /\ m.next \in Nat \ {0} /\ m.phase <= Len(Plan[m.file]) + 1
  BY <1>2 DEF Positions
<1>4. Len(Plan[m.file]) \in Nat
  BY <1>3, PlanType
<1>5. Placed(m)
  BY DEF MigrationsInv
<1> QED BY <1>2, <1>3, <1>4, <1>5, Zenon DEF Placed

\* A place may be moved up to the end of its plan.
LEMMA PlaceMoves ==
  ASSUME NEW m \in Positions, NEW h \in Nat, h >= 1, h <= Len(Plan[m.file]), Len(Plan[m.file]) \in Nat
  PROVE  [m EXCEPT !.phase = h + 1, !.next = 1] \in Positions
<1>1. ASSUME NEW S, NEW T, NEW N, NEW i \in N, NEW j \in N,
             NEW q \in [running : {TRUE}, applied : S, file : T, phase : N, next : N]
      PROVE  /\ [q EXCEPT !.phase = i, !.next = j] \in [running : {TRUE}, applied : S, file : T, phase : N, next : N]
             /\ [q EXCEPT !.phase = i, !.next = j].file = q.file
             /\ [q EXCEPT !.phase = i, !.next = j].phase = i
  OBVIOUS
<1>2. h + 1 \in Nat \ {0} /\ 1 \in Nat \ {0}
  OBVIOUS
<1>3. m \in [running : {TRUE}, applied : SUBSET Files, file : Files, phase : Nat \ {0}, next : Nat \ {0}]
  BY DEF Positions
<1> PICK n : n = [m EXCEPT !.phase = h + 1, !.next = 1]
  OBVIOUS
<1>4. /\ n \in [running : {TRUE}, applied : SUBSET Files, file : Files, phase : Nat \ {0}, next : Nat \ {0}]
      /\ n.file = m.file /\ n.phase = h + 1
  BY <1>1, <1>2, <1>3, Zenon
<1>5. n.phase <= Len(Plan[n.file]) + 1
  BY <1>4
<1> QED BY <1>4, <1>5 DEF Positions

LEMMA StartKeeps == ASSUME MigrationsInv, NEW p \in Migrators, StartMigrations(p) PROVE MigrationsInv'
<1>1. executed' = executed /\ recorded' = recorded /\ migrationFaults' = migrationFaults
      /\ recorded \in SUBSET Files /\ Proceed(p, 0, recorded)
  BY DEF StartMigrations, MigrationsInv, MigrationsTypeOK
<1>2. \E m \in {Stopped} \cup Positions : migrator' = [migrator EXCEPT ![p] = m] /\ Placed(m)'
  BY <1>1, MigrationsAssumption, ProceedPlaced
<1>3. Complete' /\ InTurn'
  BY <1>1, ReachedKept DEF MigrationsInv, Complete, InTurn, Executed
<1> QED BY <1>1, <1>2, <1>3, StepPlaced DEF MigrationsInv, MigrationsTypeOK

LEMMA OnlineKeeps == ASSUME MigrationsInv, NEW p \in Migrators, ExecuteOnline(p) PROVE MigrationsInv'
<1> PICK m, f, h, k : m = migrator[p] /\ f = m.file /\ h = m.phase /\ k = m.next
  OBVIOUS
<1> DEFINE n == IF k < Plan[f][h].size THEN [m EXCEPT !.next = k + 1]
                ELSE [m EXCEPT !.phase = h + 1, !.next = 1]
<1>0. m.running /\ h \in DOMAIN Plan[f] /\ Plan[f][h].online
  BY Zenon DEF ExecuteOnline, InPhase
<1>1. m \in Positions /\ f \in Files /\ k \in Nat \ {0} /\ Reached(f, h, k) /\ m.applied \subseteq recorded
      /\ (k = 1 \/ k \in Numbers(f, h))
  BY <1>0, RunningPlace
<1>2. h \in Phases(f) /\ Plan[f][h].size \in Nat \ {0} /\ Len(Plan[f]) \in Nat
  BY <1>0, <1>1, PlanType
<1>3. k \in Numbers(f, h) /\ h \in Nat /\ h >= 1 /\ h <= Len(Plan[f])
  BY <1>1, <1>2 DEF Numbers, Phases
<1>4. /\ executed' = executed \cup {<<f, h, k>>} /\ recorded' = recorded /\ migrationFaults' = migrationFaults
      /\ migrator' = [migrator EXCEPT ![p] = n]
  BY DEF ExecuteOnline
<1>5. Reached(f, h, k)'
  BY <1>1, <1>4, ReachedKept
<1>6. Complete' /\ InTurn' /\ executed' \subseteq UNION {Statements(g) : g \in Files}
  <2> PICK K : K = {k}
    OBVIOUS
  <2>1. {<<f, h, j>> : j \in K} = {<<f, h, k>>}
    OBVIOUS
  <2>2. \A j \in K : Reached(f, h, j)'
    BY <1>5
  <2>3. K \in SUBSET Numbers(f, h)
    BY <1>3
  <2>4. executed' = executed \cup {<<f, h, j>> : j \in K}
    BY <1>4, <2>1
  <2>5. recorded' = recorded /\ f \in Files /\ h \in Phases(f)
    BY <1>1, <1>2, <1>4
  <2> QED BY <2>2, <2>3, <2>4, <2>5, Executing
<1>7. m.running = TRUE /\ m.applied \subseteq recorded'
  BY <1>1, <1>4 DEF Positions
<1>8. n \in Positions /\ Placed(n)'
  <2>1. CASE k < Plan[f][h].size
    <3>1. n = [m EXCEPT !.next = k + 1] /\ k + 1 \in Nat \ {0} /\ k + 1 \in Numbers(f, h)
      BY <1>2, <1>3, <2>1 DEF Numbers
    <3>2. n \in Positions /\ n.file = f /\ n.phase = h /\ n.next = k + 1 /\ n.applied = m.applied
      BY <1>1, <3>1 DEF Positions
    <3>3. Reached(f, h, k + 1)'
      BY <1>4, <1>5, <1>3, <1>1 DEF Reached, Executed
    <3> QED BY <1>0, <1>2, <1>7, <3>1, <3>2, <3>3, Zenon DEF Placed
  <2>2. CASE ~(k < Plan[f][h].size)
    <3>1. n = [m EXCEPT !.phase = h + 1, !.next = 1] /\ k = Plan[f][h].size /\ h + 1 \in Nat \ {0}
      BY <1>2, <1>3, <2>2 DEF Numbers
    <3>2. n \in Positions /\ n.file = f /\ n.phase = h + 1 /\ n.next = 1 /\ n.applied = m.applied
      <4>1. m \in Positions /\ h \in Nat /\ h >= 1 /\ h <= Len(Plan[m.file]) /\ Len(Plan[m.file]) \in Nat
        BY <1>1, <1>2, <1>3
      <4>2. [m EXCEPT !.phase = h + 1, !.next = 1] \in Positions
        BY <4>1, PlaceMoves
      <4>3. n.file = m.file /\ n.phase = h + 1 /\ n.next = 1 /\ n.applied = m.applied
        BY <3>1, <4>1 DEF Positions
      <4> QED BY <3>1, <4>2, <4>3
    <3>3. \A j \in Numbers(f, h) : Executed(f, h, j)'
      <4>1. \A j \in 1..(k - 1) : Executed(f, h, j)'
        BY <1>1, <1>5 DEF Reached, Executed
      <4>2. Executed(f, h, k)'
        BY <1>4 DEF Executed
      <4>3. \A j \in Numbers(f, h) : j = k \/ j \in 1..(k - 1)
        <5>1. Numbers(f, h) = 1..k /\ k \in Nat
          BY <1>1, <3>1 DEF Numbers
        <5> QED BY <5>1
      <4> QED BY <4>1, <4>2, <4>3
    <3>4. Reached(f, h + 1, 1)'
      BY <1>3, <1>5, <3>3 DEF Reached
    <3> QED BY <1>7, <3>2, <3>4, Zenon DEF Placed
  <2> QED BY <2>1, <2>2
<1> QED BY <1>4, <1>6, <1>8, StepPlaced DEF MigrationsInv, MigrationsTypeOK

LEMMA TransactionKeeps == ASSUME MigrationsInv, NEW p \in Migrators, ExecuteTransaction(p) PROVE MigrationsInv'
<1> PICK m, f, h : m = migrator[p] /\ f = m.file /\ h = m.phase
  OBVIOUS
<1> DEFINE n == [m EXCEPT !.phase = h + 1, !.next = 1]
<1>0. m.running /\ h \in DOMAIN Plan[f] /\ ~Plan[f][h].online
  BY Zenon DEF ExecuteTransaction, InPhase
<1>1. m \in Positions /\ f \in Files /\ m.next = 1 /\ Reached(f, h, m.next) /\ m.applied \subseteq recorded
  BY <1>0, RunningPlace, Zenon
<1>2. h \in Phases(f) /\ Plan[f][h].size \in Nat \ {0} /\ Len(Plan[f]) \in Nat
  BY <1>0, <1>1, PlanType
<1>3. h \in Nat /\ h >= 1 /\ h <= Len(Plan[f])
  BY <1>1, <1>2 DEF Phases
<1>4. /\ executed' = executed \cup {<<f, h, k>> : k \in Numbers(f, h)} /\ recorded' = recorded
      /\ migrationFaults' = migrationFaults /\ migrator' = [migrator EXCEPT ![p] = n]
  BY DEF ExecuteTransaction, PhaseOf, Numbers
<1>5. Reached(f, h, 1)'
  BY <1>1, <1>4, ReachedKept
<1>6. \A k \in Numbers(f, h) : Executed(f, h, k)'
  BY <1>4 DEF Executed
<1>7. \A k \in Numbers(f, h) : Reached(f, h, k)'
  BY <1>2, <1>5, <1>6 DEF Reached, Numbers
<1>8. Complete' /\ InTurn' /\ executed' \subseteq UNION {Statements(g) : g \in Files}
  <2> PICK K : K = Numbers(f, h)
    OBVIOUS
  <2>1. executed' = executed \cup {<<f, h, k>> : k \in K} /\ recorded' = recorded
    BY <1>4
  <2>2. K \in SUBSET Numbers(f, h) /\ \A k \in K : Reached(f, h, k)'
    BY <1>7
  <2>3. f \in Files /\ h \in Phases(f)
    BY <1>1, <1>2
  <2> QED BY <2>1, <2>2, <2>3, Executing
<1>9. m.running = TRUE /\ m.applied \subseteq recorded'
  BY <1>1, <1>4 DEF Positions
<1>10. n \in Positions /\ Placed(n)'
  <2>1. n \in Positions /\ n.file = f /\ n.phase = h + 1 /\ n.next = 1 /\ n.applied = m.applied
    <3>1. m \in Positions /\ h \in Nat /\ h >= 1 /\ h <= Len(Plan[m.file]) /\ Len(Plan[m.file]) \in Nat
      BY <1>1, <1>2, <1>3
    <3>2. n \in Positions
      BY <3>1, PlaceMoves
    <3>3. n.file = m.file /\ n.phase = h + 1 /\ n.next = 1 /\ n.applied = m.applied
      BY <3>1 DEF Positions
    <3> QED BY <3>2, <3>3
  <2>2. Reached(f, h + 1, 1)'
    BY <1>3, <1>5, <1>6 DEF Reached
  <2> QED BY <1>9, <2>1, <2>2, Zenon DEF Placed
<1> QED BY <1>4, <1>8, <1>10, StepPlaced DEF MigrationsInv, MigrationsTypeOK

LEMMA RecordKeeps == ASSUME MigrationsInv, NEW p \in Migrators, RecordVersion(p) PROVE MigrationsInv'
<1> PICK m, f : m = migrator[p] /\ f = m.file
  OBVIOUS
<1>1. m.running /\ m.phase > Len(Plan[f]) /\ recorded' = recorded \cup {f}
      /\ executed' = executed /\ migrationFaults' = migrationFaults
  BY Zenon DEF RecordVersion
<1>2. m \in Positions /\ f \in Files /\ m.phase \in Nat /\ m.phase = Len(Plan[f]) + 1
      /\ Reached(f, m.phase, m.next) /\ m.applied \subseteq recorded /\ Len(Plan[f]) \in Nat
  BY <1>1, RunningPlace
<1>3. 1..(f - 1) \subseteq recorded /\ \A h \in Phases(f) : \A k \in Numbers(f, h) : Executed(f, h, k)
  BY <1>2 DEF Reached, Phases
<1>4. Complete' /\ InTurn'
  <2>1. Complete'
    BY <1>1, <1>3 DEF MigrationsInv, Complete, Executed
  <2>2. InTurn'
    BY <1>1, ReachedKept DEF MigrationsInv, InTurn, Executed
  <2> QED BY <2>1, <2>2
<1>5. \E n \in {Stopped} \cup Positions : migrator' = [migrator EXCEPT ![p] = n] /\ Placed(n)'
  <2>1. CASE migrator' = [migrator EXCEPT ![p] = Stopped]
    <3>1. Placed(Stopped)'
      BY DEF Placed, Stopped
    <3> QED BY <2>1, <3>1
  <2>2. CASE Proceed(p, f, m.applied)
    <3>1. m.applied \in SUBSET Files /\ f \in 0..LastFile
      <4>1. m.applied \in SUBSET Files
        BY <1>2 DEF Positions
      <4>2. f \in 1..LastFile
        BY <1>2 DEF Files
      <4> QED BY <4>1, <4>2, MigrationsAssumption
    <3>2. m.applied \subseteq recorded' /\ 1..f \subseteq recorded'
      BY <1>1, <1>2, <1>3, <3>1, MigrationsAssumption DEF Files
    <3> QED BY <2>2, <3>1, <3>2, ProceedPlaced, MigrationsAssumption
  <2> QED BY <2>1, <2>2, Zenon DEF RecordVersion
<1> QED BY <1>1, <1>2, <1>4, <1>5, StepPlaced DEF MigrationsInv, MigrationsTypeOK

LEMMA MigrationsInvariance == MigrationsSpec => []MigrationsInv
<1>1. ASSUME MigrationsInv, [MigrationsNext]_migrationVars PROVE MigrationsInv'
  <2>1. CASE UNCHANGED migrationVars
    BY <1>1, <2>1 DEF MigrationsInv, MigrationsTypeOK, Complete, InTurn, Placed, Reached, Executed, migrationVars
  <2>2. ASSUME NEW p \in Migrators, StatementRefused(p) \/ MigratorStops(p) PROVE MigrationsInv'
    <3>1. executed' = executed /\ recorded' = recorded /\ migrator' = [migrator EXCEPT ![p] = Stopped]
      BY <2>2, Zenon DEF StatementRefused, MigratorStops
    <3>2. migrationFaults' = migrationFaults \/ MigrationFault
      BY <2>2, Zenon DEF StatementRefused, MigratorStops
    <3>3. migrationFaults' \in 0..MaxMigrationFaults
      BY <1>1, <3>2, MigrationsAssumption DEF MigrationFault, MigrationsInv, MigrationsTypeOK
    <3> QED BY <1>1, <3>1, <3>3, SchemaUntouched
  <2> QED BY <1>1, <2>1, <2>2, StartKeeps, OnlineKeeps, TransactionKeeps, RecordKeeps DEF MigrationsNext
<1> QED BY MigrationsInitHolds, <1>1, PTL DEF MigrationsSpec

\* Types of the migration state: no process stands past the end of a plan.
THEOREM MigrationsTypeCorrect == MigrationsSpec => []MigrationsTypeOK
<1>1. MigrationsInv => MigrationsTypeOK
  BY DEF MigrationsInv
<1> QED BY <1>1, MigrationsInvariance, PTL

\* No version is recorded before its statements and its predecessors, however many
\* processes migrate at once and stop half-way.
THEOREM InOrder == MigrationsSpec => []MigrationsInOrder
<1> QED BY InOrderFollows, MigrationsInvariance, PTL

-----------------------------------------------------------------------------
(* RpcFailover *)

\* One lap at most round the ring.
LEMMA Wrap ==
  ASSUME NEW a \in Nodes, NEW j \in 1..NodeCount
  PROVE  (a + j) % NodeCount = IF a + j < NodeCount THEN a + j ELSE a + j - NodeCount
<1>1. NodeCount \in Nat \ {0} /\ a \in Int /\ 0 <= a /\ a < NodeCount /\ j \in Int /\ 1 <= j /\ j <= NodeCount
  BY FailoverAssumption DEF Nodes
<1>2. CASE a + j < NodeCount
  BY <1>1, <1>2
<1>3. CASE a + j >= NodeCount
  BY <1>1, <1>3
<1> QED BY <1>1, <1>2, <1>3

\* Steps round the ring from one node to another.
Ahead(from, to) == IF to >= from THEN to - from ELSE to - from + NodeCount

\* A call that has come to node i with k attempts behind it: every node still spared is
\* among those it has attempts left for, so the last attempt leaves none.
OnItsWay(i, k, nodes) == k < NodeCount /\ \A n \in nodes : Ahead(i, n) < NodeCount - k

FailoverInv ==
    /\ FailoverTypeOK
    /\ \A c \in Calls : /\ spared[c] \subseteq healthy
                        /\ status[c] = "calling" => OnItsWay(idx[c], attempt[c], spared[c])
    /\ FailsOnlyWhenAllDid

\* nextHealthy takes the next fit node round the ring, so it comes nearer to the others.
LEMMA NextOnRing ==
  ASSUME NEW start \in Nodes, NEW fit \in SUBSET Nodes, fit # {}
  PROVE  /\ nextHealthy(start, fit) \in fit
         /\ \A n \in fit : n # start => Ahead(nextHealthy(start, fit), n) < Ahead(start, n)
<1> PICK steps : steps = {i \in 1..NodeCount : (start + i) % NodeCount \in fit}
  OBVIOUS
<1> PICK i : i = Min(steps)
  OBVIOUS
<1>1. NodeCount \in Nat \ {0} /\ start \in Int /\ 0 <= start /\ start < NodeCount
  BY FailoverAssumption DEF Nodes
<1>2. \A n \in fit : n \in Int /\ 0 <= n /\ n < NodeCount
  BY <1>1 DEF Nodes
<1>3. ASSUME NEW n \in fit, NEW j \in 1..NodeCount, j = IF n > start THEN n - start ELSE n - start + NodeCount
      PROVE  j \in steps
  <2>1. (start + j) % NodeCount = n
    BY <1>1, <1>2, <1>3, Wrap
  <2> QED BY <2>1
<1>4. \A n \in fit : (IF n > start THEN n - start ELSE n - start + NodeCount) \in steps
  BY <1>1, <1>2, <1>3
<1>5. steps # {} /\ steps \in SUBSET Nat
  <2>1. steps \subseteq 1..NodeCount /\ 1..NodeCount \subseteq Nat
    BY <1>1
  <2>2. \E n : n \in fit
    OBVIOUS
  <2>3. steps # {}
    BY <1>4, <2>2
  <2> QED BY <2>1, <2>3
<1>6. i \in steps /\ \A j \in steps : i <= j
  BY <1>5, LeastNatural DEF Min
<1>7. nextHealthy(start, fit) = (start + i) % NodeCount
  BY DEF nextHealthy
<1>8. i \in 1..NodeCount /\ nextHealthy(start, fit) \in fit
  BY <1>6, <1>7
<1>9. nextHealthy(start, fit) = IF start + i < NodeCount THEN start + i ELSE start + i - NodeCount
  BY <1>7, <1>8, Wrap
<1>10. \A n \in fit : n # start => i <= Ahead(start, n)
  BY <1>1, <1>2, <1>4, <1>6 DEF Ahead
<1>11. ASSUME NEW n \in fit, n # start
       PROVE  Ahead(nextHealthy(start, fit), n) < Ahead(start, n)
  BY <1>1, <1>2, <1>8, <1>9, <1>10, <1>11 DEF Ahead
<1> QED BY <1>8, <1>11

\* Nodes it finds are nodes.
LEMMA NextIsNode ==
  ASSUME NEW start \in Nodes, NEW fit \in SUBSET Nodes
  PROVE  nextHealthy(start, fit) \in Nodes
<1>1. CASE fit = {}
  BY <1>1, FailoverAssumption DEF nextHealthy, Nodes
<1>2. CASE fit # {}
  BY <1>2, NextOnRing
<1> QED BY <1>1, <1>2

\* Nobody calls yet.
LEMMA FailoverInitHolds == FailoverInit => FailoverInv
  BY FailoverAssumption DEF FailoverInit, FailoverInv, FailoverTypeOK, FailsOnlyWhenAllDid, OnItsWay, Nodes

\* A call that gives a node up: the others lose it from their spared nodes too.
LEMMA TryNextKeeps ==
  ASSUME FailoverInv, NEW c \in Calls, status[c] = "calling", TryNext(c),
         latestLedger' \in [Nodes -> 0..LastLedger], primaryIndex' \in Nodes, probed' = probed
  PROVE  FailoverInv'
<1> PICK fit : fit = healthy \ {idx[c]}
  OBVIOUS
<1>1. /\ healthy \in SUBSET Nodes /\ idx \in [Calls -> Nodes] /\ attempt \in [Calls -> 0..NodeCount]
      /\ status \in [Calls -> {"idle", "calling", "threw"}] /\ spared \in [Calls -> SUBSET Nodes]
      /\ NodeCount \in Nat \ {0} /\ fit \in SUBSET Nodes
  BY FailoverAssumption DEF FailoverInv, FailoverTypeOK
<1>2. /\ healthy' = resetIfNone(fit)
      /\ spared' = [d \in Calls |-> spared[d] \ {idx[c]}]
  BY DEF TryNext
<1>3. fit \subseteq healthy' /\ healthy' \subseteq Nodes
  BY <1>1, <1>2 DEF resetIfNone
<1>4. \A d \in Calls : spared'[d] \subseteq fit /\ spared'[d] \subseteq spared[d]
  BY <1>2 DEF FailoverInv
<1>5. spared' \in [Calls -> SUBSET Nodes] /\ \A d \in Calls : spared'[d] \subseteq healthy'
  BY <1>1, <1>2, <1>3, <1>4
<1>6. \A n \in spared[c] : n \in Int /\ Ahead(idx[c], n) < NodeCount - attempt[c]
  BY <1>1 DEF FailoverInv, OnItsWay, Nodes
<1>7. CASE attempt[c] + 1 < NodeCount
  <2>1. /\ idx' = [idx EXCEPT ![c] = nextHealthy(idx[c], fit)]
        /\ attempt' = [attempt EXCEPT ![c] = attempt[c] + 1] /\ status' = status
    BY <1>7 DEF TryNext
  <2>2. nextHealthy(idx[c], fit) \in Nodes
    BY <1>1, NextIsNode
  <2>3. idx' \in [Calls -> Nodes] /\ attempt' \in [Calls -> 0..NodeCount]
    BY <1>1, <1>7, <2>1, <2>2
  <2>4. ASSUME NEW n \in spared'[c]
        PROVE  Ahead(nextHealthy(idx[c], fit), n) < NodeCount - (attempt[c] + 1)
    <3>1. n \in fit /\ n # idx[c] /\ n \in spared[c]
      BY <1>4, <2>4
    <3>2. Ahead(nextHealthy(idx[c], fit), n) < Ahead(idx[c], n)
      BY <1>1, <3>1, NextOnRing
    <3>3. idx[c] \in Int /\ n \in Int /\ nextHealthy(idx[c], fit) \in Int /\ attempt[c] \in Int
      BY <1>1, <1>6, <2>2, <3>1 DEF Nodes
    <3> QED BY <1>1, <1>6, <3>1, <3>2, <3>3 DEF Ahead
  <2>5. OnItsWay(idx'[c], attempt'[c], spared'[c])
    BY <1>1, <1>7, <2>1, <2>4 DEF OnItsWay
  <2>6. \A d \in Calls : d # c => idx'[d] = idx[d] /\ attempt'[d] = attempt[d]
    BY <1>1, <2>1
  <2>7. \A d \in Calls : status'[d] = "calling" => OnItsWay(idx'[d], attempt'[d], spared'[d])
    BY <1>4, <2>1, <2>5, <2>6 DEF FailoverInv, OnItsWay
  <2>8. FailsOnlyWhenAllDid'
    BY <1>4, <2>1 DEF FailoverInv, FailsOnlyWhenAllDid
  <2> QED BY <1>1, <1>3, <1>5, <2>1, <2>3, <2>7, <2>8 DEF FailoverInv, FailoverTypeOK
<1>8. CASE ~(attempt[c] + 1 < NodeCount)
  <2>1. /\ status' = [status EXCEPT ![c] = "threw"] /\ idx' = [idx EXCEPT ![c] = 0]
        /\ attempt' = [attempt EXCEPT ![c] = 0]
    BY <1>8 DEF TryNext, LoopEnds
  <2>2. status' \in [Calls -> {"idle", "calling", "threw"}] /\ idx' \in [Calls -> Nodes]
        /\ attempt' \in [Calls -> 0..NodeCount]
    BY <1>1, <2>1 DEF Nodes
  <2>3. spared'[c] = {}
    <3>1. SUFFICES ASSUME NEW n \in spared'[c] PROVE FALSE
      OBVIOUS
    <3>2. n \in spared[c] /\ n # idx[c] /\ n \in Int /\ idx[c] \in Int /\ attempt[c] \in Int
          /\ 0 <= n /\ idx[c] < NodeCount
      BY <1>1, <1>4, <1>6, <3>1 DEF Nodes
    <3>3. Ahead(idx[c], n) < 1
      BY <1>1, <1>6, <1>8, <3>2 DEF Ahead
    <3> QED BY <1>1, <3>2, <3>3 DEF Ahead
  <2>4. \A d \in Calls : d # c => status'[d] = status[d] /\ idx'[d] = idx[d] /\ attempt'[d] = attempt[d]
    BY <1>1, <2>1
  <2>5. \A d \in Calls : status'[d] = "calling" => OnItsWay(idx'[d], attempt'[d], spared'[d])
    BY <1>1, <1>4, <2>1, <2>4 DEF FailoverInv, OnItsWay
  <2>6. FailsOnlyWhenAllDid'
    BY <1>4, <2>3, <2>4 DEF FailoverInv, FailsOnlyWhenAllDid
  <2> QED BY <1>1, <1>3, <1>5, <2>2, <2>5, <2>6 DEF FailoverInv, FailoverTypeOK
<1> QED BY <1>7, <1>8

\* All nodes are within reach of a new call.
LEMMA BeginCallKeeps ==
  ASSUME FailoverInv, NEW c \in Calls, BeginCall(c)
  PROVE  FailoverInv'
<1> USE FailoverAssumption DEF FailoverInv, FailoverTypeOK
<1>1. /\ idx' = [idx EXCEPT ![c] = primaryIndex] /\ attempt' = [attempt EXCEPT ![c] = 0]
      /\ spared' = [spared EXCEPT ![c] = healthy] /\ status' = [status EXCEPT ![c] = "calling"]
      /\ UNCHANGED <<healthy, latestLedger, primaryIndex, probed>>
  BY DEF BeginCall
<1>2. \A n \in healthy : Ahead(primaryIndex, n) < NodeCount
  BY DEF Ahead, Nodes
<1>3. OnItsWay(primaryIndex, 0, healthy)
  BY <1>2 DEF OnItsWay
<1>4. FailoverTypeOK'
  BY <1>1
<1>5. \A d \in Calls : /\ spared'[d] \subseteq healthy'
                       /\ status'[d] = "calling" => OnItsWay(idx'[d], attempt'[d], spared'[d])
  BY <1>1, <1>3
<1>6. FailsOnlyWhenAllDid'
  BY <1>1 DEF FailsOnlyWhenAllDid
<1> QED BY <1>4, <1>5, <1>6

\* An answer ends the call, or counts as a failure of a node that lags.
LEMMA CallAnsweredKeeps ==
  ASSUME FailoverInv, NEW c \in Calls, NEW ledger \in 0..LastLedger, CallAnswered(c, ledger)
  PROVE  FailoverInv'
<1>1. /\ healthy \in SUBSET Nodes /\ idx \in [Calls -> Nodes] /\ attempt \in [Calls -> 0..NodeCount]
      /\ status \in [Calls -> {"idle", "calling", "threw"}] /\ spared \in [Calls -> SUBSET Nodes]
      /\ latestLedger \in [Nodes -> 0..LastLedger] /\ probed \subseteq Nodes
      /\ NodeCount \in Nat \ {0} /\ status[c] = "calling" /\ probed' = probed
  BY FailoverAssumption DEF FailoverInv, FailoverTypeOK, CallAnswered
<1>2. latestLedger' \in [Nodes -> 0..LastLedger]
  BY <1>1 DEF CallAnswered
<1>3. CASE TryNext(c) /\ primaryIndex' = nextHealthy(idx[c], healthy \ {idx[c]})
  <2>1. primaryIndex' \in Nodes
    BY <1>1, <1>3, NextIsNode
  <2> QED BY <1>1, <1>2, <1>3, <2>1, TryNextKeeps
<1>4. CASE /\ primaryIndex' = idx[c] /\ LoopEnds(c, "idle")
           /\ spared' = [spared EXCEPT ![c] = {}] /\ UNCHANGED healthy
  <2>1. /\ status' = [status EXCEPT ![c] = "idle"] /\ idx' = [idx EXCEPT ![c] = 0]
        /\ attempt' = [attempt EXCEPT ![c] = 0]
    BY <1>4 DEF LoopEnds
  <2>2. FailoverTypeOK'
    <3>1. status' \in [Calls -> {"idle", "calling", "threw"}] /\ attempt' \in [Calls -> 0..NodeCount]
      BY <1>1, <2>1
    <3>2. idx' \in [Calls -> Nodes] /\ spared' \in [Calls -> SUBSET Nodes]
      BY <1>1, <1>4, <2>1 DEF Nodes
    <3>3. primaryIndex' \in Nodes
      BY <1>1, <1>4
    <3> QED BY <1>1, <1>2, <1>4, <3>1, <3>2, <3>3 DEF FailoverTypeOK
  <2>3. \A d \in Calls : /\ spared'[d] \subseteq healthy'
                         /\ status'[d] = "calling" => OnItsWay(idx'[d], attempt'[d], spared'[d])
    BY <1>1, <1>4, <2>1 DEF FailoverInv
  <2>4. FailsOnlyWhenAllDid'
    BY <1>1, <1>4, <2>1 DEF FailoverInv, FailsOnlyWhenAllDid
  <2> QED BY <2>2, <2>3, <2>4 DEF FailoverInv
<1> QED BY <1>3, <1>4 DEF CallAnswered

\* The recovery poll only adds to the healthy nodes.
LEMMA ProbeKeeps ==
  ASSUME FailoverInv,
         \/ ProbeUnhealthy
         \/ \E n \in Nodes : ProbeFails(n) \/ \E ledger \in 1..LastLedger : ProbeAnswered(n, ledger)
  PROVE  FailoverInv'
<1>1. /\ UNCHANGED <<primaryIndex, status, idx, attempt, spared>>
      /\ healthy \subseteq healthy' /\ healthy' \subseteq Nodes /\ probed' \subseteq Nodes
  BY DEF ProbeUnhealthy, ProbeFails, ProbeAnswered, FailoverInv, FailoverTypeOK
<1>2. latestLedger' \in [Nodes -> 0..LastLedger]
  BY FailoverAssumption DEF ProbeUnhealthy, ProbeFails, ProbeAnswered, FailoverInv, FailoverTypeOK
<1> QED BY <1>1, <1>2 DEF FailoverInv, FailoverTypeOK, FailsOnlyWhenAllDid

\* The invariant holds in every reachable state, for any nodes and calls.
THEOREM FailoverInvariance == FailoverSpec => []FailoverInv
<1>1. ASSUME FailoverInv, [FailoverNext]_poolVars PROVE FailoverInv'
  <2> USE <1>1
  <2>1. CASE UNCHANGED poolVars
    BY <2>1 DEF poolVars, FailoverInv, FailoverTypeOK, FailsOnlyWhenAllDid
  <2>2. ASSUME NEW c \in Calls, CallFails(c) PROVE FailoverInv'
    <3>1. status[c] = "calling" /\ TryNext(c) /\ UNCHANGED <<latestLedger, primaryIndex, probed>>
      BY <2>2 DEF CallFails
    <3> QED BY <3>1, TryNextKeeps DEF FailoverInv, FailoverTypeOK
  <2> QED BY <1>1, <2>1, <2>2, BeginCallKeeps, CallAnsweredKeeps, ProbeKeeps DEF FailoverNext
<1> QED BY FailoverInitHolds, <1>1, PTL DEF FailoverSpec

\* Every state of the pool and its calls is well formed.
THEOREM FailoverTypeCorrect == FailoverSpec => []FailoverTypeOK
<1>1. FailoverInv => FailoverTypeOK
  BY DEF FailoverInv
<1> QED BY <1>1, FailoverInvariance, PTL

\* callWithFailover throws only when every node that was healthy as the call began has
\* been found unfit since, for any number of nodes and concurrent calls.
THEOREM ThrowsWhenAllDid == FailoverSpec => []FailsOnlyWhenAllDid
<1>1. FailoverInv => FailsOnlyWhenAllDid
  BY DEF FailoverInv
<1> QED BY <1>1, FailoverInvariance, PTL

-----------------------------------------------------------------------------
(* Keyset pagination: the rows in their order. *)

\* How many rows come before one.
Rank(found, s, isBackward) == Cardinality({r \in found : RowBefore(r, s, isBackward)})

\* A row has fewer before it than one that comes after it.
LEMMA RankGrows ==
  ASSUME NEW found \in SUBSET Nat, IsFiniteSet(found), NEW isBackward \in BOOLEAN,
         NEW s \in found, NEW t \in found, RowBefore(s, t, isBackward)
  PROVE  Rank(found, s, isBackward) < Rank(found, t, isBackward)
<1> PICK S : S = {r \in found : RowBefore(r, s, isBackward)}
  OBVIOUS
<1> PICK T : T = {r \in found : RowBefore(r, t, isBackward)}
  OBVIOUS
<1>1. S \subseteq T /\ s \in T /\ s \notin S
  <2>1. s \in Nat /\ t \in Nat /\ \A r \in found : r \in Nat
    OBVIOUS
  <2>2. \A r \in found : RowBefore(r, s, isBackward) => RowBefore(r, t, isBackward)
    BY <2>1 DEF RowBefore
  <2>3. ~RowBefore(s, s, isBackward)
    BY <2>1 DEF RowBefore
  <2> QED BY <2>2, <2>3
<1>2. T \subseteq found
  OBVIOUS
<1>3. IsFiniteSet(T) /\ S \in SUBSET T /\ S # T
  BY <1>1, <1>2, FS_Subset
<1>4. IsFiniteSet(S) /\ Cardinality(S) <= Cardinality(T) /\ Cardinality(S) # Cardinality(T)
  BY <1>3, FS_Subset
<1>5. Cardinality(S) \in Nat /\ Cardinality(T) \in Nat
  BY <1>3, <1>4, FS_CardinalityType
<1> QED BY <1>4, <1>5 DEF Rank

\* Ranks are below the number of rows.
LEMMA RankType ==
  ASSUME NEW found \in SUBSET Nat, IsFiniteSet(found), NEW isBackward \in BOOLEAN, NEW s \in found
  PROVE  Rank(found, s, isBackward) \in 0..(Cardinality(found) - 1)
<1> PICK S : S = {r \in found : RowBefore(r, s, isBackward)}
  OBVIOUS
<1>1. s \notin S /\ S \in SUBSET found /\ S # found
  BY DEF RowBefore
<1>2. IsFiniteSet(S) /\ Cardinality(S) <= Cardinality(found) /\ Cardinality(S) # Cardinality(found)
  BY <1>1, FS_Subset
<1>3. Cardinality(S) \in Nat /\ Cardinality(found) \in Nat
  BY <1>2, FS_CardinalityType
<1> QED BY <1>2, <1>3 DEF Rank

\* ORDER BY: every row has its place, and rows stand in their order.
LEMMA OrderedRows ==
  ASSUME NEW found \in SUBSET Nat, IsFiniteSet(found), NEW isBackward \in BOOLEAN
  PROVE  /\ Cardinality(found) \in Nat
         /\ Ordered(found, isBackward) \in [1..Cardinality(found) -> found]
         /\ \A i, j \in 1..Cardinality(found) :
              i < j => RowBefore(Ordered(found, isBackward)[i], Ordered(found, isBackward)[j], isBackward)
         /\ \A s \in found : \E i \in 1..Cardinality(found) : Ordered(found, isBackward)[i] = s
<1> PICK n : n = Cardinality(found)
  OBVIOUS
<1> DEFINE rank == [s \in found |-> Rank(found, s, isBackward)]
           o == Ordered(found, isBackward)
<1>1. n \in Nat
  BY FS_CardinalityType
<1>2. rank \in [found -> 0..(n - 1)]
  BY RankType
<1>3. \A s, t \in found : RowBefore(s, t, isBackward) => rank[s] < rank[t]
  BY RankGrows
<1>4. \A i \in 1..n : o[i] = CHOOSE s \in found : rank[s] = i - 1
  <2> TAKE i \in 1..n
  <2>1. o[i] = CHOOSE s \in found : Rank(found, s, isBackward) = i - 1
    BY DEF Ordered, Rank
  <2> QED BY <2>1
<1>5. \A g : (\A i \in 1..n : o[i] \in g) => o \in [1..n -> g]
  BY DEF Ordered
<1> HIDE DEF rank, o
<1>6. \A s, t \in found : s = t \/ RowBefore(s, t, isBackward) \/ RowBefore(t, s, isBackward)
  BY DEF RowBefore
<1>7. \A s, t \in found : rank[s] = rank[t] => s = t
  BY <1>1, <1>2, <1>3, <1>6
<1>8. rank \in Injection(found, 0..(n - 1))
  BY <1>2, <1>7 DEF Injection, IsInjective
<1>9. IsFiniteSet(0..(n - 1)) /\ Cardinality(0..(n - 1)) = n
  <2>1. 0 \in Int /\ n - 1 \in Int
    BY <1>1
  <2> QED BY <1>1, <2>1, FS_Interval
<1>10. rank \in Surjection(found, 0..(n - 1))
  BY <1>8, <1>9, FS_Injection
<1>11. \A k \in 0..(n - 1) : \E s \in found : rank[s] = k
  BY <1>10 DEF Surjection
<1>12. \A i \in 1..n : o[i] \in found /\ rank[o[i]] = i - 1
  <2> TAKE i \in 1..n
  <2>1. i - 1 \in 0..(n - 1)
    BY <1>1
  <2> QED BY <1>4, <1>11, <2>1
<1>13. o \in [1..n -> found]
  BY <1>5, <1>12
<1>14. ASSUME NEW i \in 1..n, NEW j \in 1..n, i < j PROVE RowBefore(o[i], o[j], isBackward)
  <2>1. o[i] \in found /\ o[j] \in found /\ rank[o[i]] = i - 1 /\ rank[o[j]] = j - 1
    BY <1>12
  <2>2. o[i] # o[j]
    BY <1>1, <1>14, <2>1
  <2>3. ~RowBefore(o[j], o[i], isBackward)
    <3>1. ~(rank[o[j]] < rank[o[i]])
      BY <1>14, <2>1
    <3> QED BY <1>3, <2>1, <3>1
  <2> QED BY <1>6, <2>1, <2>2, <2>3
<1>15. ASSUME NEW s \in found PROVE \E i \in 1..n : o[i] = s
  <2>1. rank[s] + 1 \in 1..n /\ (rank[s] + 1) - 1 = rank[s]
    BY <1>1, <1>2
  <2> QED BY <1>7, <1>12, <2>1
<1> QED BY <1>1, <1>13, <1>14, <1>15 DEF o

\* A response with data d: the first k of the n rows o in range, newest first, and
\* whether more follow.
Page(o, n, k, d, anchor, isBackward) ==
    /\ n \in Nat /\ k = (IF n > PageLimit THEN PageLimit ELSE n)
    /\ o \in [1..n -> InRange(anchor, isBackward)]
    /\ \A i, j \in 1..n : i < j => RowBefore(o[i], o[j], isBackward)
    /\ \A s \in InRange(anchor, isBackward) : \E i \in 1..n : o[i] = s
    /\ d \in Seq(InRange(anchor, isBackward)) /\ Len(d) = k
    /\ \A i \in 1..k : d[i] = IF isBackward THEN o[k + 1 - i] ELSE o[i]
    /\ getEventsCursor(anchor, isBackward) =
         [data        |-> d,
          hasNext     |-> k # 0 /\ (isBackward \/ n > PageLimit),
          hasPrevious |-> k # 0 /\ (IF isBackward THEN n > PageLimit ELSE anchor # NoAnchor)]

\* A response holds the rows nearest to the anchor, newest first, and the flags tell
\* whether it is followed by more.
LEMMA PageRows ==
  ASSUME feed \subseteq 1..LastSeq, NEW anchor \in Nat, NEW isBackward \in BOOLEAN
  PROVE  \E o, n, k, d : Page(o, n, k, d, anchor, isBackward)
<1> PICK found : found = InRange(anchor, isBackward)
  OBVIOUS
<1> PICK n : n = Cardinality(found)
  OBVIOUS
<1> PICK o : o = Ordered(found, isBackward)
  OBVIOUS
<1> PICK k : k = IF n > PageLimit THEN PageLimit ELSE n
  OBVIOUS
<1>1. found \in SUBSET Nat /\ IsFiniteSet(found)
  <2>1. found \subseteq 1..LastSeq /\ LastSeq \in Nat
    BY KeysetAssumption DEF InRange
  <2>2. IsFiniteSet(1..LastSeq)
    BY <2>1, FS_Interval
  <2> QED BY <2>1, <2>2, FS_Subset
<1>2. /\ n \in Nat
      /\ o \in [1..n -> found]
      /\ \A i, j \in 1..n : i < j => RowBefore(o[i], o[j], isBackward)
      /\ \A s \in found : \E i \in 1..n : o[i] = s
  BY <1>1, OrderedRows
<1>3. o \in Seq(found) /\ Len(o) = n
  BY <1>2
<1> PICK m : m = IF n > PageLimit THEN PageLimit + 1 ELSE n
  OBVIOUS
<1> PICK F : F = SubSeq(o, 1, m)
  OBVIOUS
<1>4. F = fetchRows(anchor, isBackward)
  BY <1>3 DEF fetchRows
<1>5. m \in 0..n /\ k \in 0..m /\ k \in Nat /\ m \in Nat /\ PageLimit \in Nat \ {0}
  BY <1>2, KeysetAssumption
<1>6. F \in Seq(found) /\ Len(F) = m /\ \A i \in 1..m : F[i] = o[i]
  BY <1>3, <1>5, SubSeqProperties
<1>7. n > PageLimit <=> m > PageLimit
  BY <1>2, <1>5
<1> DEFINE R == IF isBackward THEN Reverse(F) ELSE F
           data == IF m > PageLimit THEN trim(R, isBackward) ELSE R
<1>8. data \in Seq(found) /\ Len(data) = k /\ \A i \in 1..k : data[i] = IF isBackward THEN o[k + 1 - i] ELSE o[i]
  <2>1. CASE ~isBackward
    <3>1. R = F
      BY <2>1
    <3>2. CASE m > PageLimit
      <4>1. data = SubSeq(F, 1, k) /\ k = m - 1
        BY <1>5, <1>6, <1>7, <2>1, <3>1, <3>2 DEF trim
      <4> HIDE DEF data
      <4>2. SubSeq(F, 1, k) \in Seq(found) /\ Len(SubSeq(F, 1, k)) = k
            /\ \A i \in 1..k : SubSeq(F, 1, k)[i] = F[i]
        BY <1>5, <1>6, <4>1, SubSeqProperties
      <4>3. data \in Seq(found) /\ Len(data) = k /\ \A i \in 1..k : data[i] = o[i]
        BY <1>5, <1>6, <4>1, <4>2
      <4> QED BY <2>1, <4>3
    <3>3. CASE ~(m > PageLimit)
      <4>1. data = F /\ k = m
        BY <1>5, <1>7, <3>1, <3>3
      <4> HIDE DEF data
      <4> QED BY <1>6, <2>1, <4>1
    <3> QED BY <3>2, <3>3
  <2>2. CASE isBackward
    <3>1. R = [i \in 1..m |-> F[m - i + 1]]
      BY <1>6, <2>2 DEF Reverse
    <3> HIDE DEF R
    <3>2. R \in Seq(found) /\ Len(R) = m /\ \A i \in 1..m : R[i] = o[m - i + 1]
      <4>1. \A i \in 1..m : m - i + 1 \in 1..m
        BY <1>5
      <4>2. \A i \in 1..m : F[m - i + 1] \in found /\ F[m - i + 1] = o[m - i + 1]
        <5> TAKE i \in 1..m
        <5> PICK j : j = m - i + 1
          OBVIOUS
        <5>1. j \in 1..m /\ j \in 1..n
          BY <1>2, <1>5, <4>1
        <5> QED BY <1>2, <1>6, <5>1
      <4>3. R \in [1..m -> found]
        BY <3>1, <4>2
      <4>4. R \in Seq(found) /\ Len(R) = m
        BY <1>5, <4>3
      <4> QED BY <3>1, <4>2, <4>4
    <3>3. CASE m > PageLimit
      <4>1. data = Tail(R)
        BY <2>2, <3>3 DEF trim
      <4>0. k = m - 1
        BY <1>5, <1>7, <3>3
      <4> HIDE DEF data
      <4>2. R # <<>> /\ Len(R) - 1 = k
        BY <1>5, <3>2, <3>3, <4>0
      <4>3. Tail(R) \in Seq(found) /\ Len(Tail(R)) = k /\ \A i \in 1..k : Tail(R)[i] = R[i + 1]
        BY <3>2, <4>2, HeadTailProperties
      <4>4. \A i \in 1..k : i + 1 \in 1..m /\ m - (i + 1) + 1 = k + 1 - i
        BY <1>5, <4>0
      <4>5. data \in Seq(found) /\ Len(data) = k /\ \A i \in 1..k : data[i] = o[k + 1 - i]
        BY <3>2, <4>1, <4>3, <4>4
      <4> QED BY <2>2, <4>5
    <3>4. CASE ~(m > PageLimit)
      <4>1. data = R /\ k = m
        BY <1>5, <1>7, <3>4
      <4> HIDE DEF data
      <4>2. \A i \in 1..m : m - i + 1 = k + 1 - i
        BY <1>5, <4>1
      <4>3. data \in Seq(found) /\ Len(data) = k /\ \A i \in 1..k : data[i] = o[k + 1 - i]
        BY <3>2, <4>1, <4>2
      <4> QED BY <2>2, <4>3
    <3> QED BY <3>3, <3>4
  <2> QED BY <2>1, <2>2
<1>9. data # <<>> <=> k # 0
  <2> HIDE DEF data
  <2> QED BY <1>5, <1>8, EmptySeq
<1>10. getEventsCursor(anchor, isBackward) =
         [data        |-> data,
          hasNext     |-> data # <<>> /\ (isBackward \/ m > PageLimit),
          hasPrevious |-> data # <<>> /\ (IF isBackward THEN m > PageLimit ELSE anchor # NoAnchor)]
  BY <1>4, <1>6 DEF getEventsCursor, formatPageResponse
<1> HIDE DEF data
<1>11. getEventsCursor(anchor, isBackward) =
         [data        |-> data,
          hasNext     |-> k # 0 /\ (isBackward \/ n > PageLimit),
          hasPrevious |-> k # 0 /\ (IF isBackward THEN n > PageLimit ELSE anchor # NoAnchor)]
  BY <1>7, <1>9, <1>10
<1>12. k = IF n > PageLimit THEN PageLimit ELSE n
  OBVIOUS
<1>13. o \in [1..n -> InRange(anchor, isBackward)] /\ data \in Seq(InRange(anchor, isBackward))
  BY <1>2, <1>8
<1>14. \A s \in InRange(anchor, isBackward) : \E i \in 1..n : o[i] = s
  BY <1>2
<1>15. Page(o, n, k, data, anchor, isBackward)
  BY <1>2, <1>8, <1>11, <1>12, <1>13, <1>14 DEF Page
<1> QED BY <1>15

\* The response, as a set of rows: what it leaves out is farther from the anchor than its
\* last row, and the flag says that there is more.
LEMMA PageIsExact ==
  ASSUME feed \subseteq 1..LastSeq, NEW anchor \in Nat, NEW isBackward \in BOOLEAN,
         NEW answer, answer = getEventsCursor(anchor, isBackward)
  PROVE  /\ answer \in [data : BoundedSeq(1..LastSeq, PageLimit), hasNext : BOOLEAN, hasPrevious : BOOLEAN]
         /\ ToSet(answer.data) \subseteq InRange(anchor, isBackward)
         /\ answer.hasNext \/ answer.hasPrevious => answer.data # <<>>
         /\ ~isBackward =>
              /\ \A s \in ToSet(answer.data) : s >= Last(answer.data)
              /\ \A s \in InRange(anchor, isBackward) :
                   s \in ToSet(answer.data) \/ (answer.hasNext /\ s < Last(answer.data))
         /\ isBackward =>
              /\ \A s \in ToSet(answer.data) : s <= Head(answer.data)
              /\ \A s \in InRange(anchor, isBackward) :
                   s \in ToSet(answer.data) \/ (answer.hasPrevious /\ s > Head(answer.data))
<1> PICK found : found = InRange(anchor, isBackward)
  OBVIOUS
<1>1. PICK o, n, k, d : Page(o, n, k, d, anchor, isBackward)
  BY PageRows
<1>2. /\ n \in Nat /\ k = (IF n > PageLimit THEN PageLimit ELSE n)
      /\ o \in [1..n -> found]
      /\ \A i, j \in 1..n : i < j => RowBefore(o[i], o[j], isBackward)
      /\ \A s \in found : \E i \in 1..n : o[i] = s
      /\ d \in Seq(found) /\ Len(d) = k
      /\ \A i \in 1..k : d[i] = IF isBackward THEN o[k + 1 - i] ELSE o[i]
  BY <1>1 DEF Page
<1>3. /\ answer.data = d
      /\ answer.hasNext = (k # 0 /\ (isBackward \/ n > PageLimit))
      /\ answer.hasPrevious = (k # 0 /\ (IF isBackward THEN n > PageLimit ELSE anchor # NoAnchor))
  BY <1>1 DEF Page
<1>4. answer = [data |-> answer.data, hasNext |-> answer.hasNext, hasPrevious |-> answer.hasPrevious]
  BY <1>1 DEF Page
<1>5. found \subseteq 1..LastSeq /\ found \subseteq Nat
  <2>1. LastSeq \in Nat
    BY KeysetAssumption
  <2>2. found \subseteq feed
    BY DEF InRange
  <2>3. found \subseteq 1..LastSeq
    BY <2>2
  <2>4. \A x \in 1..LastSeq : x \in Nat
    BY <2>1
  <2> QED BY <2>3, <2>4
<1>6. k \in Nat /\ k <= PageLimit /\ k <= n /\ PageLimit \in Nat /\ PageLimit # 0
  BY <1>2, KeysetAssumption
<1>7. d \in [1..k -> found] /\ DOMAIN d = 1..k
  BY <1>2
<1>8. answer \in [data : BoundedSeq(1..LastSeq, PageLimit), hasNext : BOOLEAN, hasPrevious : BOOLEAN]
  <2>1. d \in [1..k -> 1..LastSeq] /\ k \in 0..PageLimit
    BY <1>5, <1>6, <1>7
  <2>2. d \in BoundedSeq(1..LastSeq, PageLimit)
    BY <2>1 DEF BoundedSeq, SeqOf
  <2>3. answer.hasNext \in BOOLEAN /\ answer.hasPrevious \in BOOLEAN
    BY <1>3
  <2> QED BY <1>3, <1>4, <2>2, <2>3
<1>9. ToSet(d) = {d[i] : i \in 1..k}
  BY <1>7 DEF ToSet
<1>10. ToSet(d) \subseteq found /\ \A i \in 1..k : d[i] \in ToSet(d)
  BY <1>7, <1>9
<1>11. k # 0 => d # <<>>
  BY <1>2
<1>12. answer.hasNext \/ answer.hasPrevious => d # <<>>
  BY <1>3, <1>11
<1>13. ASSUME ~isBackward
       PROVE  /\ \A s \in ToSet(d) : s >= Last(d)
              /\ \A s \in found : s \in ToSet(d) \/ (answer.hasNext /\ s < Last(d))
  <2>1. \A i, j \in 1..n : i < j => o[i] > o[j]
    BY <1>2, <1>13 DEF RowBefore
  <2>2. \A i \in 1..k : d[i] = o[i] /\ i \in 1..n
    BY <1>2, <1>6, <1>13
  <2>3. Last(d) = d[k]
    BY <1>2 DEF Last
  <2>4. ASSUME NEW i \in 1..k PROVE d[i] >= Last(d)
    <3>1. k \in 1..k /\ i <= k
      BY <1>6
    <3>2. d[i] = o[i] /\ d[k] = o[k] /\ i \in 1..n /\ k \in 1..n
      BY <2>2, <3>1
    <3>3. o[i] \in Nat /\ o[k] \in Nat
      BY <1>2, <1>5, <3>2
    <3>4. i = k \/ o[i] > o[k]
      BY <1>6, <2>1, <3>1, <3>2
    <3> QED BY <2>3, <3>2, <3>3, <3>4
  <2>5. ASSUME NEW s \in found PROVE s \in ToSet(d) \/ (answer.hasNext /\ s < Last(d))
    <3>1. PICK i \in 1..n : o[i] = s
      BY <1>2
    <3>2. CASE i \in 1..k
      <4>1. d[i] \in ToSet(d)
        BY <1>10, <3>2
      <4> QED BY <2>2, <3>1, <3>2, <4>1
    <3>3. CASE i \notin 1..k
      <4>1. k < i /\ n > PageLimit /\ k # 0 /\ k \in 1..k
        BY <1>2, <1>6, <3>3
      <4>2. d[k] = o[k] /\ k \in 1..n
        BY <2>2, <4>1
      <4>3. o[k] > o[i] /\ o[k] \in Nat /\ o[i] \in Nat
        BY <1>2, <1>5, <2>1, <4>1, <4>2
      <4>4. s < Last(d)
        BY <2>3, <3>1, <4>2, <4>3
      <4> QED BY <1>3, <4>1, <4>4
    <3> QED BY <3>2, <3>3
  <2> QED BY <1>9, <2>4, <2>5
<1>14. ASSUME isBackward
       PROVE  /\ \A s \in ToSet(d) : s <= Head(d)
              /\ \A s \in found : s \in ToSet(d) \/ (answer.hasPrevious /\ s > Head(d))
  <2>1. \A i, j \in 1..n : i < j => o[i] < o[j]
    BY <1>2, <1>14 DEF RowBefore
  <2>2. \A i \in 1..k : d[i] = o[k + 1 - i] /\ k + 1 - i \in 1..n /\ k + 1 - i \in 1..k
    BY <1>2, <1>6, <1>14
  <2>3. k # 0 => Head(d) = d[1]
    BY <1>2, <1>11
  <2>4. k # 0 => 1 \in 1..k /\ d[1] = o[k] /\ k \in 1..n
    <3>1. k # 0 => 1 \in 1..k /\ k + 1 - 1 = k /\ k \in 1..n
      BY <1>6
    <3> QED BY <2>2, <3>1
  <2>5. ASSUME NEW i \in 1..k PROVE d[i] <= Head(d)
    <3> PICK j : j = k + 1 - i
      OBVIOUS
    <3>1. k # 0 /\ j <= k /\ j \in 1..n /\ d[i] = o[j] /\ k \in 1..n
      BY <1>6, <2>2, <2>4
    <3>2. o[j] \in Nat /\ o[k] \in Nat /\ d[1] = o[k]
      BY <1>2, <1>5, <2>4, <3>1
    <3>3. j = k \/ o[j] < o[k]
      BY <1>6, <2>1, <3>1
    <3>4. Head(d) = o[k]
      BY <2>3, <3>1, <3>2
    <3> QED BY <3>1, <3>2, <3>3, <3>4
  <2>6. ASSUME NEW s \in found PROVE s \in ToSet(d) \/ (answer.hasPrevious /\ s > Head(d))
    <3>1. PICK i \in 1..n : o[i] = s
      BY <1>2
    <3>2. CASE i \in 1..k
      <4> PICK j : j = k + 1 - i
        OBVIOUS
      <4>1. j \in 1..k /\ k + 1 - j = i
        BY <1>6, <3>2
      <4>2. d[j] = s
        BY <2>2, <3>1, <4>1
      <4> QED BY <1>10, <4>1, <4>2
    <3>3. CASE i \notin 1..k
      <4>1. k < i /\ n > PageLimit /\ k # 0
        BY <1>2, <1>6, <3>3
      <4>2. o[k] < o[i] /\ o[k] \in Nat /\ o[i] \in Nat /\ d[1] = o[k]
        BY <1>2, <1>5, <2>1, <2>4, <4>1
      <4>3. s > Head(d)
        BY <2>3, <3>1, <4>1, <4>2
      <4> QED BY <1>3, <1>14, <4>1, <4>3
    <3> QED BY <3>2, <3>3
  <2> QED BY <1>9, <2>5, <2>6
<1> QED BY <1>3, <1>8, <1>10, <1>12, <1>13, <1>14

-----------------------------------------------------------------------------
(* Keyset pagination: walks. *)

\* A reader holds an anchor, and what it has returned lies behind it, with all the steady
\* rows there.
Behind ==
    /\ walk = "down" => /\ \A s \in seen : s >= endCursor
                        /\ \A s \in steady : s >= endCursor => s \in seen
    /\ walk = "up"   => /\ \A s \in seen : s <= startCursor
                        /\ \A s \in steady : s <= startCursor => s \in seen

KeysetIInv ==
    /\ KeysetTypeOK
    /\ page.hasNext \/ page.hasPrevious \/ walk \in {"down", "up"} => page.data # <<>>
    /\ walk = "start" => seen = {}
    /\ WalkIsExact
    /\ Behind

\* The cursors of a page that is not empty.
LEMMA PageEnds ==
  ASSUME NEW p \in [data : BoundedSeq(1..LastSeq, PageLimit), hasNext : BOOLEAN, hasPrevious : BOOLEAN],
         p.data # <<>>
  PROVE  /\ Head(p.data) \in 1..LastSeq /\ Last(p.data) \in 1..LastSeq
         /\ Head(p.data) \in ToSet(p.data) /\ Last(p.data) \in ToSet(p.data)
         /\ Head(p.data) \in Nat \ {0} /\ Last(p.data) \in Nat \ {0}
<1>1. PICK m \in 0..PageLimit : p.data \in [1..m -> 1..LastSeq]
  BY DEF BoundedSeq, SeqOf
<1>2. m \in Nat /\ p.data \in Seq(1..LastSeq) /\ Len(p.data) = m
  BY <1>1, KeysetAssumption
<1>3. m # 0 /\ Head(p.data) = p.data[1] /\ 1 \in 1..m /\ m \in 1..m
  BY <1>2
<1>4. \A s \in 1..LastSeq : s \in Nat \ {0}
  BY KeysetAssumption
<1> QED BY <1>1, <1>2, <1>3, <1>4 DEF Last, ToSet

LEMMA KeysetInitHolds == KeysetInit => KeysetIInv
<1> SUFFICES ASSUME KeysetInit PROVE KeysetIInv
  OBVIOUS
<1>1. <<>> \in BoundedSeq(1..LastSeq, PageLimit)
  <2>1. 0 \in 0..PageLimit /\ <<>> \in [1..0 -> 1..LastSeq]
    BY KeysetAssumption
  <2> QED BY <2>1 DEF BoundedSeq, SeqOf
<1>2. NoPage \in [data : BoundedSeq(1..LastSeq, PageLimit), hasNext : BOOLEAN, hasPrevious : BOOLEAN]
  BY <1>1 DEF NoPage
<1>3. feed \subseteq 1..LastSeq /\ unused \subseteq 1..LastSeq /\ 0 \in 0..MaxChanges
  BY KeysetAssumption DEF KeysetInit
<1>4. KeysetTypeOK
  BY <1>2, <1>3 DEF KeysetInit, KeysetTypeOK
<1> QED BY <1>4 DEF KeysetInit, KeysetIInv, WalkIsExact, Behind, NoPage

\* What a walk does with a page.
PageStep(anchor, isBackward, direction) ==
    /\ Receive(getEventsCursor(anchor, isBackward), direction)
    /\ UNCHANGED <<feed, unused, steady, changes>>

\* A page in the direction of the walk: all that is returned was ahead, all that is steady
\* and was passed over is in it.
LEMMA PageDown ==
  \A anchor \in Nat :
    /\ KeysetIInv /\ PageStep(anchor, FALSE, "down")
    /\ \/ anchor = NoAnchor /\ seen = {}
       \/ /\ anchor # NoAnchor
          /\ \A s \in seen : s >= anchor
          /\ \A s \in steady : s >= anchor => s \in seen
    => KeysetIInv'
<1>a. SUFFICES ASSUME NEW anchor \in Nat, KeysetIInv, PageStep(anchor, FALSE, "down"),
                      \/ anchor = NoAnchor /\ seen = {}
                      \/ /\ anchor # NoAnchor
                         /\ \A s \in seen : s >= anchor
                         /\ \A s \in steady : s >= anchor => s \in seen
               PROVE  KeysetIInv'
  OBVIOUS
<1>0. KeysetTypeOK /\ ~repeated /\ feed \subseteq 1..LastSeq /\ steady \subseteq feed /\ seen \subseteq 1..LastSeq
  BY <1>a DEF KeysetIInv, KeysetTypeOK, WalkIsExact
<1> PICK answer : answer = getEventsCursor(anchor, FALSE)
  OBVIOUS
<1> PICK found : found = InRange(anchor, FALSE)
  OBVIOUS
<1>1. /\ answer \in [data : BoundedSeq(1..LastSeq, PageLimit), hasNext : BOOLEAN, hasPrevious : BOOLEAN]
      /\ ToSet(answer.data) \subseteq found
      /\ answer.hasNext \/ answer.hasPrevious => answer.data # <<>>
      /\ \A s \in ToSet(answer.data) : s >= Last(answer.data)
      /\ \A s \in found : s \in ToSet(answer.data) \/ (answer.hasNext /\ s < Last(answer.data))
  BY <1>0, PageIsExact
<1>2. /\ page' = answer /\ seen' = seen \cup ToSet(answer.data)
      /\ repeated' = (repeated \/ ToSet(answer.data) \cap seen # {})
      /\ walk' = IF answer.hasNext THEN "down" ELSE "over"
  BY <1>a DEF PageStep, Receive
<1>3. \A s : s \in found <=> s \in feed /\ (anchor = NoAnchor \/ s < anchor)
  BY DEF InRange
<1>4. found \subseteq feed
  BY <1>3
<1>b. UNCHANGED <<feed, unused, steady, changes>>
  BY <1>a DEF PageStep
<1>5. KeysetTypeOK'
  <2>1. seen' \subseteq 1..LastSeq /\ repeated' \in BOOLEAN /\ walk' \in {"start", "down", "up", "over"}
    BY <1>0, <1>1, <1>2, <1>4
  <2> QED BY <1>0, <1>1, <1>2, <1>b, <2>1 DEF KeysetTypeOK
<1>6. \A s \in seen : s \in Nat /\ s \notin found /\ anchor # NoAnchor /\ s >= anchor
  <2> TAKE s \in seen
  <2>1. s \in Nat /\ anchor # NoAnchor /\ s >= anchor
    BY <1>a, <1>0, KeysetAssumption
  <2>2. ~(s < anchor)
    BY <2>1
  <2> QED BY <1>3, <2>1, <2>2
<1>7. ~repeated'
  BY <1>0, <1>1, <1>2, <1>6
<1>8. \A s \in steady : s \in seen \/ s \in found
  <2> TAKE s \in steady
  <2>1. s \in Nat /\ s \in feed
    BY <1>0, KeysetAssumption
  <2>2. s \in seen \/ anchor = NoAnchor \/ s < anchor
    BY <1>a, <2>1
  <2> QED BY <1>3, <2>1, <2>2
<1>9. walk' = "over" => steady' \subseteq seen'
  BY <1>1, <1>2, <1>b, <1>8
<1>10. ASSUME walk' = "down"
       PROVE  /\ answer.data # <<>>
              /\ \A s \in seen' : s >= Last(answer.data)
              /\ \A s \in steady' : s >= Last(answer.data) => s \in seen'
  <2>1. answer.data # <<>>
    BY <1>1, <1>2, <1>10
  <2>p. PICK last : last = Last(answer.data)
    OBVIOUS
  <2>2. last \in found
    BY <1>1, <2>1, <2>p, PageEnds
  <2>t. last \in Nat
    BY <1>1, <2>1, <2>p, PageEnds
  <2>3. ASSUME NEW s \in seen' PROVE s >= last
    <3>1. CASE s \in seen
      <4>1. last < anchor
        BY <1>3, <1>6, <2>2, <3>1
      <4>2. s \in Nat /\ s >= anchor
        BY <1>6, <3>1
      <4> QED BY <2>t, <4>1, <4>2
    <3> QED BY <1>1, <1>2, <2>p, <3>1
  <2>4. ASSUME NEW s \in steady', s >= last PROVE s \in seen'
    <3>1. s \in steady /\ s \in Nat
      BY <1>0, <1>b, KeysetAssumption
    <3>2. ~(s < last)
      BY <2>t, <2>4, <3>1
    <3>3. s \in found => s \in ToSet(answer.data)
      BY <1>1, <2>p, <3>2
    <3> QED BY <1>2, <1>8, <3>1, <3>3
  <2> QED BY <2>1, <2>p, <2>3, <2>4
<1>11. endCursor' = Last(answer.data)
  BY <1>2 DEF endCursor
<1>12. WalkIsExact'
  BY <1>7, <1>9 DEF WalkIsExact
<1>13. Behind'
  BY <1>2, <1>10, <1>11 DEF Behind
<1>14. page'.hasNext \/ page'.hasPrevious \/ walk' \in {"down", "up"} => page'.data # <<>>
  BY <1>1, <1>2
<1> QED BY <1>2, <1>5, <1>12, <1>13, <1>14 DEF KeysetIInv

LEMMA PageUp ==
  \A anchor \in Nat :
    /\ KeysetIInv /\ PageStep(anchor, TRUE, "up")
    /\ anchor # NoAnchor
    /\ \A s \in seen : s <= anchor
    /\ \A s \in steady : s <= anchor => s \in seen
    => KeysetIInv'
<1>a. SUFFICES ASSUME NEW anchor \in Nat, KeysetIInv, PageStep(anchor, TRUE, "up"),
                      anchor # NoAnchor, \A s \in seen : s <= anchor,
                      \A s \in steady : s <= anchor => s \in seen
               PROVE  KeysetIInv'
  OBVIOUS
<1>0. KeysetTypeOK /\ ~repeated /\ feed \subseteq 1..LastSeq /\ steady \subseteq feed /\ seen \subseteq 1..LastSeq
  BY <1>a DEF KeysetIInv, KeysetTypeOK, WalkIsExact
<1> PICK answer : answer = getEventsCursor(anchor, TRUE)
  OBVIOUS
<1> PICK found : found = InRange(anchor, TRUE)
  OBVIOUS
<1>1. /\ answer \in [data : BoundedSeq(1..LastSeq, PageLimit), hasNext : BOOLEAN, hasPrevious : BOOLEAN]
      /\ ToSet(answer.data) \subseteq found
      /\ answer.hasNext \/ answer.hasPrevious => answer.data # <<>>
      /\ \A s \in ToSet(answer.data) : s <= Head(answer.data)
      /\ \A s \in found : s \in ToSet(answer.data) \/ (answer.hasPrevious /\ s > Head(answer.data))
  BY <1>0, PageIsExact
<1>2. /\ page' = answer /\ seen' = seen \cup ToSet(answer.data)
      /\ repeated' = (repeated \/ ToSet(answer.data) \cap seen # {})
      /\ walk' = IF answer.hasPrevious THEN "up" ELSE "over"
  BY <1>a DEF PageStep, Receive
<1>3. \A s : s \in found <=> s \in feed /\ (anchor = NoAnchor \/ s > anchor)
  BY DEF InRange
<1>4. found \subseteq feed
  BY <1>3
<1>b. UNCHANGED <<feed, unused, steady, changes>>
  BY <1>a DEF PageStep
<1>5. KeysetTypeOK'
  <2>1. seen' \subseteq 1..LastSeq /\ repeated' \in BOOLEAN /\ walk' \in {"start", "down", "up", "over"}
    BY <1>0, <1>1, <1>2, <1>4
  <2> QED BY <1>0, <1>1, <1>2, <1>b, <2>1 DEF KeysetTypeOK
<1>6. \A s \in seen : s \in Nat /\ s \notin found /\ anchor # NoAnchor /\ s <= anchor
  <2> TAKE s \in seen
  <2>1. s \in Nat /\ anchor # NoAnchor /\ s <= anchor
    BY <1>a, <1>0, KeysetAssumption
  <2>2. ~(s > anchor)
    BY <2>1
  <2> QED BY <1>3, <2>1, <2>2
<1>7. ~repeated'
  BY <1>0, <1>1, <1>2, <1>6
<1>8. \A s \in steady : s \in seen \/ s \in found
  <2> TAKE s \in steady
  <2>1. s \in Nat /\ s \in feed
    BY <1>0, KeysetAssumption
  <2>2. s \in seen \/ anchor = NoAnchor \/ s > anchor
    BY <1>a, <2>1
  <2> QED BY <1>3, <2>1, <2>2
<1>9. walk' = "over" => steady' \subseteq seen'
  BY <1>1, <1>2, <1>b, <1>8
<1>10. ASSUME walk' = "up"
       PROVE  /\ answer.data # <<>>
              /\ \A s \in seen' : s <= Head(answer.data)
              /\ \A s \in steady' : s <= Head(answer.data) => s \in seen'
  <2>1. answer.data # <<>>
    BY <1>1, <1>2, <1>10
  <2>p. PICK last : last = Head(answer.data)
    OBVIOUS
  <2>2. last \in found
    BY <1>1, <2>1, <2>p, PageEnds
  <2>t. last \in Nat
    BY <1>1, <2>1, <2>p, PageEnds
  <2>3. ASSUME NEW s \in seen' PROVE s <= last
    <3>1. CASE s \in seen
      <4>1. last > anchor
        BY <1>3, <1>6, <2>2, <3>1
      <4>2. s \in Nat /\ s <= anchor
        BY <1>6, <3>1
      <4> QED BY <2>t, <4>1, <4>2
    <3> QED BY <1>1, <1>2, <2>p, <3>1
  <2>4. ASSUME NEW s \in steady', s <= last PROVE s \in seen'
    <3>1. s \in steady /\ s \in Nat
      BY <1>0, <1>b, KeysetAssumption
    <3>2. ~(s > last)
      BY <2>t, <2>4, <3>1
    <3>3. s \in found => s \in ToSet(answer.data)
      BY <1>1, <2>p, <3>2
    <3> QED BY <1>2, <1>8, <3>1, <3>3
  <2> QED BY <2>1, <2>p, <2>3, <2>4
<1>11. startCursor' = Head(answer.data)
  BY <1>2 DEF startCursor
<1>12. WalkIsExact'
  BY <1>7, <1>9 DEF WalkIsExact
<1>13. Behind'
  BY <1>2, <1>10, <1>11 DEF Behind
<1>14. page'.hasNext \/ page'.hasPrevious \/ walk' \in {"down", "up"} => page'.data # <<>>
  BY <1>1, <1>2
<1> QED BY <1>2, <1>5, <1>12, <1>13, <1>14 DEF KeysetIInv

LEMMA KeysetStepKeeps == KeysetIInv /\ [KeysetNext]_keysetVars => KeysetIInv'
<1> SUFFICES ASSUME KeysetIInv, [KeysetNext]_keysetVars PROVE KeysetIInv'
  OBVIOUS
<1>1. /\ KeysetTypeOK
      /\ page.hasNext \/ page.hasPrevious \/ walk \in {"down", "up"} => page.data # <<>>
      /\ walk = "start" => seen = {}
      /\ WalkIsExact
      /\ Behind
  BY DEF KeysetIInv
<1>2. /\ feed \subseteq 1..LastSeq /\ steady \subseteq feed /\ unused \subseteq 1..LastSeq
      /\ page \in [data : BoundedSeq(1..LastSeq, PageLimit), hasNext : BOOLEAN, hasPrevious : BOOLEAN]
      /\ changes \in 0..MaxChanges /\ walk \in {"start", "down", "up", "over"} /\ seen \subseteq 1..LastSeq
  BY <1>1 DEF KeysetTypeOK
<1>3. CASE FirstPage
  <2>1. PageStep(NoAnchor, FALSE, "down") /\ NoAnchor \in Nat /\ seen = {}
    BY <1>1, <1>3 DEF FirstPage, PageStep, NoAnchor
  <2> QED BY <2>1, PageDown
<1>4. CASE NextPage
  <2>1. endCursor \in Nat /\ endCursor # NoAnchor
    BY <1>1, <1>2, <1>4, PageEnds DEF NextPage, endCursor, NoAnchor
  <2>2. /\ \A s \in seen : s >= endCursor
        /\ \A s \in steady : s >= endCursor => s \in seen
    BY <1>1, <1>4 DEF NextPage, Behind
  <2>3. PageStep(endCursor, FALSE, "down")
    BY <1>4 DEF NextPage, PageStep
  <2> QED BY <2>1, <2>2, <2>3, PageDown
<1>5. CASE PreviousPage
  <2>1. startCursor \in Nat /\ startCursor # NoAnchor
    BY <1>1, <1>2, <1>5, PageEnds DEF PreviousPage, startCursor, NoAnchor
  <2>2. /\ \A s \in seen : s <= startCursor
        /\ \A s \in steady : s <= startCursor => s \in seen
    BY <1>1, <1>5 DEF PreviousPage, Behind
  <2>3. PageStep(startCursor, TRUE, "up")
    BY <1>5 DEF PreviousPage, PageStep
  <2> QED BY <2>1, <2>2, <2>3, PageUp
<1>6. CASE TurnBack
  <2>1. /\ page.hasPrevious /\ page' = page /\ walk' = "up" /\ seen' = {} /\ repeated' = FALSE
        /\ steady' = {s \in feed : s > startCursor} /\ UNCHANGED <<feed, unused, changes>>
    BY <1>6 DEF TurnBack
  <2>2. page.data # <<>> /\ startCursor \in Nat
    BY <1>1, <1>2, <2>1, PageEnds DEF startCursor
  <2>3. startCursor' = startCursor
    BY <2>1 DEF startCursor
  <2>4. \A s \in steady' : ~(s <= startCursor) /\ s \in feed
    <3>1. \A s \in feed : s \in Nat
      BY <1>2, KeysetAssumption
    <3> QED BY <2>1, <2>2, <3>1
  <2>5. KeysetTypeOK'
    BY <1>1, <1>2, <2>1, <2>4 DEF KeysetTypeOK
  <2>6. WalkIsExact' /\ Behind'
    BY <2>1, <2>3, <2>4 DEF WalkIsExact, Behind
  <2> QED BY <2>1, <2>2, <2>5, <2>6 DEF KeysetIInv
<1>7. CASE RowInserted
  <2>1. PICK s \in unused : feed' = feed \cup {s} /\ unused' = unused \ {s}
    BY <1>7 DEF RowInserted
  <2>2. changes' \in 0..MaxChanges /\ UNCHANGED <<page, walk, seen, repeated, steady>>
    BY <1>2, <1>7, KeysetAssumption DEF RowInserted, TableChange
  <2>3. KeysetTypeOK'
    BY <1>1, <1>2, <2>1, <2>2 DEF KeysetTypeOK
  <2>4. WalkIsExact' /\ Behind'
    BY <1>1, <2>2 DEF WalkIsExact, Behind, startCursor, endCursor
  <2> QED BY <1>1, <2>2, <2>3, <2>4 DEF KeysetIInv
<1>8. CASE RowRemoved
  <2>1. PICK s \in feed : feed' = feed \ {s} /\ steady' = steady \ {s}
    BY <1>8 DEF RowRemoved
  <2>2. changes' \in 0..MaxChanges /\ UNCHANGED <<unused, page, walk, seen, repeated>>
    BY <1>2, <1>8, KeysetAssumption DEF RowRemoved, TableChange
  <2>3. KeysetTypeOK'
    BY <1>1, <1>2, <2>1, <2>2 DEF KeysetTypeOK
  <2>4. WalkIsExact' /\ Behind'
    BY <1>1, <2>1, <2>2 DEF WalkIsExact, Behind, startCursor, endCursor
  <2> QED BY <1>1, <2>2, <2>3, <2>4 DEF KeysetIInv
<1>9. CASE UNCHANGED keysetVars
  BY <1>1, <1>9 DEF keysetVars, KeysetIInv, KeysetTypeOK, WalkIsExact, Behind, startCursor, endCursor
<1> QED BY <1>3, <1>4, <1>5, <1>6, <1>7, <1>8, <1>9 DEF KeysetNext

LEMMA KeysetInvariance == KeysetSpec => []KeysetIInv
<1>1. KeysetIInv /\ UNCHANGED keysetVars => KeysetIInv'
  BY KeysetStepKeeps
<1> QED BY KeysetInitHolds, KeysetStepKeeps, PTL DEF KeysetSpec

\* Types: a response has at most limit rows (getEventsCursor drops the extra one in both
\* directions), and the rows a walk is held to are in the table.
THEOREM KeysetTypes == KeysetSpec => []KeysetTypeOK
<1>1. KeysetIInv => KeysetTypeOK
  BY DEF KeysetIInv
<1> QED BY <1>1, KeysetInvariance, PTL

\* "Returns a stable page of decoded events": for any table, page size and number of
\* rows inserted and removed under the reader, a walk returns no row twice, and misses
\* none that was there all the time.
THEOREM WalksAreExact == KeysetSpec => []WalkIsExact
<1>1. KeysetIInv => WalkIsExact
  BY DEF KeysetIInv
<1> QED BY <1>1, KeysetInvariance, PTL

-----------------------------------------------------------------------------
(* CacheLayer *)

CacheValues == {None} \cup 0..LastVersion
CacheCallStates == [at : {"idle", "asking", "loading", "loaded", "storing"},
                    on : Instances \cup {"none"}, value : CacheValues]
EvictionStates == [at : {"done", "due", "deleting", "publishing"}, on : Instances \cup {"none"}]

\* A call's place, its instance and the value in hand.
LEMMA CallKeepsType ==
  ASSUME call \in [CacheCalls -> CacheCallStates], NEW c \in CacheCalls,
         NEW place \in {"idle", "asking", "loading", "loaded", "storing"},
         NEW i \in Instances \cup {"none"}, NEW value \in CacheValues, Call(c, place, i, value)
  PROVE  call' \in [CacheCalls -> CacheCallStates]
<1>1. [at |-> place, on |-> i, value |-> value] \in CacheCallStates
  BY DEF CacheCallStates
<1> QED BY <1>1 DEF Call

\* Every variable of the cache keeps to its type: no entry, in hand or stored, is of a
\* version that the source never had.
THEOREM CacheTypeCorrect == CacheSpec => []CacheTypeOK
<1>1. CacheTypeOK <=> /\ rows \in 0..LastVersion /\ l1 \in [Instances -> CacheValues] /\ l2 \in CacheValues
                      /\ call \in [CacheCalls -> CacheCallStates]
                      /\ recomputing \subseteq Instances /\ news \subseteq Instances
                      /\ eviction \in [1..LastVersion -> EvictionStates]
                      /\ cacheFaults \in 0..MaxCacheFaults
  BY DEF CacheTypeOK, CacheValues, CacheCallStates, EvictionStates
<1>2. LastVersion \in Nat /\ MaxCacheFaults \in Nat
  BY CacheAssumption
<1>3. None \in CacheValues /\ 0..LastVersion \subseteq CacheValues
  BY DEF CacheValues
<1>4. NoCall \in CacheCallStates /\ Settled \in EvictionStates
  BY <1>3 DEF NoCall, Settled, CacheCallStates, EvictionStates
<1>5. CacheInit => CacheTypeOK
  BY <1>1, <1>2, <1>3, <1>4 DEF CacheInit
<1> DEFINE OK == /\ rows \in 0..LastVersion /\ l1 \in [Instances -> CacheValues] /\ l2 \in CacheValues
                 /\ call \in [CacheCalls -> CacheCallStates]
                 /\ recomputing \subseteq Instances /\ news \subseteq Instances
                 /\ eviction \in [1..LastVersion -> EvictionStates]
                 /\ cacheFaults \in 0..MaxCacheFaults
<1>6. ASSUME OK, CacheNext PROVE OK'
  <2>1. \A i, v : v \in CacheValues => [l1 EXCEPT ![i] = v] \in [Instances -> CacheValues]
    BY <1>6
  <2>2. CacheFault => cacheFaults' \in 0..MaxCacheFaults
    BY <1>2, <1>6 DEF CacheFault
  <2>3. ASSUME NEW c \in CacheCalls,
               \/ \E i \in Instances : Lookup(c, i)
               \/ CallStep(c) \/ AnswerFails(c) \/ LoadFails(c) \/ StoreFails(c)
        PROVE  OK'
    <3>1. call[c].on \in Instances \cup {"none"} /\ call[c].value \in CacheValues /\ rows \in CacheValues
      BY <1>3, <1>6 DEF CacheCallStates
    <3>2. /\ \/ \E i \in Instances : Call(c, "asking", i, None) \/ Call(c, "loading", i, None)
             \/ Call(c, "loading", call[c].on, None) \/ Call(c, "loaded", call[c].on, rows)
             \/ Call(c, "storing", call[c].on, call[c].value)
             \/ call' = [call EXCEPT ![c] = NoCall]
      BY <2>3 DEF Lookup, CallStep, Answer, AnswerFails, Load, LoadFails, StoreL1, StoreL2, StoreFails, Return
    <3>3. [call EXCEPT ![c] = NoCall] \in [CacheCalls -> CacheCallStates]
      BY <1>4, <1>6
    <3>4. call' \in [CacheCalls -> CacheCallStates]
      BY <1>3, <1>6, <3>1, <3>2, <3>3, CallKeepsType
    <3>5. /\ l1' = l1 \/ l1' = [l1 EXCEPT ![call[c].on] = l2] \/ l1' = [l1 EXCEPT ![call[c].on] = call[c].value]
          /\ l2' \in {l2, call[c].value}
      BY <2>3 DEF Lookup, CallStep, Answer, AnswerFails, Load, LoadFails, StoreL1, StoreL2, StoreFails
    <3>6. l1' \in [Instances -> CacheValues] /\ l2' \in CacheValues
      BY <1>6, <2>1, <3>1, <3>5
    <3>7. /\ recomputing' \subseteq recomputing \cup Instances
          /\ UNCHANGED cacheFaults \/ CacheFault
          /\ UNCHANGED <<rows, eviction, news>>
      BY <2>3 DEF Lookup, CallStep, Answer, AnswerFails, Load, LoadFails, StoreL1, StoreL2, StoreFails, Return
    <3> QED BY <1>6, <2>2, <3>4, <3>6, <3>7
  <2>4. ASSUME NEW i \in Instances, CommitWrite(i) PROVE OK'
    <3>1. [at |-> "due", on |-> i] \in EvictionStates
      BY DEF EvictionStates
    <3> QED BY <1>2, <1>6, <2>4, <3>1 DEF CommitWrite
  <2>5. ASSUME NEW i \in Instances, HearInvalidation(i) \/ LoseInvalidation(i) \/ L1Expires(i) PROVE OK'
    <3>1. /\ l1' = l1 \/ l1' = [l1 EXCEPT ![i] = None]
          /\ news' \subseteq news
          /\ UNCHANGED cacheFaults \/ CacheFault
          /\ UNCHANGED <<rows, l2, call, recomputing, eviction>>
      BY <2>5 DEF HearInvalidation, LoseInvalidation, L1Expires
    <3> QED BY <1>3, <1>6, <2>1, <2>2, <3>1
  <2>6. ASSUME NEW i \in Instances, Restart(i) PROVE OK'
    <3>1. call' \in [CacheCalls -> CacheCallStates]
      BY <1>4, <1>6, <2>6 DEF Restart
    <3>2. eviction' \in [1..LastVersion -> EvictionStates]
      BY <1>4, <1>6, <2>6 DEF Restart
    <3>3. /\ l1' = [l1 EXCEPT ![i] = None] /\ recomputing' \subseteq recomputing /\ news' \subseteq news
          /\ CacheFault /\ UNCHANGED <<rows, l2>>
      BY <2>6 DEF Restart
    <3> QED BY <1>3, <1>6, <2>1, <2>2, <3>1, <3>2, <3>3
  <2>7. ASSUME NEW v \in 1..LastVersion, EvictL1(v) \/ EvictL2(v) \/ Publish(v) \/ EvictionFails(v) PROVE OK'
    <3>1. \A place \in {"deleting", "publishing"} :
            [eviction EXCEPT ![v].at = place] \in [1..LastVersion -> EvictionStates]
      BY <1>6 DEF EvictionStates
    <3>2. [eviction EXCEPT ![v] = Settled] \in [1..LastVersion -> EvictionStates]
      BY <1>4, <1>6
    <3>3. eviction' \in { [eviction EXCEPT ![v].at = "deleting"], [eviction EXCEPT ![v].at = "publishing"],
                          [eviction EXCEPT ![v] = Settled] }
      BY <2>7 DEF EvictL1, EvictL2, Publish, EvictionFails
    <3>4. eviction' \in [1..LastVersion -> EvictionStates]
      BY <3>1, <3>2, <3>3
    <3>5. /\ l1' = l1 \/ l1' = [l1 EXCEPT ![eviction[v].on] = None]
          /\ l2' \in {l2, None} /\ news' \subseteq news \cup Instances
          /\ UNCHANGED cacheFaults \/ CacheFault
          /\ UNCHANGED <<rows, call, recomputing>>
      BY <2>7 DEF EvictL1, EvictL2, Publish, EvictionFails
    <3> QED BY <1>3, <1>6, <2>1, <2>2, <3>4, <3>5
  <2>8. CASE L2Expires
    BY <1>3, <1>6, <2>8 DEF L2Expires
  <2> QED BY <1>6, <2>3, <2>4, <2>5, <2>6, <2>7, <2>8 DEF CacheNext
<1>7. CacheTypeOK /\ [CacheNext]_cacheVars => CacheTypeOK'
  <2>1. CacheTypeOK /\ UNCHANGED cacheVars => CacheTypeOK'
    BY DEF CacheTypeOK, cacheVars
  <2>2. CacheTypeOK' <=> OK'
    BY DEF CacheTypeOK, CacheValues, CacheCallStates, EvictionStates
  <2> QED BY <1>1, <1>6, <2>1, <2>2
<1> QED BY <1>5, <1>7, PTL DEF CacheSpec

-----------------------------------------------------------------------------
(* All of them side by side. *)

\* A behaviour of the services side by side is one of each of them.
LEMMA EachService ==
  ASSUME [ServicesNext]_servicesVars
  PROVE  /\ [LimiterNext]_limiterVars /\ [MigrationsNext]_migrationVars /\ [CacheNext]_cacheVars
         /\ [KeysetNext]_keysetVars /\ [FailoverNext]_poolVars /\ [Next]_vars
BY Zenon DEF ServicesNext, servicesVars

\* Each variable of the services keeps to its type, whichever of them runs.
THEOREM ServicesTypeCorrect == ServicesSpec => []ServicesTypeOK
<1>1. ServicesInit => LimiterInit /\ MigrationsInit /\ CacheInit /\ KeysetInit /\ FailoverInit /\ Init
  BY DEF ServicesInit
<1>2. [ServicesNext]_servicesVars => /\ [LimiterNext]_limiterVars /\ [MigrationsNext]_migrationVars
                                     /\ [CacheNext]_cacheVars /\ [KeysetNext]_keysetVars
                                     /\ [FailoverNext]_poolVars /\ [Next]_vars
  BY EachService
<1>3. ServicesSpec => LimiterSpec /\ MigrationsSpec /\ CacheSpec /\ KeysetSpec /\ FailoverSpec /\ Spec
  BY <1>1, <1>2, PTL DEF ServicesSpec, LimiterSpec, MigrationsSpec, CacheSpec, KeysetSpec, FailoverSpec, Spec
<1>4. /\ LimiterTypeOK /\ MigrationsTypeOK /\ CacheTypeOK /\ KeysetTypeOK /\ FailoverTypeOK /\ TypeOK
      => ServicesTypeOK
  BY DEF ServicesTypeOK
<1> QED BY <1>3, <1>4, LimiterTypeCorrect, MigrationsTypeCorrect, CacheTypeCorrect, KeysetTypes,
           FailoverTypeCorrect, TypeCorrect, PTL
=============================================================================
