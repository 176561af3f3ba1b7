----------------------------- MODULE FoldLemmas -----------------------------
(***************************************************************************)
(* What the proofs need of finite data and the library's fold: induction   *)
(* as facts about sets, the function by which a fold is defined, and sums. *)
(***************************************************************************)
EXTENDS Integers, Functions, FiniteSets, FiniteSetsExt, FiniteSetTheorems, NaturalsInduction, WellFoundedInduction, TLAPS

\* A nonempty set of naturals has a least element.
LEMMA LeastNatural ==
  ASSUME NEW S \in SUBSET Nat, S # {}
  PROVE  \E m \in S : \A k \in S : m <= k
<1>1. IsWellFoundedOn({ss \in Nat \X Nat : ss[1] < ss[2]}, Nat)
  BY NatLessThanWellFounded DEF OpToRel
<1> PICK R : R = {ss \in Nat \X Nat : ss[1] < ss[2]}
  OBVIOUS
<1>2. PICK m \in S : \A k \in S : <<k, m>> \notin R
  BY <1>1, WFMin
<1>3. ASSUME NEW k \in S, k < m PROVE FALSE
  <2> PICK pair : pair = <<k, m>>
    OBVIOUS
  <2>1. pair \in Nat \X Nat /\ pair[1] < pair[2]
    BY <1>3
  <2> QED BY <1>2, <2>1
<1> QED BY <1>3

\* A set of naturals that holds zero and every successor holds all of them.
LEMMA EveryNatural ==
  ASSUME NEW G \in SUBSET Nat, 0 \in G, \A n \in G : n + 1 \in G
  PROVE  G = Nat
<1> SUFFICES ASSUME Nat \ G # {} PROVE FALSE
  OBVIOUS
<1> PICK B : B = Nat \ G
  OBVIOUS
<1>1. PICK m \in B : \A k \in B : m <= k
  BY LeastNatural
<1>2. m \in Nat /\ m # 0 /\ m - 1 \in Nat
  OBVIOUS
<1>3. m - 1 \in G
  BY <1>1, <1>2
<1> QED BY <1>2, <1>3

\* A nonempty set of naturals with a bound has a greatest element.
LEMMA GreatestNatural ==
  ASSUME NEW n \in Nat, NEW S \in SUBSET (0..n), S # {}
  PROVE  \E m \in S : \A k \in S : k <= m
<1> PICK B : B = {b \in Nat : \A k \in S : k <= b}
  OBVIOUS
<1>1. n \in B
  OBVIOUS
<1>2. PICK m \in B : \A b \in B : m <= b
  <2>1. B \in SUBSET Nat /\ B # {}
    BY <1>1
  <2> QED BY <2>1, LeastNatural
<1>3. CASE m = 0
  <2>1. \A k \in S : k = 0
    BY <1>2, <1>3
  <2> QED BY <1>3, <2>1
<1>4. CASE m # 0 /\ m \notin S
  <2>1. m - 1 \in B
    BY <1>4
  <2> QED BY <1>2, <2>1
<1> QED BY <1>3, <1>4

\* Among sets of elements of a finite set there is one that none of the others is
\* part of: where a smallest counterexample comes from.
LEMMA MinimalSet ==
  ASSUME NEW S, IsFiniteSet(S), NEW B \in SUBSET SUBSET S, B # {}
  PROVE  \E T \in B : \A U \in B : ~(U \subseteq T /\ U # T)
<1>1. B \subseteq FiniteSubsetsOf(S)
  BY FS_Subset DEF FiniteSubsetsOf
<1>2. PICK T \in B : \A U \in B : <<U, T>> \notin StrictSubsetOrdering(S)
  BY <1>1, FS_StrictSubsetOrderingWellFounded, WFMin
<1> QED BY <1>2 DEF StrictSubsetOrdering

-----------------------------------------------------------------------------
(* A fold over S takes elements as pick says, and combines them by step.   *)

\* it gives the fold over every part of S.
IsFold(it, S, base, pick, step) ==
    \A s \in SUBSET S : it[s] = IF s = {} THEN base ELSE step[<<pick[s], it[s \ {pick[s]}]>>]

\* The recursion that defines a fold is well founded: such a function exists.
LEMMA FoldExists ==
  ASSUME NEW S, IsFiniteSet(S), NEW V, NEW base \in V, NEW step \in [S \X V -> V],
         NEW pick, \A s \in SUBSET S : s # {} => pick[s] \in s
  PROVE  \E it \in [SUBSET S -> V] : IsFold(it, S, base, pick, step)
<1> DEFINE Upto(h, n) == \A s \in SUBSET S : Cardinality(s) <= n =>
                            h[s] = IF s = {} THEN base ELSE step[<<pick[s], h[s \ {pick[s]}]>>]
           Good == {n \in Nat : \E h \in [SUBSET S -> V] : Upto(h, n)}
<1>1. \A s \in SUBSET S : IsFiniteSet(s) /\ Cardinality(s) \in Nat
  BY FS_Subset, FS_CardinalityType
<1>2. \A s \in SUBSET S : s # {} => /\ pick[s] \in s /\ s \ {pick[s]} \in SUBSET S
                                    /\ Cardinality(s \ {pick[s]}) = Cardinality(s) - 1
  BY <1>1, FS_RemoveElement
<1>3. 0 \in Good
  <2> DEFINE h == [s \in SUBSET S |-> base]
  <2>1. h \in [SUBSET S -> V]
    OBVIOUS
  <2>2. \A s \in SUBSET S : Cardinality(s) <= 0 => s = {}
    BY <1>1, FS_EmptySet
  <2>3. Upto(h, 0)
    BY <2>2
  <2> QED BY <2>1, <2>3
<1>4. ASSUME NEW n \in Good PROVE n + 1 \in Good
  <2>1. PICK h \in [SUBSET S -> V] : Upto(h, n)
    OBVIOUS
  <2> DEFINE k == [s \in SUBSET S |-> IF Cardinality(s) = n + 1 THEN step[<<pick[s], h[s \ {pick[s]}]>>] ELSE h[s]]
  <2>2. \A s \in SUBSET S : Cardinality(s) = n + 1 => s # {}
    <3>1. n \in Nat /\ n + 1 # 0
      OBVIOUS
    <3> QED BY <3>1, FS_EmptySet
  <2>3. k \in [SUBSET S -> V]
    <3> SUFFICES ASSUME NEW s \in SUBSET S
                 PROVE  (IF Cardinality(s) = n + 1 THEN step[<<pick[s], h[s \ {pick[s]}]>>] ELSE h[s]) \in V
      OBVIOUS
    <3>1. CASE Cardinality(s) = n + 1
      <4>1. pick[s] \in S /\ h[s \ {pick[s]}] \in V
        BY <1>2, <2>2, <3>1
      <4>2. <<pick[s], h[s \ {pick[s]}]>> \in S \X V
        BY <4>1
      <4> QED BY <3>1, <4>2
    <3>2. CASE Cardinality(s) # n + 1
      BY <3>2
    <3> QED BY <3>1, <3>2
  <2>4. ASSUME NEW s \in SUBSET S, Cardinality(s) <= n + 1
        PROVE  k[s] = IF s = {} THEN base ELSE step[<<pick[s], k[s \ {pick[s]}]>>]
    <3>1. s # {} => k[s \ {pick[s]}] = h[s \ {pick[s]}]
      BY <1>1, <1>2, <2>4
    <3>2. CASE Cardinality(s) = n + 1
      BY <2>2, <3>1, <3>2
    <3>3. CASE Cardinality(s) # n + 1
      <4>1. Cardinality(s) <= n
        BY <1>1, <2>4, <3>3
      <4>2. k[s] = h[s]
        BY <3>3
      <4> QED BY <2>1, <3>1, <4>1, <4>2
    <3> QED BY <3>2, <3>3
  <2>5. Upto(k, n + 1)
    BY Zenon, <2>4
  <2>6. n + 1 \in Nat
    OBVIOUS
  <2> HIDE DEF k, Upto
  <2> QED BY <2>3, <2>5, <2>6
<1>5. Cardinality(S) \in Good
  <2> HIDE DEF Good
  <2>1. Good \subseteq Nat
    BY DEF Good
  <2>2. Good = Nat
    BY <1>3, <1>4, <2>1, EveryNatural
  <2> QED BY <1>1, <2>2
<1>6. PICK h \in [SUBSET S -> V] : Upto(h, Cardinality(S))
  BY <1>5
<1>7. \A s \in SUBSET S : Cardinality(s) <= Cardinality(S)
  BY FS_Subset
<1> QED BY <1>6, <1>7 DEF IsFold
-----------------------------------------------------------------------------
(* Loops over the indexes of a sequence: folds that take the last one.     *)

\* The greatest element of 1..n.
LEMMA MaxOfInterval == ASSUME NEW n \in Nat \ {0} PROVE Max(1..n) = n /\ (1..n) \ {n} = 1..(n - 1)
<1>1. n \in 1..n /\ \A y \in 1..n : n >= y
  OBVIOUS
<1>2. \A x \in 1..n : (\A y \in 1..n : x >= y) => x = n
  BY <1>1
<1>3. Max(1..n) = n
  BY <1>1, <1>2 DEF Max
<1>4. (1..n) \ {n} = 1..(n - 1)
  OBVIOUS
<1> QED BY <1>3, <1>4

\* A nonempty set of indexes of a sequence has a greatest element.
LEMMA MaxOfIndexes == ASSUME NEW n \in Nat, NEW s \in SUBSET (1..n), s # {} PROVE Max(s) \in s
<1>1. PICK m \in s : \A k \in s : k <= m
  <2>1. s \in SUBSET (0..n)
    OBVIOUS
  <2> QED BY <2>1, GreatestNatural
<1>2. \A k \in s : k \in Int /\ m >= k
  BY <1>1
<1> QED BY <1>2 DEF Max

\* h is a loop over a sequence of length n, as a function of the indexes it has passed.
IsLoop(h, n, V, base, step) ==
    /\ h \in [SUBSET (1..n) -> V] /\ h[{}] = base
    /\ \A s \in SUBSET (1..n) : s # {} => /\ Max(s) \in 1..n /\ h[s \ {Max(s)}] \in V
                                          /\ h[s] = step[<<Max(s), h[s \ {Max(s)}]>>]

LEMMA LoopExists ==
  ASSUME NEW n \in Nat, NEW V, NEW base \in V, NEW step \in [(1..n) \X V -> V]
  PROVE  \E h : IsLoop(h, n, V, base, step)
<1> DEFINE D == 1..n
           pick == [s \in SUBSET D |-> Max(s)]
<1>1. IsFiniteSet(D)
  BY FS_Interval
<1>2. \A s \in SUBSET D : s # {} => Max(s) \in s /\ pick[s] = Max(s)
  BY MaxOfIndexes
<1> HIDE DEF D, pick
<1>3. step \in [D \X V -> V]
  BY DEF D
<1>4. PICK h \in [SUBSET D -> V] : IsFold(h, D, base, pick, step)
  <2>1. \A s \in SUBSET D : s # {} => pick[s] \in s
    BY <1>2
  <2> QED BY <1>1, <1>3, <2>1, FoldExists
<1>5. h[{}] = base
  BY <1>4 DEF IsFold
<1>6. ASSUME NEW s \in SUBSET D, s # {}
      PROVE  Max(s) \in D /\ h[s \ {Max(s)}] \in V /\ h[s] = step[<<Max(s), h[s \ {Max(s)}]>>]
  BY <1>2, <1>4, <1>6 DEF IsFold
<1> QED BY <1>4, <1>5, <1>6 DEF D, IsLoop

\* The loop's first i steps.
LEMMA LoopPrefix ==
  ASSUME NEW n \in Nat, NEW i \in 1..n
  PROVE  1..i \in SUBSET (1..n) /\ 1..i # {} /\ Max(1..i) = i /\ (1..i) \ {i} = 1..(i - 1)
<1>1. i \in Nat \ {0} /\ i <= n /\ i \in 1..i
  OBVIOUS
<1>2. 1..i \in SUBSET (1..n) /\ 1..i # {}
  BY <1>1
<1> QED BY <1>1, <1>2, MaxOfInterval

-----------------------------------------------------------------------------
(* Sums: folds with addition. *)

\* The element that a sum over s adds first.
First(s) == CHOOSE x \in s : TRUE

\* it gives the sum of fun over every set of its domain's elements.
SumsUp(it, fun) ==
    it = [s \in SUBSET DOMAIN fun |-> IF s = {} THEN 0 ELSE fun[First(s)] + it[s \ {First(s)}]]

\* SumFunction is defined by such a function, whichever CHOOSE takes.
LEMMA SumByPartialSums ==
  ASSUME NEW fun
  PROVE  SumFunction(fun) = (CHOOSE it : SumsUp(it, fun))[DOMAIN fun]
BY DEF SumFunction, SumFunctionOnSet, FoldFunctionOnSet, MapThenFoldSet, SumsUp, First

\* Such a function exists.
LEMMA PartialSumsExist ==
  ASSUME NEW S, IsFiniteSet(S), NEW fun \in [S -> Int]
  PROVE  \E it \in [SUBSET S -> Int] : SumsUp(it, fun)
<1> DEFINE pick == [s \in SUBSET S |-> First(s)]
           step == [p \in S \X Int |-> fun[p[1]] + p[2]]
<1>1. step \in [S \X Int -> Int]
  OBVIOUS
<1>2. \A s \in SUBSET S : pick[s] = First(s)
  OBVIOUS
<1>3. \A s \in SUBSET S : s # {} => First(s) \in s
  BY DEF First
<1>4. \A x \in S, v \in Int : step[<<x, v>>] = fun[x] + v
  <2> TAKE x \in S, v \in Int
  <2>1. <<x, v>> \in S \X Int /\ <<x, v>>[1] = x /\ <<x, v>>[2] = v
    OBVIOUS
  <2> QED BY <2>1
<1> HIDE DEF pick, step
<1>5. PICK it \in [SUBSET S -> Int] : IsFold(it, S, 0, pick, step)
  <2>1. \A s \in SUBSET S : s # {} => pick[s] \in s
    BY <1>2, <1>3
  <2>2. 0 \in Int
    OBVIOUS
  <2> QED BY <1>1, <2>1, <2>2, FoldExists
<1>6. \A s \in SUBSET S : it[s] = IF s = {} THEN 0 ELSE fun[First(s)] + it[s \ {First(s)}]
  <2> TAKE s \in SUBSET S
  <2>1. CASE s = {}
    BY <1>5, <2>1 DEF IsFold
  <2>2. CASE s # {}
    <3>1. it[s] = step[<<First(s), it[s \ {First(s)}]>>]
      BY <1>2, <1>5, <2>2 DEF IsFold
    <3>2. First(s) \in S /\ it[s \ {First(s)}] \in Int
      BY <1>3, <2>2
    <3> QED BY <1>4, <2>2, <3>1, <3>2
  <2> QED BY <2>1, <2>2
<1>7. it = [s \in SUBSET S |-> IF s = {} THEN 0 ELSE fun[First(s)] + it[s \ {First(s)}]]
  BY <1>6
<1> QED BY <1>7 DEF SumsUp

\* What such a function says of the subsets of S.
PartialSums(it, S, fun) ==
    /\ it \in [SUBSET S -> Int] /\ it[{}] = 0
    /\ \A s \in SUBSET S : s # {} => First(s) \in s /\ it[s] = fun[First(s)] + it[s \ {First(s)}]

\* A sum is the value at the whole set of a function that sums up all its subsets.
LEMMA SumPartial ==
  ASSUME NEW S, IsFiniteSet(S), NEW fun \in [S -> Int]
  PROVE  \E it : PartialSums(it, S, fun) /\ SumFunction(fun) = it[S]
<1>1. PICK h \in [SUBSET S -> Int] : SumsUp(h, fun)
  BY PartialSumsExist
<1> DEFINE it == CHOOSE it : SumsUp(it, fun)
<1>2. SumsUp(it, fun)
  BY <1>1
<1>3. SumFunction(fun) = it[S]
  BY SumByPartialSums
<1> HIDE DEF it
<1>4. \A s \in SUBSET S : it[s] = IF s = {} THEN 0 ELSE fun[First(s)] + it[s \ {First(s)}]
  BY <1>2 DEF SumsUp
<1>5. \A s \in SUBSET S : s # {} => First(s) \in s
  BY DEF First
<1>6. it \in [SUBSET S -> Int]
  <2>1. it \in [SUBSET S -> Int] <=> \A s \in SUBSET S : it[s] \in Int
    BY <1>2 DEF SumsUp
  <2> PICK Bad : Bad = {s \in SUBSET S : it[s] \notin Int}
    OBVIOUS
  <2> SUFFICES ASSUME Bad # {} PROVE FALSE
    BY <2>1
  <2>2. PICK s \in Bad : \A u \in Bad : ~(u \subseteq s /\ u # s)
    BY MinimalSet
  <2>3. s # {} /\ s \in SUBSET S
    <3>1. s \in SUBSET S /\ it[s] \notin Int
      OBVIOUS
    <3>2. CASE s = {}
      <4>1. it[s] = 0
        BY <1>4, <3>1, <3>2
      <4> QED BY <3>1, <4>1
    <3> QED BY <3>1, <3>2
  <2>4. it[s \ {First(s)}] \in Int
    BY <1>5, <2>2, <2>3
  <2>5. fun[First(s)] \in Int
    BY <1>5, <2>3
  <2>6. it[s] = fun[First(s)] + it[s \ {First(s)}]
    BY <1>4, <2>3
  <2>7. it[s] \in Int
    BY <2>4, <2>5, <2>6
  <2> QED BY <2>7
<1> QED BY <1>3, <1>4, <1>5, <1>6 DEF PartialSums

\* One summand changes and the sum changes by as much.
LEMMA SumChange ==
  ASSUME NEW S, IsFiniteSet(S), NEW f \in [S -> Int], NEW g \in [S -> Int], NEW c \in S,
         \A x \in S : x # c => g[x] = f[x]
  PROVE  /\ SumFunction(f) \in Int
         /\ SumFunction(g) = SumFunction(f) + g[c] - f[c]
<1>1. PICK F : PartialSums(F, S, f) /\ SumFunction(f) = F[S]
  BY SumPartial
<1>2. PICK G : PartialSums(G, S, g) /\ SumFunction(g) = G[S]
  BY SumPartial
<1> USE DEF PartialSums
<1> PICK Bad : Bad = {s \in SUBSET S : G[s] # F[s] + (IF c \in s THEN g[c] - f[c] ELSE 0)}
  OBVIOUS
<1>3. Bad = {}
  <2>1. SUFFICES ASSUME Bad # {} PROVE FALSE
    OBVIOUS
  <2>2. PICK s \in Bad : \A u \in Bad : ~(u \subseteq s /\ u # s)
    BY <2>1, MinimalSet
  <2>3. s # {} /\ s \in SUBSET S
    <3>1. s \in SUBSET S /\ G[s] # F[s] + (IF c \in s THEN g[c] - f[c] ELSE 0)
      OBVIOUS
    <3>2. CASE s = {}
      <4>1. F[s] = 0 /\ G[s] = 0 /\ c \notin s
        BY <1>1, <1>2, <3>2
      <4> QED BY <3>1, <4>1
    <3> QED BY <3>1, <3>2
  <2> DEFINE x == First(s)
  <2>4. x \in s /\ x \in S /\ s \ {x} \in SUBSET S
    BY <1>1, <2>3
  <2>5. G[s \ {x}] = F[s \ {x}] + (IF c \in s \ {x} THEN g[c] - f[c] ELSE 0)
    <3>1. s \ {x} \notin Bad
      BY <2>2, <2>4
    <3> HIDE DEF x
    <3> QED BY <2>4, <3>1
  <2>6. G[s] = g[x] + G[s \ {x}] /\ F[s] = f[x] + F[s \ {x}]
    BY <1>1, <1>2, <2>3
  <2> HIDE DEF x
  <2>7. /\ f[x] \in Int /\ g[x] \in Int /\ F[s \ {x}] \in Int /\ G[s \ {x}] \in Int
        /\ g[c] \in Int /\ f[c] \in Int
    BY <1>1, <1>2, <2>4
  <2>8. CASE x = c
    BY <2>3, <2>4, <2>5, <2>6, <2>7, <2>8
  <2>9. CASE x # c
    BY <2>3, <2>4, <2>5, <2>6, <2>7, <2>9
  <2> QED BY <2>8, <2>9
<1>4. S \notin Bad
  BY <1>3
<1>5. G[S] = F[S] + g[c] - f[c]
  <2>1. F[S] \in Int /\ g[c] \in Int /\ f[c] \in Int
    BY <1>1
  <2> QED BY <1>4, <2>1
<1> QED BY <1>1, <1>2, <1>5

\* Nothing adds up to nothing.
LEMMA SumZero ==
  ASSUME NEW S, IsFiniteSet(S), NEW f \in [S -> Int], \A x \in S : f[x] = 0
  PROVE  SumFunction(f) = 0
<1>1. PICK F : PartialSums(F, S, f) /\ SumFunction(f) = F[S]
  BY SumPartial
<1> USE DEF PartialSums
<1> PICK Bad : Bad = {s \in SUBSET S : F[s] # 0}
  OBVIOUS
<1>2. SUFFICES ASSUME Bad # {} PROVE FALSE
  BY <1>1
<1>3. PICK s \in Bad : \A u \in Bad : ~(u \subseteq s /\ u # s)
  BY <1>2, MinimalSet
<1>4. s # {} /\ s \in SUBSET S
  BY <1>1
<1>5. First(s) \in s /\ F[s] = f[First(s)] + F[s \ {First(s)}]
  BY <1>1, <1>4
<1>6. F[s \ {First(s)}] = 0
  BY <1>3, <1>4, <1>5
<1> QED BY <1>3, <1>4, <1>5, <1>6
=============================================================================
