------------------------------ MODULE Queries_proofs ------------------------------
(* What reading the store gives, for every set of checks, windows and any       *)
(* number of processes: the answers of Queries, and the files of DayFile.       *)
EXTENDS MCResultsStore, ResultsStore_proofs, FiniteSetTheorems, WellFoundedInduction

--------------------------------------------------------------------------------
(* Flags *)

\* Every step keeps the copies of a check that is not extra plain.
LEMMA FlagsStep == StoreInv /\ FlagsKept /\ [Next]_vars => FlagsKept'
<1> SUFFICES ASSUME StoreInv, FlagsKept, [Next]_vars, NEW c \in Check \ Extra
             PROVE  results'[c]["extra"] = 0
  BY DEF FlagsKept
<1>1. TypeOK /\ results[c]["extra"] = 0
  BY DEF StoreInv, FlagsKept
<1>2. "extra" \in Flag
  BY DEF Flag
<1>3. ASSUME results' = Empty
      PROVE  results'[c]["extra"] = 0
  BY <1>2, <1>3 DEF Empty, NoCopies
<1>4. CASE Tick \/ (\E d \in Check : Measure(d)) \/ UNCHANGED vars
  BY <1>1, <1>4 DEF Tick, Measure, vars, store
<1>5. CASE NewLeader
  <2>1. LoadIntoMemory
    BY <1>5 DEF NewLeader
  <2>2. results'[c] = [x \in Flag |->
          IF x = "plain" /\ OnFile(c) /\ Recent(c) THEN Copies(disk, c) ELSE 0]
    BY <2>1 DEF LoadIntoMemory
  <2>3. QED
    BY <1>2, <2>2
<1>6. CASE Exit \/ \E F \in SUBSET Batch : Crash(F)
  BY <1>3, <1>6 DEF Exit, Crash, Forget
<1>7. CASE \E S \in SUBSET Measured : Submit(S)
  <2>1. PICK S \in SUBSET Measured : Submit(S)
    BY <1>7
  <2>2. results'[c] = IF c \in S THEN [results[c] EXCEPT !["plain"] = @ + 1] ELSE results[c]
    BY <2>1 DEF Submit, FlagOf
  <2>3. QED
    BY <1>1, <2>2
<1>8. CASE \E F \in SUBSET Batch : FlushTick(F) \/ Stop(F)
  <2>1. PICK F \in SUBSET Batch : FlushOnce(F)
    BY <1>8 DEF FlushTick, Stop
  <2>2. results' = results \/ results'[c] = IF Recent(c) THEN results[c] ELSE NoCopies
    BY <2>1 DEF FlushOnce, MoveOld, store
  <2>3. QED
    BY <1>1, <1>2, <2>2 DEF NoCopies
<1>9. QED
  BY <1>4, <1>5, <1>6, <1>7, <1>8 DEF Next

\* With synchronised clocks the invariant of the store holds with the flags.
LEMMA FlagsInvariant ==
  ASSUME Skew = 0
  PROVE  Spec => [](StoreInv /\ SyncedInv /\ FlagsKept)
<1>1. Init => FlagsKept
  <2>1. \A c \in Check : Empty[c]["extra"] = 0
    BY DEF Empty, NoCopies, Flag
  <2>2. QED
    BY <2>1 DEF Init, FlagsKept
<1>2. QED
  BY <1>1, FlagsStep, SyncedInvariant, PTL DEF Spec

--------------------------------------------------------------------------------
(* The answer for the last 90 minutes *)

\* With synchronised clocks, a success of the last 90 minutes that was answered
\* 202 and is not excused is listed and makes its pair good, across every crash
\* and restart.
THEOREM StatusIsKept ==
  ASSUME Skew = 0
  PROVE  Spec => []StatusSurvives
<1>1. StoreInv /\ SyncedInv /\ FlagsKept => StatusSurvives
  <2> SUFFICES ASSUME StoreInv, SyncedInv, FlagsKept, phase /= "down",
                      NEW c \in Check \ Extra, NEW good \in {PingOK, HTTPOK},
                      Src[c] /= Dst[c], c \in good, acked[c] > 0, c \notin Excused,
                      stamp[c] >= now - PairWindow
               PROVE  /\ Query90m(c) > 0
                      /\ <<Src[c], Dst[c], good>> \in Statuses({Src[c], Dst[c]})
    BY DEF StatusSurvives
  <2>1. /\ TypeOK /\ stamp[c] \in Nat /\ now \in Nat
        /\ PairWindow \in Nat /\ Window \in Nat /\ Retention \in Nat
        /\ PairWindow <= Window /\ Window <= Retention
    BY StoreAssumption, QueriesAssumption DEF StoreInv, TypeOK
  <2>2. stamp[c] >= now - Window /\ stamp[c] >= now - Retention
    BY <2>1
  <2>3. /\ Copies(results, c) \in Nat /\ dayAggregates[c] \in Nat /\ base[c] \in Nat
        /\ results[c]["plain"] \in Nat
    BY <2>1, Counts, CopiesNat DEF TypeOK
  <2>4. base[c] > 0
    BY <2>2 DEF SyncedInv, DurableIsLoaded
  <2>5. dayAggregates[c] = 0
    <3>1. dayAggregates[c] > 0 => stamp[c] < now - Window
      BY DEF StoreInv, OnlyOldAggregated
    <3>2. QED
      BY <2>1, <2>2, <2>3, <3>1
  <2>6. Copies(results, c) > 0
    BY <2>3, <2>4, <2>5 DEF StoreInv, MemoryConserved
  <2>7. results[c]["plain"] > 0
    BY <2>3, <2>6 DEF FlagsKept, Copies
  <2>8. Query90m(c) > 0
    BY <2>6 DEF Query90m
  <2>9. c \in Of(Src[c], Dst[c]) \cap good \cap PairEvidence
    BY <2>7 DEF Of, PairEvidence
  <2>10. checkPairStatus(Src[c], Dst[c], good)
    BY <2>9 DEF checkPairStatus
  <2>11. QED
    BY <2>8, <2>10 DEF Statuses
<1>2. QED
  BY <1>1, FlagsInvariant, PTL

--------------------------------------------------------------------------------
(* Percentages *)

\* What integer division computes.
LEMMA Division ==
  ASSUME NEW a \in Nat, NEW b \in Nat \ {0}
  PROVE  /\ a \div b \in Nat
         /\ b * (a \div b) <= a
         /\ a < b * (a \div b) + b
BY Z3T(30)

\* A bucket of fewer than 2000 checks with a success and a failure is shown
\* neither as 100 % nor as 0 %.
LEMMA MixedIsShown ==
  ASSUME NEW n \in Nat, NEW ok \in Nat, 0 < ok, ok < n, n < 2000
  PROVE  0 < safePct(ok, n) /\ safePct(ok, n) < 1000
<1> DEFINE q == safePct(ok, n)
<1>1. n \in Nat \ {0} /\ ok \in Nat \ {0} /\ ok + 1 <= n /\ n < 2000
  OBVIOUS
<1>2. q = (2000 * ok + n) \div (2 * n)
  BY <1>1 DEF safePct
<1> HIDE DEF q
<1>3. q \in Nat /\ 2 * n * q <= 2000 * ok + n /\ 2000 * ok + n < 2 * n * q + 2 * n
  <2> DEFINE a == 2000 * ok + n
             b == 2 * n
  <2>1. a \in Nat /\ b \in Nat \ {0} /\ q = a \div b
    BY <1>1, <1>2
  <2>2. q \in Nat /\ b * q <= a /\ a < b * q + b
    <3> HIDE DEF a, b
    <3>1. QED
      BY <2>1, Division
  <2>3. QED
    BY <2>2
<1>4. q /= 0
  BY <1>1, <1>3
<1>5. q < 1000
  <2> SUFFICES ASSUME q >= 1000 PROVE FALSE
    BY <1>3
  <2>1. n * q >= n * 1000
    BY <1>1, <1>3, Z3T(30)
  <2>2. QED
    BY <1>1, <1>3, <2>1
<1>6. 0 < q /\ q < 1000
  BY <1>3, <1>4, <1>5
<1>7. QED
  BY <1>6 DEF q

\* Rounding hides no failure and no success in a bucket of fewer than 2000 checks.
THEOREM RoundingShows == Spec => []FailureShows
<1>1. HidingBelow2000 = {}
  <2> SUFFICES ASSUME NEW n \in 1..1999
               PROVE  safePct(n - 1, n) /= 1000 /\ safePct(1, n) /= 0
    BY DEF HidingBelow2000, Hiding
  <2>1. CASE n = 1
    <3>1. safePct(0, 1) = 1 \div 2 /\ safePct(1, 1) = 2001 \div 2
      BY DEF safePct
    <3>2. 1 \div 2 = 0 /\ 2001 \div 2 = 1000
      OBVIOUS
    <3>3. QED
      BY <2>1, <3>1, <3>2
  <2>2. CASE n > 1
    <3>1. n \in Nat /\ n - 1 \in Nat /\ n - 1 < n /\ 0 < n - 1 /\ n < 2000
      BY <2>2
    <3>2. safePct(n - 1, n) < 1000
      BY <3>1, MixedIsShown
    <3>3. 0 < safePct(1, n)
      BY <3>1, MixedIsShown
    <3>4. QED
      BY <3>2, <3>3
  <2>3. QED
    BY <2>1, <2>2
<1>2. FailureShows
  BY <1>1 DEF FailureShows
<1>3. QED
  BY <1>2, PTL

--------------------------------------------------------------------------------
(* Induction *)

\* A set of subsets of U that has each subset whose own subsets it has, has all.
LEMMA SubsetInduction ==
  ASSUME NEW U, IsFiniteSet(U), NEW G \in SUBSET SUBSET U,
         \A T \in SUBSET U : (\A V \in SUBSET T : V /= T => V \in G) => T \in G
  PROVE  G = SUBSET U
<1> SUFFICES ASSUME G /= SUBSET U PROVE FALSE
  OBVIOUS
<1> DEFINE R == StrictSubsetOrdering(U)
           Bad == (SUBSET U) \ G
<1>1. IsWellFoundedOn(R, SUBSET U)
  <2>1. FiniteSubsetsOf(U) = SUBSET U
    BY FS_FiniteSubsetsOfFinite
  <2>2. IsWellFoundedOn(R, FiniteSubsetsOf(U))
    BY FS_StrictSubsetOrderingWellFounded
  <2> HIDE DEF R
  <2>3. QED
    BY <2>1, <2>2
<1>2. Bad \subseteq SUBSET U /\ Bad /= {}
  OBVIOUS
<1>3. \E T \in Bad : \A V \in Bad : ~(<<V, T>> \in R)
  <2> HIDE DEF R, Bad
  <2>1. QED
    BY <1>1, <1>2, WFMin
<1>4. PICK T \in Bad : \A V \in Bad : ~(<<V, T>> \in R)
  BY <1>3
<1>5. \A V \in SUBSET T : V /= T => V \in G
  BY <1>4 DEF StrictSubsetOrdering
<1>6. QED
  BY <1>4, <1>5

--------------------------------------------------------------------------------
(* Sums *)

\* h is the sum of g over each subset of U, whichever element is taken first.
IsSum(h, g, U) ==
  /\ h \in [SUBSET U -> Nat]
  /\ h[{}] = 0
  /\ \A T \in SUBSET U : \A x \in T : h[T] = g[x] + h[T \ {x}]

LEMMA SumExists ==
  ASSUME NEW U, IsFiniteSet(U), NEW g, \A x \in U : g[x] \in Nat
  PROVE  \E h : IsSum(h, g, U)
<1> DEFINE G == {T \in SUBSET U : \E h : IsSum(h, g, T)}
<1>1. ASSUME NEW T \in SUBSET U, \A V \in SUBSET T : V /= T => V \in G
      PROVE  T \in G
  <2>1. CASE T = {}
    <3> DEFINE h == [S \in {{}} |-> 0]
    <3>1. IsSum(h, g, {})
      BY DEF IsSum
    <3>2. QED
      BY <2>1, <3>1
  <2>2. CASE T /= {}
    <3>1. PICK x \in T : TRUE
      BY <2>2
    <3>2. T \ {x} \in SUBSET T /\ T \ {x} /= T
      BY <3>1
    <3>3. PICK k : IsSum(k, g, T \ {x})
      BY <1>1, <3>2
    <3>4. g[x] \in Nat
      OBVIOUS
    <3> DEFINE h == [S \in SUBSET T |-> IF x \in S THEN g[x] + k[S \ {x}] ELSE k[S]]
    <3>5. h \in [SUBSET T -> Nat]
      <4>1. \A S \in SUBSET T : S \ {x} \in SUBSET (T \ {x})
                                 /\ (x \notin S => S \in SUBSET (T \ {x}))
        OBVIOUS
      <4>2. QED
        BY <3>3, <3>4, <4>1 DEF IsSum
    <3>6. h[{}] = 0
      BY <3>3 DEF IsSum
    <3>7. ASSUME NEW S \in SUBSET T, NEW y \in S
          PROVE  h[S] = g[y] + h[S \ {y}]
      <4>1. h[S] = IF x \in S THEN g[x] + k[S \ {x}] ELSE k[S]
        OBVIOUS
      <4>2. h[S \ {y}] = IF x \in S \ {y} THEN g[x] + k[(S \ {y}) \ {x}] ELSE k[S \ {y}]
        OBVIOUS
      <4>3. CASE y = x
        BY <3>1, <4>1, <4>2, <4>3
      <4>4. CASE y /= x /\ x \notin S
        <5>1. k[S] = g[y] + k[S \ {y}]
          BY <3>3, <4>4 DEF IsSum
        <5>2. QED
          BY <4>1, <4>2, <4>4, <5>1
      <4>5. CASE y /= x /\ x \in S
        <5>1. y \in S \ {x} /\ S \ {x} \in SUBSET (T \ {x})
          BY <4>5
        <5>2. (S \ {x}) \ {y} = (S \ {y}) \ {x} /\ (S \ {y}) \ {x} \in SUBSET (T \ {x})
          OBVIOUS
        <5>3. k[S \ {x}] = g[y] + k[(S \ {y}) \ {x}]
          <6>1. \A V \in SUBSET (T \ {x}) : \A z \in V : k[V] = g[z] + k[V \ {z}]
            BY <3>3 DEF IsSum
          <6>2. k[S \ {x}] = g[y] + k[(S \ {x}) \ {y}]
            BY <5>1, <6>1
          <6>3. QED
            BY <5>2, <6>2
        <5>4. g[y] \in Nat /\ k[(S \ {y}) \ {x}] \in Nat
          BY <3>3, <5>2 DEF IsSum
        <5>5. h[S] = g[x] + (g[y] + k[(S \ {y}) \ {x}])
          BY <4>1, <4>5, <5>3
        <5>6. h[S \ {y}] = g[x] + k[(S \ {y}) \ {x}]
          BY <4>2, <4>5
        <5> HIDE DEF h
        <5>7. QED
          BY <3>4, <5>4, <5>5, <5>6
      <4>6. QED
        BY <4>3, <4>4, <4>5
    <3>8. IsSum(h, g, T)
      BY <3>5, <3>6, <3>7 DEF IsSum
    <3>9. QED
      BY <3>8
  <2>3. QED
    BY <2>1, <2>2
<1>2. G \in SUBSET SUBSET U
  OBVIOUS
<1>3. G = SUBSET U
  <2> HIDE DEF G
  <2>1. QED
    BY <1>1, <1>2, SubsetInduction
<1>4. U \in G
  BY <1>3
<1>5. QED
  BY <1>4

\* The fold of the community modules computes it.
LEMMA FoldIsSum ==
  ASSUME NEW U, IsFiniteSet(U), NEW g, NEW h, IsSum(h, g, U)
  PROVE  SumFunctionOnSet(g, U) = h[U]
<1> DEFINE first(T) == CHOOSE x \in T : TRUE
           Fold(f) == [T \in SUBSET U |-> IF T = {} THEN 0
                                                    ELSE g[first(T)] + f[T \ {first(T)}]]
           fold == CHOOSE f : f = Fold(f)
           G == {T \in SUBSET U : fold[T] = h[T]}
<1>1. SumFunctionOnSet(g, U) = fold[U]
  BY DEF SumFunctionOnSet, FoldFunctionOnSet, MapThenFoldSet
<1>2. \A T : T /= {} => first(T) \in T
  OBVIOUS
<1> HIDE DEF first
<1>3. h = Fold(h)
  <2>1. \A T \in SUBSET U : h[T] = Fold(h)[T]
    BY <1>2 DEF IsSum
  <2>2. QED
    BY <2>1 DEF IsSum
<1>4. fold = Fold(fold)
  <2>1. \E f : f = Fold(f)
    BY <1>3
  <2> HIDE DEF Fold
  <2>2. QED
    BY <2>1
<1> HIDE DEF fold
<1>5. ASSUME NEW T \in SUBSET U, \A V \in SUBSET T : V /= T => V \in G
      PROVE  T \in G
  <2>1. fold[T] = IF T = {} THEN 0 ELSE g[first(T)] + fold[T \ {first(T)}]
    BY <1>4
  <2>2. CASE T = {}
    BY <2>1, <2>2 DEF IsSum
  <2>3. CASE T /= {}
    <3>1. first(T) \in T
      BY <1>2, <2>3
    <3>2. T \ {first(T)} \in G
      BY <1>5, <3>1
    <3>3. QED
      BY <2>1, <2>3, <3>1, <3>2 DEF IsSum
  <2>4. QED
    BY <2>2, <2>3
<1>6. G = SUBSET U
  <2>1. G \in SUBSET SUBSET U
    OBVIOUS
  <2> HIDE DEF G
  <2>2. QED
    BY <1>5, <2>1, SubsetInduction
<1>7. QED
  BY <1>1, <1>6


LEMMA SumEmpty == ASSUME NEW g PROVE SumFunctionOnSet(g, {}) = 0
<1>1. PICK h : IsSum(h, g, {})
  <2>1. IsFiniteSet({})
    BY FS_EmptySet
  <2>2. \E h : IsSum(h, g, {})
    BY <2>1, SumExists
  <2>3. QED
    BY <2>2
<1>2. SumFunctionOnSet(g, {}) = h[{}]
  <2>1. IsFiniteSet({})
    BY FS_EmptySet
  <2>2. QED
    BY <1>1, <2>1, FoldIsSum
<1>3. QED
  BY <1>1, <1>2 DEF IsSum

\* An element may be taken out of a sum.
LEMMA SumRemove ==
  ASSUME NEW U, IsFiniteSet(U), NEW g, \A y \in U : g[y] \in Nat, NEW x \in U
  PROVE  SumFunctionOnSet(g, U) = g[x] + SumFunctionOnSet(g, U \ {x})
<1> DEFINE V == U \ {x}
<1>1. PICK h : IsSum(h, g, U)
  BY SumExists
<1>2. IsFiniteSet(V) /\ V \in SUBSET U /\ \A T \in SUBSET V : T \in SUBSET U
  BY FS_RemoveElement
<1> DEFINE k == [T \in SUBSET V |-> h[T]]
<1>3. IsSum(k, g, V)
  <2>1. k \in [SUBSET V -> Nat]
    BY <1>1, <1>2 DEF IsSum
  <2>2. k[{}] = 0
    BY <1>1 DEF IsSum
  <2>3. ASSUME NEW T \in SUBSET V, NEW y \in T
        PROVE  k[T] = g[y] + k[T \ {y}]
    <3>1. k[T] = h[T] /\ k[T \ {y}] = h[T \ {y}]
      OBVIOUS
    <3>2. T \in SUBSET U
      BY <1>2
    <3>3. h[T] = g[y] + h[T \ {y}]
      BY <1>1, <3>2 DEF IsSum
    <3>4. QED
      BY <3>1, <3>3
  <2> HIDE DEF k
  <2>4. QED
    BY <2>1, <2>2, <2>3 DEF IsSum
<1>4. SumFunctionOnSet(g, V) = k[V]
  <2> HIDE DEF k, V
  <2>1. QED
    BY <1>2, <1>3, FoldIsSum
<1>5. SumFunctionOnSet(g, U) = h[U]
  BY <1>1, FoldIsSum
<1>6. h[U] = g[x] + h[U \ {x}]
  BY <1>1 DEF IsSum
<1>7. QED
  BY <1>4, <1>5, <1>6

\* Functions that agree have one sum, a number.
LEMMA SumSame ==
  ASSUME NEW U, IsFiniteSet(U), NEW g, NEW k, \A x \in U : g[x] \in Nat /\ k[x] = g[x]
  PROVE  /\ SumFunctionOnSet(g, U) \in Nat
         /\ SumFunctionOnSet(k, U) = SumFunctionOnSet(g, U)
<1>1. PICK h : IsSum(h, g, U)
  BY SumExists
<1>2. IsSum(h, k, U)
  <2>1. ASSUME NEW T \in SUBSET U, NEW x \in T PROVE h[T] = k[x] + h[T \ {x}]
    BY <1>1 DEF IsSum
  <2>2. QED
    BY <1>1, <2>1 DEF IsSum
<1>3. SumFunctionOnSet(g, U) = h[U] /\ SumFunctionOnSet(k, U) = h[U]
  BY <1>1, <1>2, FoldIsSum
<1>4. QED
  BY <1>1, <1>3 DEF IsSum

\* The sum over two sets without a common element.
LEMMA SumUnion ==
  ASSUME NEW A, NEW B, IsFiniteSet(A), IsFiniteSet(B), A \cap B = {},
         NEW g, \A x \in A \cup B : g[x] \in Nat
  PROVE  SumFunctionOnSet(g, A \cup B) = SumFunctionOnSet(g, A) + SumFunctionOnSet(g, B)
<1> DEFINE Sum(S) == SumFunctionOnSet(g, S)
           G == {T \in SUBSET B : Sum(A \cup T) = Sum(A) + Sum(T)}
<1>1. \A T \in SUBSET B : IsFiniteSet(T) /\ IsFiniteSet(A \cup T)
  BY FS_Subset, FS_Union
<1>2. \A T \in SUBSET B : Sum(T) \in Nat
  <2>1. SUFFICES ASSUME NEW T \in SUBSET B PROVE Sum(T) \in Nat
    OBVIOUS
  <2>2. QED
    BY <1>1, SumSame
<1>3. Sum(A) \in Nat
  BY SumSame
<1>4. ASSUME NEW T \in SUBSET B, \A V \in SUBSET T : V /= T => V \in G
      PROVE  T \in G
  <2>1. CASE T = {}
    <3>1. A \cup T = A /\ Sum(T) = 0
      BY <2>1, SumEmpty
    <3>2. QED
      BY <1>3, <3>1
  <2>2. CASE T /= {}
    <3>1. PICK x \in T : TRUE
      BY <2>2
    <3>2. (A \cup T) \ {x} = A \cup (T \ {x}) /\ x \in A \cup T /\ T \ {x} /= T
      BY <3>1
    <3>3. Sum(A \cup T) = g[x] + Sum((A \cup T) \ {x})
      <4>1. \A y \in A \cup T : g[y] \in Nat
        OBVIOUS
      <4>2. QED
        BY <1>1, <3>2, <4>1, SumRemove
    <3>4. Sum(T) = g[x] + Sum(T \ {x})
      <4>1. \A y \in T : g[y] \in Nat
        OBVIOUS
      <4>2. QED
        BY <1>1, <3>1, <4>1, SumRemove
    <3>5. Sum(A \cup (T \ {x})) = Sum(A) + Sum(T \ {x})
      BY <1>4, <3>2
    <3>6. g[x] \in Nat /\ Sum(T \ {x}) \in Nat
      BY <1>2
    <3> HIDE DEF Sum
    <3>7. Sum(A \cup T) = Sum(A) + Sum(T)
      BY <1>3, <3>2, <3>3, <3>4, <3>5, <3>6
    <3>8. QED
      BY <3>7
  <2>3. QED
    BY <2>1, <2>2
<1>5. G = SUBSET B
  <2>1. G \in SUBSET SUBSET B
    OBVIOUS
  <2> HIDE DEF G
  <2>2. QED
    BY <1>4, <2>1, SubsetInduction
<1>6. B \in G
  BY <1>5
<1>7. QED
  BY <1>6

\* The sums of the elements with one key add up to the sum of all of them.
LEMMA SumByKey ==
  ASSUME NEW U, IsFiniteSet(U), NEW K, IsFiniteSet(K), NEW key,
         NEW g, \A x \in U : g[x] \in Nat, NEW m,
         \A i \in K : m[i] = SumFunctionOnSet(g, {x \in U : key[x] = i})
  PROVE  SumFunctionOnSet(g, {x \in U : key[x] \in K}) = SumFunctionOnSet(m, K)
<1> DEFINE With(T) == {x \in U : key[x] \in T}
           One(i) == {x \in U : key[x] = i}
           G == {T \in SUBSET K : SumFunctionOnSet(g, With(T)) = SumFunctionOnSet(m, T)}
<1>1. /\ \A T \in SUBSET K : IsFiniteSet(With(T)) /\ IsFiniteSet(T)
      /\ \A i \in K : IsFiniteSet(One(i))
  BY FS_Subset
<1>2. \A i \in K : m[i] \in Nat
  <2>1. SUFFICES ASSUME NEW i \in K PROVE m[i] \in Nat
    OBVIOUS
  <2>2. \A x \in One(i) : g[x] \in Nat
    OBVIOUS
  <2>3. SumFunctionOnSet(g, One(i)) \in Nat
    BY <1>1, <2>2, SumSame
  <2>4. QED
    BY <2>3
<1>3. ASSUME NEW T \in SUBSET K, \A V \in SUBSET T : V /= T => V \in G
      PROVE  T \in G
  <2>1. CASE T = {}
    <3>1. With(T) = {}
      BY <2>1
    <3>2. QED
      BY <2>1, <3>1, SumEmpty
  <2>2. CASE T /= {}
    <3>1. PICK i \in T : TRUE
      BY <2>2
    <3>2. With(T) = One(i) \cup With(T \ {i}) /\ One(i) \cap With(T \ {i}) = {}
      BY <3>1
    <3>3. \A x \in One(i) \cup With(T \ {i}) : g[x] \in Nat
      OBVIOUS
    <3>4. IsFiniteSet(One(i)) /\ IsFiniteSet(With(T \ {i}))
      BY <1>1
    <3>5. SumFunctionOnSet(g, With(T))
            = SumFunctionOnSet(g, One(i)) + SumFunctionOnSet(g, With(T \ {i}))
      <4> DEFINE A == One(i)
                 B == With(T \ {i})
      <4>1. /\ IsFiniteSet(A) /\ IsFiniteSet(B) /\ A \cap B = {}
            /\ \A x \in A \cup B : g[x] \in Nat
        BY <3>2, <3>3, <3>4
      <4>2. SumFunctionOnSet(g, A \cup B) = SumFunctionOnSet(g, A) + SumFunctionOnSet(g, B)
        <5> HIDE DEF A, B
        <5>1. QED
          BY <4>1, SumUnion
      <4>3. With(T) = A \cup B
        BY <3>2
      <4>4. QED
        BY <4>2, <4>3
    <3>6. SumFunctionOnSet(m, T) = m[i] + SumFunctionOnSet(m, T \ {i})
      <4>1. \A j \in T : m[j] \in Nat
        BY <1>2
      <4>2. QED
        BY <1>1, <3>1, <4>1, SumRemove
    <3>7. SumFunctionOnSet(g, With(T \ {i})) = SumFunctionOnSet(m, T \ {i})
      BY <1>3, <3>1
    <3>8. m[i] = SumFunctionOnSet(g, One(i))
      OBVIOUS
    <3>9. SumFunctionOnSet(g, With(T)) = SumFunctionOnSet(m, T)
      BY <3>5, <3>6, <3>7, <3>8
    <3>10. QED
      BY <3>9
  <2>3. QED
    BY <2>1, <2>2
<1>4. G = SUBSET K
  <2>1. G \in SUBSET SUBSET K
    OBVIOUS
  <2> HIDE DEF G
  <2>2. QED
    BY <1>3, <2>1, SubsetInduction
<1>5. K \in G
  BY <1>4
<1>6. QED
  BY <1>5

--------------------------------------------------------------------------------
(* Days and hours *)

\* The checks of a day are those of its hours.
LEMMA DayOfHours ==
  ASSUME NEW t \in Nat, NEW d \in Nat
  PROVE  Day(t) = d <=> Hour(t) \in HoursOf(d)
<1> DEFINE D == DayLength
           H == HourLength
           n == DayLength \div HourLength
           h == Hour(t)
<1>1. D \in Nat \ {0} /\ H \in Nat \ {0} /\ DayLength % HourLength = 0
  BY StoreAssumption, QueriesAssumption
<1>2. n \in Nat /\ D = H * n
  <2>1. DayLength = HourLength * n + (DayLength % HourLength)
    BY <1>1, Z3T(30)
  <2>2. n \in Nat
    BY <1>1, Division
  <2>3. QED
    BY <1>1, <2>1, <2>2
<1>3. h \in Nat /\ H * h <= t /\ t < H * h + H
  BY <1>1, Division DEF Hour
<1>4. Day(t) \in Nat /\ D * Day(t) <= t /\ t < D * Day(t) + D
  BY <1>1, Division DEF Day
<1>5. HoursOf(d) = d * n .. (d + 1) * n - 1
  BY DEF HoursOf
<1> HIDE DEF D, H, n, h
<1>6. d * n \in Nat /\ (d + 1) * n \in Nat /\ D * d = H * (d * n) /\ D * d + D = H * ((d + 1) * n)
  BY <1>1, <1>2, Z3T(30)
<1>7. Day(t) = d <=> D * d <= t /\ t < D * d + D
  <2>1. ASSUME D * d <= t, t < D * d + D PROVE Day(t) = d
    <3>1. CASE Day(t) < d
      <4>1. D * (Day(t) + 1) <= D * d
        BY <1>1, <1>4, <3>1, Z3T(30)
      <4>2. QED
        BY <1>1, <1>4, <2>1, <4>1, Z3T(30)
    <3>2. CASE Day(t) > d
      <4>1. D * (d + 1) <= D * Day(t)
        BY <1>1, <1>4, <3>2, Z3T(30)
      <4>2. QED
        BY <1>1, <1>4, <2>1, <4>1, Z3T(30)
    <3>3. QED
      BY <1>4, <3>1, <3>2
  <2>2. QED
    BY <1>4, <2>1
<1>8. ASSUME NEW k \in Nat PROVE k <= h <=> H * k <= t
  <2>1. CASE k <= h
    <3>1. H * k <= H * h
      BY <1>1, <1>3, <2>1, Z3T(30)
    <3>2. QED
      BY <1>1, <1>3, <2>1, <3>1, Z3T(30)
  <2>2. CASE h < k
    <3>1. H * (h + 1) <= H * k
      BY <1>1, <1>3, <2>2, Z3T(30)
    <3>2. QED
      BY <1>1, <1>3, <2>2, <3>1, Z3T(30)
  <2>3. QED
    BY <1>3, <2>1, <2>2
<1>9. Day(t) = d <=> d * n <= h /\ h < (d + 1) * n
  <2>1. d * n <= h <=> H * (d * n) <= t
    BY <1>6, <1>8
  <2>2. (d + 1) * n <= h <=> H * ((d + 1) * n) <= t
    BY <1>6, <1>8
  <2>3. H * (d * n) \in Nat /\ H * ((d + 1) * n) \in Nat
    BY <1>1, <1>6
  <2> HIDE DEF D
  <2>4. D * d \in Nat /\ D * d + D \in Nat
    BY <1>6, <2>3
  <2>5. Day(t) = d <=> H * (d * n) <= t /\ t < H * ((d + 1) * n)
    BY <1>6, <1>7
  <2>6. QED
    BY <1>3, <1>6, <2>1, <2>2, <2>3, <2>5
<1>10. h \in d * n .. (d + 1) * n - 1 <=> d * n <= h /\ h < (d + 1) * n
  <2> DEFINE a == d * n
             b == (d + 1) * n
  <2>1. a \in Nat /\ b \in Nat
    BY <1>6
  <2> HIDE DEF a, b
  <2>2. h \in a .. b - 1 <=> a <= h /\ h < b
    BY <1>3, <2>1
  <2>3. QED
    BY <2>2 DEF a, b
<1>11. QED
  BY <1>5, <1>9, <1>10 DEF h

--------------------------------------------------------------------------------
(* The answers for 90 hours and 90 days *)

Field == {"TotalChecks", "PingOK", "HTTPOK"}

\* The checks a field of ConnectionStats counts.
Part(f) == IF f = "PingOK" THEN PingOK ELSE IF f = "HTTPOK" THEN HTTPOK ELSE Check

LEMMA StatsAreSums ==
  ASSUME NEW count, NEW S \in SUBSET Check
  PROVE  Stats(count, S) = [f \in Field |-> SumFunctionOnSet(count, S \cap Part(f))]
<1>1. S \cap Check = S
  OBVIOUS
<1>2. QED
  BY <1>1 DEF Stats, Field, Part

\* Of a check in the window, both answers count the same.
LEMMA WindowCounts ==
  ASSUME StoreInv, phase /= "down", NEW c \in Check
  PROVE  /\ Query90h(c) \in Nat
         /\ stamp[c] >= now - Window => Query90d(c) = Query90h(c)
<1>1. /\ TypeOK /\ stamp[c] \in Nat /\ now \in Nat /\ Copies(results, c) \in Nat
      /\ dayAggregates[c] \in Nat /\ Window \in Nat /\ Retention \in Nat /\ Window <= Retention
  BY Counts, StoreAssumption DEF StoreInv, TypeOK
<1>2. ASSUME stamp[c] >= now - Window
      PROVE  dayAggregates[c] = 0
  <2>1. dayAggregates[c] > 0 => stamp[c] < now - Window
    BY DEF StoreInv, OnlyOldAggregated
  <2>2. QED
    BY <1>1, <1>2, <2>1
<1>3. ASSUME stamp[c] >= now - Window
      PROVE  stamp[c] >= now - Retention
  BY <1>1, <1>3
<1>4. QED
  BY <1>1, <1>2, <1>3 DEF Query90d, Query90h

\* One pair, one day, one field.
LEMMA FieldAddsUp ==
  ASSUME StoreInv, phase /= "down", NEW s, NEW t, NEW d \in Nat, NEW f \in Field,
         d * DayLength >= now - Window
  PROVE  InDay(s, t, d)[f] = SumFunction([h \in HoursOf(d) |-> InHour(s, t, h)[f]])
<1> DEFINE U == Of(s, t) \cap Part(f)
           hourly == [c \in Check |-> Query90h(c)]
           daily == [c \in Check |-> Query90d(c)]
           key == [c \in Check |-> Hour(stamp[c])]
           m == [h \in HoursOf(d) |-> InHour(s, t, h)[f]]
           OnDay == {c \in U : Day(stamp[c]) = d}
<1>1. /\ TypeOK /\ now \in Nat /\ Window \in Nat /\ DayLength \in Nat \ {0}
      /\ \A c \in Check : stamp[c] \in Nat
  BY StoreAssumption DEF StoreInv, TypeOK
<1>2. U \subseteq Check /\ IsFiniteSet(U) /\ IsFiniteSet(OnDay)
  <2>1. IsFiniteSet(Check) /\ U \in SUBSET Check /\ OnDay \in SUBSET Check
    BY QueriesAssumption DEF Of
  <2>2. QED
    BY <2>1, FS_Subset
<1>3. \A c \in Check : hourly[c] \in Nat
  BY WindowCounts
<1>4. InDay(s, t, d)[f] = SumFunctionOnSet(daily, OnDay)
  <2> DEFINE S == {c \in Of(s, t) : Day(stamp[c]) = d}
  <2>1. S \in SUBSET Check /\ S \cap Part(f) = OnDay
    BY DEF Of
  <2>2. Stats(daily, S)[f] = SumFunctionOnSet(daily, S \cap Part(f))
    <3> HIDE DEF S, daily
    <3>1. QED
      BY <2>1, StatsAreSums
  <2>3. QED
    BY <2>1, <2>2 DEF InDay
<1>5. SumFunctionOnSet(daily, OnDay) = SumFunctionOnSet(hourly, OnDay)
  <2>1. ASSUME NEW c \in OnDay PROVE hourly[c] \in Nat /\ daily[c] = hourly[c]
    <3>1. c \in Check /\ Day(stamp[c]) = d /\ stamp[c] \in Nat
      BY <1>1, <1>2
    <3>2. DayLength * d <= stamp[c]
      BY <1>1, <3>1, Division DEF Day
    <3>3. stamp[c] >= now - Window
      BY <1>1, <3>1, <3>2
    <3>4. Query90d(c) = Query90h(c) /\ Query90h(c) \in Nat
      BY <3>1, <3>3, WindowCounts
    <3>5. QED
      BY <3>1, <3>4
  <2> HIDE DEF OnDay, hourly, daily
  <2>2. QED
    BY <1>2, <2>1, SumSame
<1>6. OnDay = {c \in U : key[c] \in HoursOf(d)}
  <2>1. \A c \in U : key[c] \in HoursOf(d) <=> Day(stamp[c]) = d
    BY <1>1, <1>2, DayOfHours
  <2>2. QED
    BY <2>1
<1>7. ASSUME NEW h \in HoursOf(d)
      PROVE  m[h] = SumFunctionOnSet(hourly, {c \in U : key[c] = h})
  <2> DEFINE S == {c \in Of(s, t) : Hour(stamp[c]) = h}
  <2>1. S \in SUBSET Check /\ S \cap Part(f) = {c \in U : key[c] = h}
    BY <1>2 DEF Of
  <2>2. Stats(hourly, S)[f] = SumFunctionOnSet(hourly, S \cap Part(f))
    <3> HIDE DEF S, hourly
    <3>1. Stats(hourly, S) = [k \in Field |-> SumFunctionOnSet(hourly, S \cap Part(k))]
      BY <2>1, StatsAreSums
    <3>2. QED
      BY <3>1
  <2>3. m[h] = Stats(hourly, S)[f]
    BY DEF InHour
  <2>4. QED
    BY <2>1, <2>2, <2>3
<1>8. IsFiniteSet(HoursOf(d))
  <2> DEFINE n == DayLength \div HourLength
  <2>1. n \in Nat
    BY StoreAssumption, QueriesAssumption, Division
  <2>2. d * n \in Int /\ (d + 1) * n - 1 \in Int
    BY <2>1, Z3T(30)
  <2>3. HoursOf(d) = d * n .. (d + 1) * n - 1
    BY DEF HoursOf
  <2> HIDE DEF n
  <2>4. QED
    BY <2>2, <2>3, FS_Interval
<1>9. SumFunctionOnSet(hourly, {c \in U : key[c] \in HoursOf(d)}) = SumFunctionOnSet(m, HoursOf(d))
  <2>1. \A c \in U : hourly[c] \in Nat
    BY <1>2, <1>3
  <2> DEFINE K == HoursOf(d)
  <2>2. \A i \in K : m[i] = SumFunctionOnSet(hourly, {c \in U : key[c] = i})
    <3> HIDE DEF U, hourly, key, m
    <3>1. QED
      BY <1>7
  <2>3. IsFiniteSet(U) /\ IsFiniteSet(K)
    BY <1>2, <1>8
  <2> HIDE DEF U, hourly, key, m, K
  <2>4. SumFunctionOnSet(hourly, {c \in U : key[c] \in K}) = SumFunctionOnSet(m, K)
    BY <2>1, <2>2, <2>3, SumByKey
  <2>5. QED
    BY <2>4 DEF K
<1>10. SumFunction(m) = SumFunctionOnSet(m, HoursOf(d))
  BY DEF SumFunction
<1>11. QED
  BY <1>4, <1>5, <1>6, <1>9, <1>10

\* For every day in the window, the hours of a pair add up to its day, whatever
\* flushOnce has moved and LoadIntoMemory has put into which map.
THEOREM HoursAgreeWithDays == Spec => []HoursAddUp
<1>1. StoreInv => HoursAddUp
  <2> SUFFICES ASSUME StoreInv, phase /= "down", NEW p \in {<<Src[c], Dst[c]>> : c \in Check},
                      NEW c \in Measured, Day(stamp[c]) * DayLength >= now - Window
               PROVE  InDay(p[1], p[2], Day(stamp[c]))
                        = [f \in Field |->
                             SumFunction([h \in HoursOf(Day(stamp[c])) |->
                                            InHour(p[1], p[2], h)[f]])]
    BY DEF HoursAddUp, Field
  <2> DEFINE d == Day(stamp[c])
             S == {k \in Of(p[1], p[2]) : Day(stamp[k]) = d}
             count == [k \in Check |-> Query90d(k)]
  <2>1. d \in Nat
    <3>1. stamp[c] \in Nat /\ DayLength \in Nat \ {0}
      BY StoreAssumption DEF StoreInv, TypeOK, Measured
    <3>2. QED
      BY <3>1, Division DEF Day
  <2>2. InDay(p[1], p[2], d) = Stats(count, S)
    BY DEF InDay
  <2>3. Stats(count, S) = [f \in Field |-> SumFunctionOnSet(count, S \cap Part(f))]
    <3>1. S \in SUBSET Check
      BY DEF Of
    <3> HIDE DEF S, count
    <3>2. QED
      BY <3>1, StatsAreSums
  <2>4. ASSUME NEW f \in Field
        PROVE  InDay(p[1], p[2], d)[f]
                 = SumFunction([h \in HoursOf(d) |-> InHour(p[1], p[2], h)[f]])
    <3> HIDE DEF d
    <3>1. d * DayLength >= now - Window
      BY DEF d
    <3>2. QED
      BY <2>1, <3>1, FieldAddsUp
  <2> HIDE DEF S, count
  <2>5. QED
    BY <2>2, <2>3, <2>4
<1>2. QED
  BY <1>1, StoreInvariant, PTL

--------------------------------------------------------------------------------
(* Day files *)

\* A whole record that is lost follows a write that was cut short.
LEMMA LostFollowsCut ==
  ASSUME NEW file \in Seq(Piece)
  PROVE  Cardinality(Lost(file)) <= Cardinality(CutShort(file))
<1> DEFINE before == [i \in Lost(file) |-> i - 1]
<1>1. Len(file) \in Nat /\ DOMAIN file = 1..Len(file)
  OBVIOUS
<1>2. ASSUME NEW i \in Lost(file)
      PROVE  i \in Nat /\ i - 1 \in CutShort(file)
  <2>1. i \in 1..Len(file) /\ file[i] = "line" /\ ~Alone(file, i)
    BY <1>1 DEF Lost, ReadFile
  <2>2. i /= 1 /\ file[i - 1] /= "line"
    BY <2>1 DEF Alone
  <2>3. QED
    BY <1>1, <2>1, <2>2 DEF CutShort
<1>3. before \in Injection(Lost(file), CutShort(file))
  BY <1>2 DEF Injection, IsInjective
<1>4. IsFiniteSet(CutShort(file))
  <2>1. IsFiniteSet(1..Len(file)) /\ CutShort(file) \in SUBSET (1..Len(file))
    BY <1>1, FS_Interval DEF CutShort
  <2>2. QED
    BY <2>1, FS_Subset
<1> HIDE DEF before
<1>5. QED
  BY <1>3, <1>4, FS_Injection

\* A file of any length loses no more whole records than writes were cut short.
THEOREM TornWritesCostOne == Spec => []TornWriteCost
<1>1. LosingMore = {}
  <2> SUFFICES ASSUME NEW file \in File
               PROVE  ~(Cardinality(Lost(file)) > Cardinality(CutShort(file)))
    BY DEF LosingMore
  <2>1. file \in Seq(Piece)
    BY DayFileAssumption DEF File, BoundedSeq, SeqOf
  <2>2. IsFiniteSet(CutShort(file)) /\ IsFiniteSet(Lost(file))
    <3>1. IsFiniteSet(DOMAIN file) /\ CutShort(file) \in SUBSET DOMAIN file
          /\ Lost(file) \in SUBSET DOMAIN file
      BY <2>1, FS_Interval DEF CutShort, Lost
    <3>2. QED
      BY <3>1, FS_Subset
  <2>3. QED
    BY <2>1, <2>2, LostFollowsCut, FS_CardinalityType
<1>2. TornWriteCost
  BY <1>1 DEF TornWriteCost
<1>3. QED
  BY <1>2, PTL

--------------------------------------------------------------------------------
(* The files of a window *)

\* A set of numbers up to n that has 0 and each successor has all of them.
LEMMA IntervalInduction ==
  ASSUME NEW n \in Nat, NEW G \in SUBSET Nat, 0 \in G,
         \A i \in G : i < n => i + 1 \in G
  PROVE  0..n \subseteq G
<1> SUFFICES ASSUME ~(0..n \subseteq G) PROVE FALSE
  OBVIOUS
<1> DEFINE R == OpToRel(<, Nat)
           Bad == (0..n) \ G
<1>1. IsWellFoundedOn(R, Nat)
  BY NatLessThanWellFounded
<1>2. Bad \subseteq Nat /\ Bad /= {}
  OBVIOUS
<1>3. \E m \in Bad : \A k \in Bad : ~(<<k, m>> \in R)
  <2> HIDE DEF R, Bad
  <2>1. QED
    BY <1>1, <1>2, WFMin
<1>4. PICK m \in Bad : \A k \in Bad : ~(<<k, m>> \in R)
  BY <1>3
<1>5. m - 1 \in Bad
  <2>1. m \in Nat /\ m <= n /\ m /= 0
    OBVIOUS
  <2>2. m - 1 \in 0..n /\ m - 1 < n
    BY <2>1
  <2>3. m - 1 \in G => (m - 1) + 1 \in G
    BY <2>2
  <2>4. (m - 1) + 1 = m
    BY <2>1
  <2>5. QED
    BY <2>2, <2>3, <2>4
<1>6. <<m - 1, m>> \in R
  BY <1>5 DEF OpToRel
<1>7. QED
  BY <1>4, <1>5, <1>6

\* The recursive function of Midnight, up to day d.
Begins(f, cal, d) == f = [i \in 0..d |-> IF i = 0 THEN 0 ELSE f[i - 1] + cal[i - 1]]

LEMMA BeginsExists ==
  ASSUME NEW cal, NEW n \in Nat
  PROVE  \A d \in 0..n : \E f : Begins(f, cal, d)
<1> DEFINE G == {d \in Nat : \E f : Begins(f, cal, d)}
<1>1. 0 \in G
  <2> DEFINE f == [i \in 0..0 |-> 0]
  <2>1. Begins(f, cal, 0)
    BY DEF Begins
  <2>2. QED
    BY <2>1
<1>2. ASSUME NEW d \in G PROVE d + 1 \in G
  <2>1. PICK f : Begins(f, cal, d)
    OBVIOUS
  <2> DEFINE g == [i \in 0..(d + 1) |-> IF i = d + 1 THEN f[d] + cal[d] ELSE f[i]]
  <2>2. ASSUME NEW i \in 0..(d + 1)
        PROVE  g[i] = IF i = 0 THEN 0 ELSE g[i - 1] + cal[i - 1]
    <3>1. CASE i = d + 1
      <4>1. i - 1 = d /\ d \in 0..(d + 1) /\ d /= d + 1 /\ i /= 0
        BY <3>1
      <4>2. g[i] = f[d] + cal[d] /\ g[d] = f[d]
        BY <3>1, <4>1
      <4>3. QED
        BY <4>1, <4>2
    <3>2. CASE i /= d + 1
      <4>1. i \in 0..d /\ g[i] = f[i]
        BY <3>2
      <4>2. f[i] = IF i = 0 THEN 0 ELSE f[i - 1] + cal[i - 1]
        BY <2>1, <4>1 DEF Begins
      <4>3. CASE i = 0
        BY <4>1, <4>2, <4>3
      <4>4. CASE i /= 0
        <5>1. i - 1 \in 0..(d + 1) /\ i - 1 /= d + 1
          BY <4>1, <4>4
        <5>2. g[i - 1] = f[i - 1]
          BY <5>1
        <5>3. QED
          BY <4>1, <4>2, <4>4, <5>2
      <4>5. QED
        BY <4>3, <4>4
    <3>3. QED
      BY <3>1, <3>2
  <2>3. g = [i \in 0..(d + 1) |-> IF i = 0 THEN 0 ELSE g[i - 1] + cal[i - 1]]
    <3>1. g = [i \in 0..(d + 1) |-> g[i]]
      OBVIOUS
    <3> HIDE DEF g
    <3>2. QED
      BY <2>2, <3>1
  <2>4. Begins(g, cal, d + 1)
    <3> HIDE DEF g
    <3>1. QED
      BY <2>3 DEF Begins
  <2>5. QED
    BY <2>4
<1>3. 0..n \subseteq G
  <2> HIDE DEF G
  <2>1. G \in SUBSET Nat
    BY DEF G
  <2>2. QED
    BY <1>1, <1>2, <2>1, IntervalInduction
<1>4. QED
  BY <1>3

\* Two of them agree on the days they share.
LEMMA BeginsAgree ==
  ASSUME NEW cal, NEW d \in Nat, NEW e \in Nat, d <= e,
         NEW f, NEW g, Begins(f, cal, d), Begins(g, cal, e)
  PROVE  f[d] = g[d]
<1> DEFINE G == {i \in 0..d : f[i] = g[i]}
<1>1. \A i \in 0..d : /\ f[i] = IF i = 0 THEN 0 ELSE f[i - 1] + cal[i - 1]
                      /\ g[i] = IF i = 0 THEN 0 ELSE g[i - 1] + cal[i - 1]
  <2>1. \A i \in 0..d : i \in 0..e
    OBVIOUS
  <2>2. QED
    BY <2>1 DEF Begins
<1>2. 0 \in G
  BY <1>1
<1>3. ASSUME NEW i \in G, i < d PROVE i + 1 \in G
  <2>1. i + 1 \in 0..d /\ i + 1 /= 0 /\ (i + 1) - 1 = i
    BY <1>3
  <2>2. f[i + 1] = f[i] + cal[i] /\ g[i + 1] = g[i] + cal[i]
    BY <1>1, <2>1
  <2>3. QED
    BY <2>1, <2>2
<1>4. 0..d \subseteq G
  <2> HIDE DEF G
  <2>1. G \in SUBSET Nat
    BY DEF G
  <2>2. QED
    BY <1>2, <1>3, <2>1, IntervalInduction
<1>5. QED
  BY <1>4

\* A day begins when the day before it ends, the first one at 0.
LEMMA MidnightNext ==
  ASSUME NEW cal
  PROVE  /\ Midnight(cal, 0) = 0
         /\ \A d \in Nat : Midnight(cal, d + 1) = Midnight(cal, d) + cal[d]
<1> DEFINE m(d) == CHOOSE f : Begins(f, cal, d)
<1>1. \A d \in Nat : Midnight(cal, d) = m(d)[d]
  BY DEF Midnight, Begins
<1>2. \A d \in Nat : Begins(m(d), cal, d)
  <2>1. SUFFICES ASSUME NEW d \in Nat PROVE Begins(m(d), cal, d)
    OBVIOUS
  <2>2. d \in 0..d
    OBVIOUS
  <2>3. \E f : Begins(f, cal, d)
    BY <2>2, BeginsExists
  <2>4. QED
    BY <2>3
<1> HIDE DEF m
<1>3. Midnight(cal, 0) = 0
  BY <1>1, <1>2 DEF Begins
<1>4. ASSUME NEW d \in Nat PROVE Midnight(cal, d + 1) = Midnight(cal, d) + cal[d]
  <2>1. d + 1 \in 0..(d + 1) /\ d + 1 /= 0 /\ (d + 1) - 1 = d /\ d + 1 \in Nat /\ d <= d + 1
    OBVIOUS
  <2>2. m(d + 1)[d + 1] = m(d + 1)[d] + cal[d]
    <3>1. Begins(m(d + 1), cal, d + 1)
      BY <1>2, <2>1
    <3>2. \A i \in 0..(d + 1) : m(d + 1)[i] = IF i = 0 THEN 0 ELSE m(d + 1)[i - 1] + cal[i - 1]
      BY <3>1 DEF Begins
    <3>3. QED
      BY <2>1, <3>2
  <2>3. m(d)[d] = m(d + 1)[d]
    BY <1>2, <2>1, BeginsAgree
  <2>4. QED
    BY <1>1, <2>1, <2>2, <2>3
<1>5. QED
  BY <1>3, <1>4

\* A day that begins while reading goes on is opened unless it is shorter than
\* a step, and opened twice only if it is longer.
LEMMA Opened ==
  ASSUME NEW M \in Nat, NEW len \in Nat, len > 0, NEW start \in Nat, NEW k \in Nat,
         M <= start + k * Step, M >= start \/ start < M + len,
         NEW S, S = {t \in Steps(start, start + k * Step) : M <= t /\ t < M + len}
  PROVE  /\ Cardinality(S) = 0 => len < Step
         /\ Cardinality(S) > 1 => len > Step
<1> DEFINE end == start + k * Step
<1>1. Step = 24 /\ end \in Nat /\ end >= start /\ (end - start) % Step = 0
  BY DEF Step
<1>2. S = {t \in start..end : (t - start) % Step = 0 /\ M <= t /\ t < M + len}
  BY DEF Steps
<1>3. IsFiniteSet(S)
  <2>1. IsFiniteSet(start..end) /\ S \in SUBSET (start..end)
    BY <1>1, <1>2, FS_Interval
  <2>2. QED
    BY <2>1, FS_Subset
<1>4. ASSUME Cardinality(S) = 0, len >= Step PROVE FALSE
  <2>1. S = {}
    BY <1>3, <1>4, FS_EmptySet
  <2>2. CASE M < start
    <3>1. start \in S
      BY <1>1, <1>2, <2>2
    <3>2. QED
      BY <2>1, <3>1
  <2>3. CASE M >= start
    <3> DEFINE r == (M - start) % 24
               t == IF r = 0 THEN M ELSE M + (24 - r)
    <3>1. r \in 0..23 /\ M - start = 24 * ((M - start) \div 24) + r
      BY <2>3, Z3T(30)
    <3>2. t \in Nat /\ t >= M /\ t < M + 24 /\ (t - start) % 24 = 0
      BY <2>3, <3>1, Z3T(30)
    <3>3. t <= end
      BY <1>1, <2>3, <3>2, Z3T(30)
    <3> HIDE DEF t
    <3>4. t \in S
      BY <1>1, <1>2, <1>4, <2>3, <3>2, <3>3
    <3>5. QED
      BY <2>1, <3>4
  <2>4. QED
    BY <2>2, <2>3
<1>5. ASSUME Cardinality(S) > 1, len <= Step PROVE FALSE
  <2>1. PICK t \in S : TRUE
    BY <1>3, <1>5, FS_EmptySet
  <2>2. S \ {t} /= {}
    <3>1. Cardinality(S \ {t}) = Cardinality(S) - 1 /\ IsFiniteSet(S \ {t})
      BY <1>3, <2>1, FS_RemoveElement
    <3>2. Cardinality(S) \in Nat
      BY <1>3, FS_CardinalityType
    <3>3. QED
      BY <1>5, <3>1, <3>2, FS_EmptySet
  <2>3. PICK u \in S : u /= t
    BY <2>2
  <2>4. /\ t \in Nat /\ u \in Nat /\ t >= start /\ u >= start
        /\ (t - start) % 24 = 0 /\ (u - start) % 24 = 0
        /\ M <= t /\ t < M + len /\ M <= u /\ u < M + len
    BY <1>1, <1>2, <2>1, <2>3
  <2>5. t - u >= 24 \/ u - t >= 24
    BY <2>3, <2>4, Z3T(30)
  <2>6. QED
    BY <1>1, <1>5, <2>4, <2>5
<1>6. Cardinality(S) \in Nat
  BY <1>3, FS_CardinalityType
<1>7. QED
  BY <1>1, <1>4, <1>5, <1>6

\* Midnights are numbers, and no later day begins in the first.
LEMMA MidnightAfterFirst ==
  ASSUME NEW cal \in Calendar
  PROVE  \A d \in 0..MaxDays : /\ Midnight(cal, d) \in Nat
                               /\ d > 0 => Midnight(cal, d) >= cal[0]
<1> DEFINE G == {d \in 0..MaxDays : /\ Midnight(cal, d) \in Nat
                                    /\ d > 0 => Midnight(cal, d) >= cal[0]}
<1>1. MaxDays \in Nat /\ \A d \in 0..MaxDays : cal[d] \in Nat
  BY DayFileAssumption DEF Calendar, Step
<1>2. 0 \in G
  BY <1>1, MidnightNext
<1>3. ASSUME NEW d \in G, d < MaxDays PROVE d + 1 \in G
  <2>1. d + 1 \in 0..MaxDays /\ d \in 0..MaxDays /\ cal[d] \in Nat
    BY <1>1, <1>3
  <2>2. Midnight(cal, d + 1) = Midnight(cal, d) + cal[d]
    BY <2>1, MidnightNext
  <2>3. CASE d = 0
    BY <2>1, <2>2, <2>3, MidnightNext
  <2>4. CASE d > 0
    BY <1>1, <2>1, <2>2, <2>4
  <2>5. QED
    BY <2>1, <2>3, <2>4
<1>4. 0..MaxDays \subseteq G
  <2> HIDE DEF G
  <2>1. G \in SUBSET Nat
    BY DEF G
  <2>2. QED
    BY <1>1, <1>2, <1>3, <2>1, IntervalInduction
<1>5. QED
  BY <1>4

\* From any time of day and for any number of days, only a day shorter than 24
\* hours is missed, and only a longer one is read twice.
THEOREM DaysAreReadOnce == Spec => []DaysReadOnce
<1>1. Unexplained = {}
  <2> SUFFICES ASSUME NEW cal \in Calendar, NEW start \in 0..(cal[0] - 1)
               PROVE  Explained(cal, start)
    BY DEF Unexplained
  <2> DEFINE k == MaxDays - 1
             end == start + k * Step
  <2>1. /\ k \in Nat /\ MaxDays \in Nat /\ start \in Nat /\ start < cal[0]
        /\ \A d \in 0..MaxDays : cal[d] \in Nat /\ cal[d] > 0
    <3>1. MaxDays \in Nat \ {0} /\ \A d \in 0..MaxDays : cal[d] \in Nat /\ cal[d] > 0
      BY DayFileAssumption DEF Calendar, Step
    <3>2. 0 \in 0..MaxDays
      BY <3>1
    <3>3. QED
      BY <3>1, <3>2
  <2>2. ASSUME NEW d \in 0..MaxDays, Midnight(cal, d) <= end
        PROVE  /\ TimesOpened(cal, d, start, end) = 0 => cal[d] < Step
               /\ TimesOpened(cal, d, start, end) > 1 => cal[d] > Step
    <3> DEFINE M == Midnight(cal, d)
               S == {t \in Steps(start, end) : M <= t /\ t < M + cal[d]}
    <3>1. M \in Nat /\ cal[d] \in Nat /\ cal[d] > 0 /\ d \in Nat
      BY <2>1, MidnightAfterFirst
    <3>2. M >= start \/ start < M + cal[d]
      <4>1. CASE d = 0
        BY <2>1, <4>1, MidnightNext
      <4>2. CASE d > 0
        <5>1. M >= cal[0]
          BY <4>2, MidnightAfterFirst
        <5>2. 0 \in 0..MaxDays
          BY <2>1
        <5> HIDE DEF M
        <5>3. QED
          BY <2>1, <3>1, <5>1, <5>2
      <4>3. QED
        BY <3>1, <4>1, <4>2
    <3>3. TimesOpened(cal, d, start, end) = Cardinality(S)
      <4>1. Midnight(cal, d + 1) = M + cal[d]
        BY <3>1, MidnightNext
      <4>2. QED
        BY <4>1 DEF TimesOpened, On
    <3>4. /\ Cardinality(S) = 0 => cal[d] < Step
          /\ Cardinality(S) > 1 => cal[d] > Step
      <4>1. M <= start + k * Step
        BY <2>2
      <4>2. S = {t \in Steps(start, start + k * Step) : M <= t /\ t < M + cal[d]}
        OBVIOUS
      <4> HIDE DEF M, S, k
      <4>3. QED
        BY <2>1, <3>1, <3>2, <4>1, <4>2, Opened
    <3>5. QED
      BY <3>3, <3>4
  <2>3. QED
    BY <2>2 DEF Explained
<1>2. DaysReadOnce
  BY <1>1 DEF DaysReadOnce
<1>3. QED
  BY <1>2, PTL
================================================================================
