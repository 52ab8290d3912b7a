--------------------------- MODULE CheckCycle_proofs ---------------------------
(* Proofs of the invariants of CheckCycle, for any number of targets and any *)
(* capacity of the semaphore.                                                *)
EXTENDS CheckCycle, FiniteSetTheorems, SequenceTheorems, TLAPS

--------------------------------------------------------------------------------
(* Targets and workers *)

\* A peer list has a length within its bound, and addresses in its places.
LEMMA ListType ==
  ASSUME NEW n \in Nat, NEW l \in Lists(n)
  PROVE  /\ l \in Seq(Target)
         /\ Len(l) \in 0..n
         /\ \A i \in 1..Len(l) : l[i] \in Target
<1>1. PICK k \in 0..n : l \in [1..k -> Target]
  BY DEF Lists
<1>2. l \in Seq(Target)
  BY <1>1
<1>3. Len(l) = k
  BY <1>1, <1>2
<1>4. QED
  BY <1>1, <1>2, <1>3

\* Every target of a cycle has an index, and a check to make.
LEMMA TargetFacts ==
  ASSUME NEW p \in Lists(MaxPeers), NEW e \in Lists(MaxExtras)
  PROVE  /\ Len(p) + Len(e) \in Nat
         /\ 1 .. Len(p) + Len(e) \subseteq Index
         /\ \A i \in 1 .. Len(p) + Len(e) :
              /\ i <= Len(p) => p[i] \in Target
              /\ ~ (i <= Len(p)) => e[i - Len(p)] \in Target
<1>1. MaxPeers \in Nat /\ MaxExtras \in Nat
  BY CycleAssumption
<1>2. Len(p) \in 0..MaxPeers /\ \A i \in 1..Len(p) : p[i] \in Target
  BY <1>1, ListType
<1>3. Len(e) \in 0..MaxExtras /\ \A i \in 1..Len(e) : e[i] \in Target
  BY <1>1, ListType
<1>4. QED
  BY <1>1, <1>2, <1>3 DEF Index

LEMMA CheckTypes ==
  ASSUME TypeOK
  PROVE  /\ total \in Nat
         /\ 1..total \subseteq Index
         /\ \A i \in 1..total : CheckOf(i) \in Result
<1>1. peers \in Lists(MaxPeers) /\ ExtraTargets \in Lists(MaxExtras)
  BY DEF TypeOK
<1>2. QED
  BY <1>1, TargetFacts DEF total, CheckOf, Result

\* Sets of workers are finite, and move one worker at a time.
LEMMA WorkersFinite ==
  ASSUME NEW stages
  PROVE  IsFiniteSet(In(stages))
<1>1. IsFiniteSet(Index)
  BY CycleAssumption, FS_Interval DEF Index
<1>2. In(stages) \in SUBSET Index
  BY DEF In
<1>3. QED
  BY <1>1, <1>2, FS_Subset

LEMMA WorkerMoves ==
  ASSUME NEW stages, worker \in [Index -> Stage], NEW i \in Index, NEW s \in Stage,
         worker' = [worker EXCEPT ![i] = s]
  PROVE  /\ Cardinality(In(stages)) \in Nat
         /\ Cardinality(In(stages)') =
              IF worker[i] \in stages
                THEN IF s \in stages THEN Cardinality(In(stages)) ELSE Cardinality(In(stages)) - 1
                ELSE IF s \in stages THEN Cardinality(In(stages)) + 1 ELSE Cardinality(In(stages))
<1>1. IsFiniteSet(In(stages))
  BY WorkersFinite
<1>2. /\ Cardinality(In(stages)) \in Nat
      /\ Cardinality(In(stages) \cup {i}) =
           IF i \in In(stages) THEN Cardinality(In(stages)) ELSE Cardinality(In(stages)) + 1
      /\ Cardinality(In(stages) \ {i}) =
           IF i \in In(stages) THEN Cardinality(In(stages)) - 1 ELSE Cardinality(In(stages))
  BY <1>1, FS_CardinalityType, FS_AddElement, FS_RemoveElement
<1>3. i \in In(stages) <=> worker[i] \in stages
  BY DEF In
<1>4. In(stages)' = IF s \in stages THEN In(stages) \cup {i} ELSE In(stages) \ {i}
  BY DEF In
<1>5. CASE s \in stages
  BY <1>2, <1>3, <1>4, <1>5
<1>6. CASE s \notin stages
  BY <1>2, <1>3, <1>4, <1>6
<1>7. QED
  BY <1>5, <1>6

\* No worker is busy when all of them are in other stages, and the other way round.
LEMMA NobodyIn ==
  ASSUME NEW stages
  PROVE  Cardinality(In(stages)) = 0 <=> In(stages) = {}
BY WorkersFinite, FS_EmptySet

--------------------------------------------------------------------------------
(* Steps of a worker *)

\* The parts of the invariant that concern the main goroutine and the targets
\* only look at workers that have sent, or not started.
LEMMA WorkerStep ==
  ASSUME CycleInv, NEW i \in Index, Worker(i)
  PROVE  CycleInv'
<1> USE DEF CycleInv
<1>1. /\ worker \in [Index -> Stage] /\ sem \in 0..Limit /\ wg \in 0..total
      /\ total \in Nat /\ 1..total \subseteq Index /\ Index \subseteq Nat /\ Limit \in Nat
      /\ spawned \in 0..total
  BY CheckTypes, CycleAssumption DEF TypeOK, Index
<1>2. /\ UNCHANGED <<node, main, peers, spawned, closer, results>>
      /\ total' = total
      /\ \A k \in 1..total : CheckOf(k)' = CheckOf(k)
  BY DEF Worker, Acquire, Send, Release, Done, total, CheckOf, node
<1>3. worker[i] /= "none" /\ i \in 1..total
  BY <1>1 DEF Worker, Acquire, Send, Release, Done, Started, Index
<1>4. PICK s \in Stage \ {"none"} : worker' = [worker EXCEPT ![i] = s]
  BY DEF Worker, Acquire, Send, Release, Done, Stage
<1>5. Started'
  BY <1>1, <1>2, <1>3, <1>4 DEF Started
<1>6. Cardinality(Busy) > 0 \/ worker[i] = "done"
  <2>1. worker[i] \in {"ready", "checking", "sent", "released", "done"}
    BY <1>1, <1>3 DEF Stage
  <2>2. CASE worker[i] /= "done"
    <3>1. i \in Busy
      BY <2>1, <2>2 DEF Busy, In
    <3>2. Cardinality(Busy) \in Nat /\ Cardinality(Busy) /= 0
      BY <3>1, WorkersFinite, NobodyIn, FS_CardinalityType DEF Busy
    <3>3. QED
      BY <3>2
  <2>3. QED
    BY <2>2
<1>7. wg > 0 /\ ~closed /\ main \in {"spawn", "collect"}
  <2>1. worker[i] /= "done"
    BY DEF Worker, Acquire, Send, Release, Done
  <2>2. wg > 0
    BY <1>6, <2>1 DEF Counted
  <2>3. ~closed
    BY <2>2 DEF Phases
  <2>4. spawned /= 0
    BY <1>1, <1>3 DEF Started
  <2>5. QED
    BY <2>2, <2>3, <2>4 DEF Phases, TypeOK
<1>8. Drained'
  BY <1>2, <1>7 DEF Drained
<1>9. /\ Busy' = In({"ready", "checking", "sent", "released"})'
      /\ Holding' = In({"checking", "sent"})'
  BY DEF Busy, Holding
<1>10. CASE Acquire(i)
  <2>1. worker' = [worker EXCEPT ![i] = "checking"] /\ worker[i] = "ready"
    BY <1>10 DEF Acquire
  <2>2. /\ Cardinality(Busy)' = Cardinality(Busy)
        /\ Cardinality(Holding)' = Cardinality(Holding) + 1
    BY <1>1, <2>1, WorkerMoves DEF Busy, Holding, Stage
  <2>3. Counted'
    BY <1>10, <2>2 DEF Counted, Acquire
  <2>4. TypeOK'
    <3>1. sem' \in 0..Limit
      BY <1>1, <1>10 DEF Acquire
    <3>2. worker' \in [Index -> Stage]
      BY <1>1, <2>1 DEF Stage
    <3>3. QED
      BY <1>2, <1>10, <3>1, <3>2 DEF TypeOK, Acquire, node, closer
  <2>5. Phases'
    BY <1>2, <1>10 DEF Phases, Acquire, closer
  <2>6. Delivered'
    BY <1>1, <1>2, <1>10, <2>1 DEF Delivered, Acquire
  <2>7. QED
    BY <1>5, <1>8, <2>3, <2>4, <2>5, <2>6
<1>11. CASE Send(i)
  <2>1. worker' = [worker EXCEPT ![i] = "sent"] /\ worker[i] = "checking"
    BY <1>11 DEF Send
  <2>2. /\ Cardinality(Busy)' = Cardinality(Busy)
        /\ Cardinality(Holding)' = Cardinality(Holding)
    BY <1>1, <2>1, WorkerMoves DEF Busy, Holding, Stage
  <2>3. Counted'
    BY <1>11, <2>2 DEF Counted, Send
  <2> DEFINE m == [idx |-> i, r |-> CheckOf(i)]
  <2>4. /\ m \in [idx : Index, r : Result]
        /\ ch \in Seq([idx : Index, r : Result])
        /\ ch' = Append(ch, m)
    BY <1>3, <1>11, CheckTypes DEF Send, TypeOK
  <2> HIDE DEF m
  <2>5. /\ ch' \in Seq([idx : Index, r : Result])
        /\ Len(ch) \in Nat
        /\ Len(ch') = Len(ch) + 1
        /\ ch'[Len(ch')] = m
        /\ \A k \in 1..Len(ch) : ch'[k] = ch[k]
    BY <2>4
  <2>6. TypeOK'
    <3>1. worker' \in [Index -> Stage]
      BY <1>1, <2>1 DEF Stage
    <3>2. QED
      BY <1>2, <1>11, <2>5, <3>1 DEF TypeOK, Send, node, closer
  <2>7. Phases'
    BY <1>2, <1>11 DEF Phases, Send, closer
  <2>8. Delivered'
    <3>1. main /= "idle" /\ Len(results) = total
      BY <1>7 DEF Delivered
    <3>2. m.idx = i /\ m.r = CheckOf(i)
      BY DEF m
    <3>3. ASSUME NEW k \in 1..Len(ch')
          PROVE  ch'[k].idx \in 1..total /\ ch'[k].r = CheckOf(ch'[k].idx)
      <4>1. CASE k = Len(ch')
        BY <1>3, <2>5, <3>2, <4>1
      <4>2. CASE k /= Len(ch')
        BY <2>5, <3>1, <4>2 DEF Delivered
      <4>3. QED
        BY <4>1, <4>2
    <3>4. ASSUME NEW j \in 1..total, worker'[j] \in {"sent", "released", "done"}
          PROVE  results[j] = CheckOf(j) \/ \E k \in 1..Len(ch') : ch'[k].idx = j
      <4>1. CASE j = i
        BY <2>5, <3>2, <4>1
      <4>2. CASE j /= i
        <5>1. worker[j] \in {"sent", "released", "done"}
          BY <1>1, <2>1, <3>4, <4>2
        <5>2. results[j] = CheckOf(j) \/ \E k \in 1..Len(ch) : ch[k].idx = j
          BY <3>1, <5>1 DEF Delivered
        <5>3. QED
          BY <2>5, <5>2
      <4>3. QED
        BY <4>1, <4>2
    <3>5. QED
      BY <1>2, <3>1, <3>3, <3>4 DEF Delivered
  <2>9. QED
    BY <1>5, <1>8, <2>3, <2>6, <2>7, <2>8
<1>12. CASE Release(i)
  <2>1. worker' = [worker EXCEPT ![i] = "released"] /\ worker[i] = "sent"
    BY <1>12 DEF Release
  <2>2. /\ Cardinality(Busy)' = Cardinality(Busy)
        /\ Cardinality(Holding)' = Cardinality(Holding) - 1
        /\ Cardinality(Holding)' \in Nat
    <3>1. Cardinality(Holding) \in Nat \ {0}
      <4>1. i \in Holding
        BY <2>1 DEF Holding, In
      <4>2. QED
        BY <4>1, WorkersFinite, NobodyIn, FS_CardinalityType DEF Holding
    <3>2. Cardinality(Busy)' = Cardinality(Busy)
      BY <1>1, <2>1, WorkerMoves DEF Busy, Stage
    <3>3. Cardinality(Holding)' = Cardinality(Holding) - 1
      BY <1>1, <2>1, WorkerMoves DEF Holding, Stage
    <3>4. QED
      BY <3>1, <3>2, <3>3
  <2>3. Counted'
    BY <1>12, <2>2 DEF Counted, Release
  <2>4. TypeOK'
    <3>1. sem' \in 0..Limit
      BY <1>1, <1>12, <2>2, <2>3 DEF Release, Counted
    <3>2. worker' \in [Index -> Stage]
      BY <1>1, <2>1 DEF Stage
    <3>3. QED
      BY <1>2, <1>12, <3>1, <3>2 DEF TypeOK, Release, node, closer
  <2>5. Phases'
    BY <1>2, <1>12 DEF Phases, Release, closer
  <2>6. Delivered'
    BY <1>1, <1>2, <1>12, <2>1 DEF Delivered, Release
  <2>7. QED
    BY <1>5, <1>8, <2>3, <2>4, <2>5, <2>6
<1>13. CASE Done(i)
  <2>1. worker' = [worker EXCEPT ![i] = "done"] /\ worker[i] = "released"
    BY <1>13 DEF Done
  <2>2. /\ Cardinality(Busy)' = Cardinality(Busy) - 1
        /\ Cardinality(Holding)' = Cardinality(Holding)
    BY <1>1, <2>1, WorkerMoves DEF Busy, Holding, Stage
  <2>3. Counted'
    BY <1>13, <2>2 DEF Counted, Done
  <2>4. TypeOK'
    <3>1. wg' \in 0..total
      BY <1>1, <1>7, <1>13 DEF Done
    <3>2. worker' \in [Index -> Stage]
      BY <1>1, <2>1 DEF Stage
    <3>3. QED
      BY <1>2, <1>13, <3>1, <3>2 DEF TypeOK, Done, node, closer
  <2>5. Phases'
    BY <1>2, <1>7, <1>13 DEF Phases, Done, closer
  <2>6. Delivered'
    BY <1>1, <1>2, <1>13, <2>1 DEF Delivered, Done
  <2>7. QED
    BY <1>5, <1>8, <2>3, <2>4, <2>5, <2>6
<1>14. QED
  BY <1>10, <1>11, <1>12, <1>13 DEF Worker

--------------------------------------------------------------------------------
(* Steps of the main goroutine, the closer and the listener *)

\* No worker is in a stage at all while none has started.
LEMMA NobodyStarted ==
  ASSUME NEW stages, "none" \notin stages, worker = [i \in Index |-> "none"]
  PROVE  Cardinality(In(stages)) = 0
<1>1. In(stages) = {}
  BY DEF In
<1>2. QED
  BY <1>1, NobodyIn

LEMMA StartStep ==
  ASSUME CycleInv, StartCycle
  PROVE  CycleInv'
<1>1. /\ peers' \in Lists(MaxPeers) /\ ExtraTargets' \in Lists(MaxExtras)
      /\ Peers' = Peers /\ ExtraTargets' = ExtraTargets
  BY DEF CycleInv, TypeOK, StartCycle, node
<1>2. total' \in Nat
  BY <1>1, TargetFacts DEF total
<1>3. /\ results' \in Seq(Result)
      /\ Len(results') = total'
  <2>1. NoResult \in Result
    BY DEF NoResult, Result
  <2>2. results' = [i \in 1..total' |-> NoResult]
    BY DEF StartCycle
  <2>3. QED
    BY <1>2, <2>1, <2>2
<1>4. TypeOK'
  <2>1. worker' \in [Index -> Stage]
    BY DEF StartCycle, Stage
  <2>2. ch' \in Seq([idx : Index, r : Result])
    BY DEF StartCycle
  <2>3. spawned' \in 0..total' /\ sem' \in 0..Limit /\ wg' \in 0..total'
    BY <1>2, CycleAssumption DEF StartCycle
  <2>4. QED
    BY <1>1, <1>3, <2>1, <2>2, <2>3 DEF CycleInv, TypeOK, StartCycle
<1>5. Counted'
  <2>1. worker' = [i \in Index |-> "none"] /\ wg' = 0 /\ sem' = 0
    BY DEF StartCycle
  <2>2. Busy' = {} /\ Holding' = {}
    BY <2>1 DEF Busy, Holding, In
  <2>3. QED
    BY <2>1, <2>2, FS_EmptySet DEF Counted
<1>6. Started'
  BY CycleAssumption DEF StartCycle, Started, Index
<1>7. Phases'
  BY <1>2 DEF StartCycle, Phases
<1>8. Delivered'
  <2>1. Len(ch') = 0
    BY DEF StartCycle
  <2>2. \A i \in 1..total' : worker'[i] = "none"
    BY <1>1, TargetFacts DEF StartCycle, total
  <2>3. QED
    BY <1>3, <2>1, <2>2 DEF Delivered
<1>9. Drained'
  BY DEF StartCycle, Drained
<1>10. QED
  BY <1>4, <1>5, <1>6, <1>7, <1>8, <1>9 DEF CycleInv

LEMMA SpawnStep ==
  ASSUME CycleInv, Spawn
  PROVE  CycleInv'
<1> USE DEF CycleInv
<1> DEFINE n == spawned + 1
<1>1. /\ total \in Nat /\ 1..total \subseteq Index /\ Index \subseteq Nat
      /\ worker \in [Index -> Stage] /\ spawned \in 0..total /\ wg \in 0..total
      /\ n \in 1..total
  BY CheckTypes DEF TypeOK, Spawn, Index
<1>2. /\ UNCHANGED <<node, main, peers, sem, ch, closer, results>>
      /\ total' = total
      /\ \A k \in 1..total : CheckOf(k)' = CheckOf(k)
      /\ spawned' = n
      /\ wg' = wg + 1
      /\ main = "spawn"
  BY DEF Spawn, total, CheckOf, node
<1>3. worker[n] = "none"
  BY <1>1 DEF Started
<1>4. worker' = [worker EXCEPT ![n] = "ready"] /\ n \in Index
  BY <1>1 DEF Spawn
<1> HIDE DEF n
<1>5. /\ Cardinality(Busy)' = Cardinality(Busy) + 1
      /\ Cardinality(Holding)' = Cardinality(Holding)
  BY <1>1, <1>3, <1>4, WorkerMoves DEF Busy, Holding, Stage
<1>6. Counted'
  BY <1>2, <1>5 DEF Counted
<1>7. wg <= spawned
  <2>1. Busy \subseteq 1..spawned
    BY <1>1 DEF Busy, In, Started, Index
  <2>2. IsFiniteSet(1..spawned) /\ Cardinality(1..spawned) = spawned
    BY <1>1, FS_Interval
  <2>3. QED
    BY <2>1, <2>2, FS_Subset DEF Counted
<1>8. TypeOK'
  <2>1. wg' \in 0..total
    BY <1>1, <1>2, <1>7 DEF n
  <2>2. worker' \in [Index -> Stage]
    BY <1>1, <1>4 DEF Stage
  <2>3. QED
    BY <1>1, <1>2, <2>1, <2>2 DEF TypeOK, node, closer
<1>9. Started'
  BY <1>1, <1>2, <1>3, <1>4 DEF Started, n
<1>10. Phases'
  BY <1>2 DEF Phases, closer
<1>11. Delivered'
  BY <1>1, <1>2, <1>3, <1>4 DEF Delivered
<1>12. Drained'
  BY <1>2 DEF Drained
<1>13. QED
  BY <1>6, <1>8, <1>9, <1>10, <1>11, <1>12

LEMMA CollectStep ==
  ASSUME CycleInv, Collect
  PROVE  CycleInv'
<1> USE DEF CycleInv
<1> DEFINE Message == [idx : Index, r : Result]
           h == Head(ch)
<1>1. /\ total \in Nat /\ 1..total \subseteq Index
      /\ ch \in Seq(Message) /\ ch /= <<>>
      /\ results \in Seq(Result)
      /\ main = "collect"
      /\ Len(results) = total
  BY CheckTypes DEF TypeOK, Collect, Delivered
<1>2. /\ UNCHANGED <<node, main, peers, spawned, worker, sem, wg, closer>>
      /\ total' = total
      /\ \A k \in 1..total : CheckOf(k)' = CheckOf(k)
      /\ Busy' = Busy /\ Holding' = Holding
  BY DEF Collect, total, CheckOf, node, Busy, Holding, In
<1>3. /\ ch' \in Seq(Message)
      /\ Len(ch) \in Nat
      /\ Len(ch') = Len(ch) - 1
      /\ \A k \in 1..Len(ch') : ch'[k] = ch[k + 1]
  BY <1>1, HeadTailProperties DEF Collect
<1>4. h = ch[1] /\ 1 \in 1..Len(ch)
  BY <1>1
<1>5. h.idx \in 1..total /\ h.r = CheckOf(h.idx) /\ h.r \in Result
  BY <1>1, <1>4, CheckTypes DEF Delivered
<1>6. results' = [results EXCEPT ![h.idx] = h.r]
  BY DEF Collect
<1> HIDE DEF h, Message
<1>7. /\ results' \in Seq(Result)
      /\ Len(results') = total
      /\ \A j \in 1..total : results'[j] = IF j = h.idx THEN h.r ELSE results[j]
  BY <1>1, <1>5, <1>6, ExceptSeq
<1>8. Counted'
  BY <1>2 DEF Counted
<1>9. TypeOK'
  BY <1>2, <1>3, <1>7 DEF TypeOK, node, closer, Message
<1>10. Started'
  BY <1>2 DEF Started
<1>11. Phases'
  BY <1>2 DEF Phases, closer
<1>12. Delivered'
  <2>1. ASSUME NEW k \in 1..Len(ch')
        PROVE  ch'[k].idx \in 1..total /\ ch'[k].r = CheckOf(ch'[k].idx)
    <3>1. k + 1 \in 1..Len(ch) /\ ch'[k] = ch[k + 1]
      BY <1>3
    <3>2. ch[k + 1].idx \in 1..total /\ ch[k + 1].r = CheckOf(ch[k + 1].idx)
      BY <1>1, <3>1 DEF Delivered
    <3>3. QED
      BY <3>1, <3>2
  <2>2. ASSUME NEW j \in 1..total, worker[j] \in {"sent", "released", "done"}
        PROVE  results'[j] = CheckOf(j) \/ \E k \in 1..Len(ch') : ch'[k].idx = j
    <3>1. CASE j = h.idx
      BY <1>5, <1>7, <3>1
    <3>2. CASE j /= h.idx
      <4>1. CASE results[j] = CheckOf(j)
        BY <1>7, <3>2, <4>1
      <4>2. CASE \E k \in 1..Len(ch) : ch[k].idx = j
        <5>1. PICK k \in 1..Len(ch) : ch[k].idx = j
          BY <4>2
        <5>2. k /= 1
          BY <1>4, <3>2, <5>1
        <5>3. k - 1 \in 1..Len(ch') /\ ch'[k - 1] = ch[k]
          BY <1>3, <5>2
        <5>4. QED
          BY <5>1, <5>3
      <4>3. QED
        BY <1>1, <2>2, <4>1, <4>2 DEF Delivered
    <3>3. QED
      BY <3>1, <3>2
  <2>3. QED
    BY <1>1, <1>2, <1>7, <2>1, <2>2 DEF Delivered
<1>13. Drained'
  BY <1>1, <1>2 DEF Drained
<1>14. QED
  BY <1>8, <1>9, <1>10, <1>11, <1>12, <1>13

\* The steps that move only the program counter of the main goroutine, the
\* closer or the peers that the next cycle will take.
LEMMA OtherStep ==
  ASSUME CycleInv,
         \/ \E list \in Lists(MaxPeers) : UpdatePeers(list)
         \/ SpawnCloser \/ Return \/ NextCycle \/ Close
         \/ UNCHANGED vars
  PROVE  CycleInv'
<1> USE DEF CycleInv
<1>1. UNCHANGED <<ExtraTargets, peers, spawned, worker, sem, wg, ch, results>>
  BY DEF UpdatePeers, SpawnCloser, Return, NextCycle, Close, vars, node, pool, closer
<1>2. /\ total' = total
      /\ \A k : CheckOf(k)' = CheckOf(k)
      /\ Busy' = Busy /\ Holding' = Holding
      /\ total \in Nat
  BY <1>1, CheckTypes DEF total, CheckOf, Busy, Holding, In
<1>3. TypeOK'
  BY <1>1, <1>2 DEF TypeOK, UpdatePeers, SpawnCloser, Return, NextCycle, Close, vars, node,
                    pool, closer
<1>4. Counted' /\ Started'
  BY <1>1, <1>2 DEF Counted, Started
<1>5. Phases'
  BY <1>1, <1>2 DEF Phases, UpdatePeers, SpawnCloser, Return, NextCycle, Close, vars, node,
                    pool, closer
<1>6. Delivered'
  BY <1>1, <1>2 DEF Delivered, UpdatePeers, SpawnCloser, Return, NextCycle, Close, vars
<1>7. Drained'
  BY <1>1 DEF Drained, UpdatePeers, SpawnCloser, Return, NextCycle, Close, vars
<1>8. QED
  BY <1>3, <1>4, <1>5, <1>6, <1>7

--------------------------------------------------------------------------------
(* The invariant and its consequences *)

LEMMA CycleInit ==
  ASSUME Init
  PROVE  CycleInv
<1>1. /\ <<>> \in Lists(MaxPeers)
      /\ Peers = <<>> /\ peers = <<>>
  <2>1. <<>> \in [1..0 -> Target]
    OBVIOUS
  <2>2. 0 \in 0..MaxPeers
    BY CycleAssumption
  <2>3. QED
    BY <2>1, <2>2 DEF Init, Lists
<1>2. total \in Nat
  BY <1>1, TargetFacts DEF Init, total
<1>3. TypeOK
  <2>1. worker \in [Index -> Stage]
    BY DEF Init, Stage
  <2>2. spawned \in 0..total /\ sem \in 0..Limit /\ wg \in 0..total
    BY <1>2, CycleAssumption DEF Init
  <2>3. ch \in Seq([idx : Index, r : Result]) /\ results \in Seq(Result)
    BY DEF Init
  <2>4. ExtraTargets \in Lists(MaxExtras) /\ main = "idle" /\ ~closing /\ ~closed
    BY DEF Init
  <2>5. closing \in BOOLEAN /\ closed \in BOOLEAN
    BY DEF Init
  <2>6. QED
    BY <1>1, <2>1, <2>2, <2>3, <2>4, <2>5 DEF TypeOK
<1>4. Counted
  BY NobodyStarted DEF Init, Counted, Busy, Holding
<1>5. Started /\ Phases /\ Delivered /\ Drained
  BY CycleAssumption DEF Init, Started, Phases, Delivered, Drained, Index
<1>6. QED
  BY <1>3, <1>4, <1>5 DEF CycleInv

LEMMA CycleInvariant == Spec => []CycleInv
<1>1. CycleInv /\ [Next]_vars => CycleInv'
  BY WorkerStep, StartStep, SpawnStep, CollectStep, OtherStep DEF Next, Main
<1>2. QED
  BY CycleInit, <1>1, PTL DEF Spec

\* Every variable of a check cycle keeps its range, however many targets.
THEOREM CycleTypes == Spec => []TypeOK
<1>1. CycleInv => TypeOK
  BY DEF CycleInv
<1>2. QED
  BY CycleInvariant, <1>1, PTL

\* The semaphore bounds the checks that run at a time.
THEOREM ChecksBounded == Spec => []PoolBounded
<1>1. CycleInv => PoolBounded
  BY DEF CycleInv, TypeOK, Counted, Holding, PoolBounded
<1>2. QED
  BY CycleInvariant, <1>1, PTL

\* No worker sends on a closed channel.
THEOREM ChannelSafe == Spec => []NoSendAfterClose
<1>1. CycleInv => NoSendAfterClose
  <2>1. SUFFICES ASSUME CycleInv, closed
                 PROVE  In({"ready", "checking"}) = {}
    BY DEF NoSendAfterClose
  <2>2. Busy = {}
    BY <2>1, NobodyIn DEF CycleInv, Phases, Counted, Busy
  <2>3. QED
    BY <2>2 DEF Busy, In
<1>2. QED
  BY CycleInvariant, <1>1, PTL

\* No goroutine outlives its cycle.
THEOREM CyclesEndClean == Spec => []NoneLeftBehind
<1>1. CycleInv => NoneLeftBehind
  <2>1. SUFFICES ASSUME CycleInv, main \in {"idle", "returned"}, NEW i \in Index
                 PROVE  worker[i] \in {"none", "done"}
    BY DEF NoneLeftBehind
  <2>2. CASE spawned = 0
    BY <2>1, <2>2, CycleAssumption DEF CycleInv, Started, Index
  <2>3. CASE closed
    <3>1. Busy = {}
      BY <2>1, <2>3, NobodyIn DEF CycleInv, Phases, Counted, Busy
    <3>2. worker[i] \in Stage
      BY <2>1 DEF CycleInv, TypeOK
    <3>3. QED
      BY <3>1, <3>2 DEF Busy, In, Stage
  <2>4. QED
    BY <2>1, <2>2, <2>3 DEF CycleInv, Phases
<1>2. QED
  BY CycleInvariant, <1>1, PTL

\* A cycle returns the result of every target it started with, in its place.
THEOREM ResultsComplete == Spec => []AllChecked
<1>1. CycleInv /\ NoneLeftBehind => AllChecked
  <2>1. SUFFICES ASSUME CycleInv, NoneLeftBehind, main = "returned"
                 PROVE  /\ Len(results) = total
                        /\ \A i \in 1..total : results[i] = CheckOf(i)
    BY DEF AllChecked
  <2>2. Len(results) = total /\ spawned = total /\ ch = <<>>
    BY <2>1 DEF CycleInv, Delivered, Phases, Drained
  <2>3. ASSUME NEW i \in 1..total
        PROVE  results[i] = CheckOf(i)
    <3>1. i \in Index /\ total \in Nat
      BY <2>1, CheckTypes DEF CycleInv
    <3>2. worker[i] = "done"
      BY <2>1, <2>2, <3>1 DEF CycleInv, Started, NoneLeftBehind
    <3>3. Len(ch) = 0
      BY <2>2
    <3>4. QED
      BY <2>1, <3>2, <3>3 DEF CycleInv, Delivered
  <2>4. QED
    BY <2>2, <2>3
<1>2. QED
  BY CycleInvariant, CyclesEndClean, <1>1, PTL

================================================================================
