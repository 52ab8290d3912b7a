-------------------------- MODULE ResultsStore_proofs --------------------------
(* Proofs of the invariants of ResultsStore for every value of its constants. *)
EXTENDS ResultsStore, TLAPS

--------------------------------------------------------------------------------
(* Facts about the helpers *)

\* Lines of a check, or copies of it in memory, are a number.
LEMMA CopiesNat ==
  ASSUME NEW bag \in Bag, NEW c \in Check
  PROVE  /\ Copies(bag, c) \in Nat
         /\ bag[c]["plain"] \in Nat
         /\ bag[c]["extra"] \in Nat
<1>1. bag[c] \in [Flag -> Nat]
  BY DEF Bag
<1>2. bag[c]["plain"] \in Nat /\ bag[c]["extra"] \in Nat
  BY <1>1 DEF Flag
<1>3. QED
  BY <1>2 DEF Copies

\* An empty bag holds no copy.
LEMMA EmptyStore ==
  /\ Empty \in Bag
  /\ Zero \in [Check -> Nat]
  /\ \A c \in Check : Copies(Empty, c) = 0 /\ Zero[c] = 0
BY DEF Empty, NoCopies, Bag, Copies, Zero, Flag

\* A bag with a copy of some check is not the empty one.
LEMMA NotEmpty ==
  ASSUME NEW bag \in Bag, NEW c \in Check, Copies(bag, c) > 0
  PROVE  bag /= Empty
BY EmptyStore

\* Whether two times fall into the same day file respects their order: what is
\* within the retention window is in one of the files ReadResults opens.
LEMMA DayMonotone ==
  ASSUME NEW s \in Int, NEW t \in Int, s <= t
  PROVE  Day(s) <= Day(t)
<1>1. DayLength \in Nat \ {0}
  BY StoreAssumption
<1>2. QED
  BY <1>1, Z3T(30) DEF Day
--------------------------------------------------------------------------------
(* What the operations do to one check *)

\* AppendResults only adds lines, and at least one for each check it writes.
LEMMA AppendFacts ==
  ASSUME TypeOK, NEW W \in SUBSET Check, AppendResults(W)
  PROVE  /\ disk' \in Bag
         /\ \A c \in Check :
              /\ Copies(disk', c) = IF c \in W THEN Copies(disk, c) + Copies(results, c)
                                               ELSE Copies(disk, c)
              /\ Copies(disk', c) >= Copies(disk, c)
<1>1. results \in Bag /\ disk \in Bag
  BY DEF TypeOK
<1>2. ASSUME NEW c \in Check
      PROVE  disk'[c] = IF c \in W THEN [x \in Flag |-> disk[c][x] + results[c][x]]
                                   ELSE disk[c]
  BY DEF AppendResults
<1>3. ASSUME NEW c \in Check
      PROVE  /\ disk'[c] \in [Flag -> Nat]
             /\ disk'[c]["plain"] = IF c \in W THEN disk[c]["plain"] + results[c]["plain"]
                                               ELSE disk[c]["plain"]
             /\ disk'[c]["extra"] = IF c \in W THEN disk[c]["extra"] + results[c]["extra"]
                                               ELSE disk[c]["extra"]
  <2>1. disk[c] \in [Flag -> Nat] /\ results[c] \in [Flag -> Nat]
    BY <1>1 DEF Bag
  <2>2. CASE c \in W
    <3>1. \A x \in Flag : disk[c][x] + results[c][x] \in Nat
      BY <2>1
    <3>2. disk'[c] = [x \in Flag |-> disk[c][x] + results[c][x]]
      BY <1>2, <2>2
    <3>3. disk'[c] \in [Flag -> Nat]
      BY <3>1, <3>2
    <3>4. "plain" \in Flag /\ "extra" \in Flag
      BY DEF Flag
    <3>5. QED
      BY <2>2, <3>2, <3>3, <3>4
  <2>3. CASE c \notin W
    BY <1>2, <2>1, <2>3 DEF Flag
  <2>4. QED
    BY <2>2, <2>3
<1>4. disk' \in Bag
  BY <1>3 DEF Bag, AppendResults
<1>5. ASSUME NEW c \in Check
      PROVE  /\ Copies(disk', c) = IF c \in W THEN Copies(disk, c) + Copies(results, c)
                                              ELSE Copies(disk, c)
             /\ Copies(disk', c) >= Copies(disk, c)
  BY <1>1, <1>3, CopiesNat DEF Copies
<1>6. QED
  BY <1>4, <1>5

\* MoveOld keeps the type of the store and the sum of raw and aggregated
\* copies, and aggregates nothing that is still within the 90 hours.
LEMMA MoveFacts ==
  ASSUME TypeOK, MoveOld
  PROVE  /\ results' \in Bag
         /\ dayAggregates' \in [Check -> Nat]
         /\ \A c \in Check :
              /\ Copies(results', c) = IF Recent(c) THEN Copies(results, c) ELSE 0
              /\ dayAggregates'[c] = IF Recent(c) THEN dayAggregates[c]
                                     ELSE dayAggregates[c] + Copies(results, c)
<1>1. results \in Bag /\ dayAggregates \in [Check -> Nat]
  BY DEF TypeOK
<1>2. NoCopies \in [Flag -> Nat]
  BY DEF NoCopies
<1>3. results' \in Bag
  BY <1>1, <1>2 DEF MoveOld, Bag
<1>4. dayAggregates' \in [Check -> Nat]
  BY <1>1, CopiesNat DEF MoveOld
<1>5. ASSUME NEW c \in Check
      PROVE  /\ Copies(results', c) = IF Recent(c) THEN Copies(results, c) ELSE 0
             /\ dayAggregates'[c] = IF Recent(c) THEN dayAggregates[c]
                                    ELSE dayAggregates[c] + Copies(results, c)
  BY DEF MoveOld, Copies, NoCopies, Flag
<1>6. QED
  BY <1>3, <1>4, <1>5

\* The effect of one flushOnce on every check, written errors included.
LEMMA FlushFacts ==
  ASSUME TypeOK, NEW F \in SUBSET Batch, FlushOnce(F)
  PROVE  /\ results' \in Bag
         /\ disk' \in Bag
         /\ dayAggregates' \in [Check -> Nat]
         /\ written' \in [Check -> Nat]
         /\ lastFlushTimestamp' \in {now, lastFlushTimestamp}
         /\ results /= Empty => lastFlushTimestamp' = now
         /\ \A c \in Check :
              /\ Copies(results', c) + dayAggregates'[c] = Copies(results, c) + dayAggregates[c]
              /\ Copies(results', c) <= Copies(results, c)
              /\ dayAggregates'[c] > 0 => dayAggregates[c] > 0 \/ ~Recent(c)
              /\ Copies(disk', c) >= Copies(disk, c)
              /\ c \in Batch \ F => Copies(disk', c) > 0
              /\ written'[c] = IF c \in Batch \ F THEN written[c] + Copies(results, c)
                                                  ELSE written[c]
<1>1. /\ results \in Bag /\ disk \in Bag /\ dayAggregates \in [Check -> Nat]
      /\ written \in [Check -> Nat] /\ Batch \subseteq Check
  BY DEF TypeOK, Batch
<1>2. /\ written' \in [Check -> Nat]
      /\ \A c \in Check : written'[c] = IF c \in Batch \ F THEN written[c] + Copies(results, c)
                                                          ELSE written[c]
  BY <1>1, CopiesNat DEF FlushOnce
<1>3. \A c \in Check : /\ Copies(results, c) \in Nat /\ Copies(disk, c) \in Nat
                       /\ dayAggregates[c] \in Nat
  BY <1>1, CopiesNat
<1>4. CASE results = Empty /\ UNCHANGED store
  <2>1. \A c \in Check : Copies(results, c) = 0
    BY <1>4, EmptyStore
  <2>2. Batch = {}
    BY <2>1 DEF Batch
  <2>3. \A c \in Check : /\ Copies(results', c) = Copies(results, c)
                         /\ Copies(disk', c) = Copies(disk, c)
    BY <1>4 DEF store, Copies
  <2>4. QED
    BY <1>1, <1>2, <1>3, <1>4, <2>2, <2>3 DEF store
<1>5. CASE /\ results /= Empty
           /\ MoveOld
           /\ AppendResults(Batch \ F)
           /\ lastFlushTimestamp' = now
  <2>1. \A c \in Batch : Copies(results, c) > 0
    BY DEF Batch
  <2>2. Batch \ F \in SUBSET Check
    BY <1>1
  <2>3. /\ disk' \in Bag
        /\ \A c \in Check :
             /\ Copies(disk', c) >= Copies(disk, c)
             /\ c \in Batch \ F => Copies(disk', c) > 0
    BY <1>3, <1>5, <2>1, <2>2, AppendFacts
  <2>4. QED
    BY <1>2, <1>3, <1>5, <2>3, MoveFacts
<1>6. QED
  BY <1>4, <1>5 DEF FlushOnce
\* LoadIntoMemory puts every line it reads either into the raw results or into
\* the aggregates, never into both.
LEMMA LoadFacts ==
  ASSUME TypeOK, LoadIntoMemory
  PROVE  /\ results' \in Bag
         /\ dayAggregates' \in [Check -> Nat]
         /\ \A c \in Check :
              /\ Copies(results', c) = IF OnFile(c) /\ Recent(c) THEN Copies(disk, c) ELSE 0
              /\ dayAggregates'[c] = IF OnFile(c) /\ ~Recent(c) THEN Copies(disk, c) ELSE 0
<1>1. \A c \in Check : Copies(disk, c) \in Nat
  BY CopiesNat DEF TypeOK
<1>2. ASSUME NEW c \in Check
      PROVE  results'[c] = [x \in Flag |->
               IF x = "plain" /\ OnFile(c) /\ Recent(c) THEN Copies(disk, c) ELSE 0]
  BY DEF LoadIntoMemory
<1>3. ASSUME NEW c \in Check
      PROVE  /\ results'[c] \in [Flag -> Nat]
             /\ results'[c]["plain"] = IF OnFile(c) /\ Recent(c) THEN Copies(disk, c) ELSE 0
             /\ results'[c]["extra"] = 0
  <2> DEFINE n == IF OnFile(c) /\ Recent(c) THEN Copies(disk, c) ELSE 0
  <2>1. n \in Nat
    BY <1>1
  <2>2. results'[c] = [x \in Flag |-> IF x = "plain" THEN n ELSE 0]
    BY <1>2
  <2> HIDE DEF n
  <2>3. /\ results'[c] \in [Flag -> Nat]
        /\ results'[c]["plain"] = n
        /\ results'[c]["extra"] = 0
    BY <2>1, <2>2 DEF Flag
  <2>4. QED
    BY <2>3 DEF n
<1>4. results' \in Bag
  BY <1>3 DEF Bag, LoadIntoMemory
<1>5. dayAggregates' \in [Check -> Nat]
  BY <1>1 DEF LoadIntoMemory
<1>6. \A c \in Check :
        dayAggregates'[c] = IF OnFile(c) /\ ~Recent(c) THEN Copies(disk, c) ELSE 0
  BY DEF LoadIntoMemory
<1>7. \A c \in Check :
        Copies(results', c) = IF OnFile(c) /\ Recent(c) THEN Copies(disk, c) ELSE 0
  BY <1>1, <1>3 DEF Copies
<1>8. QED
  BY <1>4, <1>5, <1>6, <1>7

\* A submit adds one copy of each check it carries, and nothing else.
LEMMA SubmitFacts ==
  ASSUME TypeOK, NEW S \in SUBSET Check, Submit(S)
  PROVE  /\ results' \in Bag
         /\ acked' \in [Check -> Nat]
         /\ base' \in [Check -> Nat]
         /\ \A c \in Check :
              /\ Copies(results', c) = IF c \in S THEN Copies(results, c) + 1
                                                  ELSE Copies(results, c)
              /\ acked'[c] = IF c \in S THEN acked[c] + 1 ELSE acked[c]
              /\ base'[c] = IF c \in S THEN base[c] + 1 ELSE base[c]
<1>1. results \in Bag
  BY DEF TypeOK
<1>2. ASSUME NEW c \in Check
      PROVE  /\ results'[c] \in [Flag -> Nat]
             /\ Copies(results', c) = IF c \in S THEN Copies(results, c) + 1
                                                 ELSE Copies(results, c)
  <2>1. results[c] \in [Flag -> Nat] /\ FlagOf(c) \in Flag
    BY <1>1 DEF Bag, FlagOf, Flag
  <2>2. CASE c \notin S
    BY <2>1, <2>2 DEF Submit, Copies
  <2>3. CASE c \in S
    <3>1. results'[c] = [results[c] EXCEPT ![FlagOf(c)] = @ + 1]
      BY <2>3 DEF Submit
    <3>2. results'[c] \in [Flag -> Nat]
      BY <2>1, <3>1
    <3>3. CASE FlagOf(c) = "plain"
      <4>1. /\ results'[c]["plain"] = results[c]["plain"] + 1
            /\ results'[c]["extra"] = results[c]["extra"]
        BY <2>1, <3>1, <3>3 DEF Flag
      <4>2. QED
        BY <1>1, <2>3, <3>2, <4>1, CopiesNat DEF Copies
    <3>4. CASE FlagOf(c) = "extra"
      <4>1. /\ results'[c]["plain"] = results[c]["plain"]
            /\ results'[c]["extra"] = results[c]["extra"] + 1
        BY <2>1, <3>1, <3>4 DEF Flag
      <4>2. QED
        BY <1>1, <2>3, <3>2, <4>1, CopiesNat DEF Copies
    <3>5. QED
      BY <3>3, <3>4 DEF FlagOf
  <2>4. QED
    BY <2>2, <2>3
<1>3. results' \in Bag
  BY <1>2 DEF Bag, Submit
<1>4. /\ acked' \in [Check -> Nat]
      /\ base' \in [Check -> Nat]
      /\ \A c \in Check :
           /\ acked'[c] = IF c \in S THEN acked[c] + 1 ELSE acked[c]
           /\ base'[c] = IF c \in S THEN base[c] + 1 ELSE base[c]
  BY DEF Submit, TypeOK
<1>5. QED
  BY <1>2, <1>3, <1>4

--------------------------------------------------------------------------------
(* Types *)

LEMMA MeasuredAreChecks == Measured \subseteq Check /\ Batch \subseteq Check
BY DEF Measured, Batch

\* Every step of the store keeps its types.
LEMMA TypeStep == TypeOK /\ [Next]_vars => TypeOK'
<1> SUFFICES ASSUME TypeOK, [Next]_vars
             PROVE  TypeOK'
  OBVIOUS
<1>1. CASE Tick
  BY <1>1 DEF Tick, TypeOK, store, history
<1>2. CASE NewLeader
  <2>1. /\ results' \in Bag /\ dayAggregates' \in [Check -> Nat]
        /\ lastFlushTimestamp' = Never
    BY <1>2, LoadFacts DEF NewLeader, LoadIntoMemory
  <2>2. base' \in [Check -> Nat] /\ written' \in [Check -> Nat]
    BY <1>2, CopiesNat, EmptyStore DEF NewLeader, TypeOK
  <2>3. timer' \in Nat /\ starts' \in Nat /\ phase' \in Phase
    BY <1>2, StoreAssumption DEF NewLeader, TypeOK, Phase
  <2>4. QED
    BY <1>2, <2>1, <2>2, <2>3 DEF NewLeader, TypeOK, Never
<1>3. ASSUME NEW W \in SUBSET Batch, Forget(W)
      PROVE  TypeOK'
  <2>1. disk' \in Bag
    BY <1>3, AppendFacts, MeasuredAreChecks DEF Forget
  <2>2. lost' \subseteq Check /\ fresh' \subseteq Check /\ phase' \in Phase
    BY <1>3 DEF Forget, TypeOK, Phase
  <2>3. QED
    BY <1>3, <2>1, <2>2, EmptyStore DEF Forget, TypeOK, Never
<1>4. CASE Exit
  BY <1>3, <1>4 DEF Exit
<1>5. CASE \E c \in Check : Measure(c)
  <2>1. PICK c \in Check : Measure(c)
    BY <1>5
  <2>2. PICK s \in 0..Skew : stamp' = [stamp EXCEPT ![c] = now + s]
    BY <2>1 DEF Measure
  <2>3. stamp' \in [Check -> Nat]
    BY <2>2, StoreAssumption DEF TypeOK
  <2>4. QED
    BY <2>1, <2>3 DEF Measure, TypeOK, store, history
<1>6. CASE \E S \in SUBSET Measured : Submit(S)
  <2>1. PICK S \in SUBSET Check : Submit(S)
    BY <1>6, MeasuredAreChecks
  <2>2. fresh' \subseteq Check /\ overdue' \subseteq Check
    BY <2>1 DEF Submit, TypeOK
  <2>3. QED
    BY <2>1, <2>2, SubmitFacts DEF Submit, TypeOK
<1>7. ASSUME NEW F \in SUBSET Batch, FlushOnce(F),
             phase' \in Phase, timer' \in Nat, UNCHANGED <<now, starts, stamp>>
      PROVE  TypeOK'
  <2>1. lastFlushTimestamp' \in Nat
    BY <1>7, FlushFacts DEF TypeOK
  <2>2. failed' \subseteq Check /\ fresh' \subseteq Check
    BY <1>7, MeasuredAreChecks DEF FlushOnce, TypeOK
  <2>3. UNCHANGED <<acked, base, overdue, lost>>
    BY <1>7 DEF FlushOnce
  <2>4. QED
    BY <1>7, <2>1, <2>2, <2>3, FlushFacts DEF TypeOK
<1>8. CASE \E F \in SUBSET Batch : FlushTick(F)
  BY <1>7, <1>8, StoreAssumption DEF FlushTick, TypeOK
<1>9. CASE \E F \in SUBSET Batch : Stop(F)
  BY <1>7, <1>9 DEF Stop, TypeOK, Phase
<1>10. CASE \E F \in SUBSET Batch : Crash(F)
  BY <1>3, <1>10 DEF Crash
<1>11. CASE UNCHANGED vars
  BY <1>11 DEF vars, store, history, TypeOK
<1>12. QED
  BY <1>1, <1>2, <1>4, <1>5, <1>6, <1>8, <1>9, <1>10, <1>11 DEF Next

\* Every reachable state of the store is well typed.
THEOREM StoreTypes == Spec => []TypeOK
<1>1. Init => TypeOK
  BY EmptyStore, StoreAssumption DEF Init, TypeOK, Phase, Never
<1>2. QED
  BY <1>1, TypeStep, PTL DEF Spec
--------------------------------------------------------------------------------
(* The inductive invariant *)

\* Counts of a check are numbers.
LEMMA Counts ==
  ASSUME TypeOK, NEW c \in Check
  PROVE  /\ Copies(results, c) \in Nat /\ Copies(disk, c) \in Nat
         /\ dayAggregates[c] \in Nat /\ base[c] \in Nat /\ acked[c] \in Nat
         /\ written[c] \in Nat /\ stamp[c] \in Nat
BY CopiesNat DEF TypeOK

\* flushOnce keeps the invariant: what is pending is still recent when the
\* timer fires, so it is written, excused by a write error, or was late.
LEMMA FlushInv ==
  ASSUME StoreInv, NEW F \in SUBSET Batch, FlushOnce(F),
         phase /= "down", UNCHANGED <<now, stamp>>
  PROVE  Unmeasured' /\ MemoryConserved' /\ OnlyOldAggregated' /\ PendingOrDurable'
<1>1. TypeOK /\ UNCHANGED <<acked, base, overdue, lost>> /\ fresh' = {} /\ failed' = failed \cup F
  BY DEF StoreInv, FlushOnce
<1>2. \A c \in Check :
        /\ Copies(results', c) \in Nat
        /\ Copies(disk', c) \in Nat
        /\ dayAggregates'[c] \in Nat
  BY <1>1, FlushFacts, CopiesNat
<1>3. Unmeasured'
  <2>1. ASSUME NEW c \in Check, stamp[c] = Never
        PROVE  /\ Copies(results', c) = 0 /\ dayAggregates'[c] = 0
               /\ Copies(disk', c) = 0 /\ acked[c] = 0
    <3>1. Copies(results, c) = 0 /\ dayAggregates[c] = 0 /\ Copies(disk, c) = 0 /\ acked[c] = 0
      BY <2>1 DEF StoreInv, Unmeasured
    <3>2. Copies(results', c) + dayAggregates'[c] = 0
      BY <1>1, <3>1, FlushFacts
    <3>3. c \notin Batch
      BY <3>1 DEF Batch
    <3>4. Copies(disk', c) = Copies(disk, c)
      <4>1. CASE AppendResults(Batch \ F)
        BY <1>1, <3>3, <4>1, AppendFacts, MeasuredAreChecks
      <4>2. CASE UNCHANGED store
        BY <4>2 DEF store, Copies
      <4>3. QED
        BY <4>1, <4>2 DEF FlushOnce
    <3>5. QED
      BY <1>2, <3>1, <3>2, <3>4
  <2>2. QED
    BY <1>1, <2>1 DEF Unmeasured, Copies
<1>4. MemoryConserved'
  <2>1. \A c \in Check : Copies(results', c) + dayAggregates'[c] = base'[c]
    BY <1>1, FlushFacts DEF StoreInv, MemoryConserved
  <2>2. QED
    BY <2>1 DEF MemoryConserved, Copies
<1>5. OnlyOldAggregated'
  <2>1. ASSUME NEW c \in Check, dayAggregates'[c] > 0
        PROVE  stamp[c] < now - Window
    <3>1. dayAggregates[c] > 0 \/ ~Recent(c)
      BY <1>1, <2>1, FlushFacts
    <3>2. stamp[c] \in Int /\ now - Window \in Int
      BY <1>1, StoreAssumption DEF TypeOK
    <3>3. QED
      BY <3>1, <3>2 DEF StoreInv, OnlyOldAggregated, Recent
  <2>2. QED
    BY <2>1 DEF OnlyOldAggregated
<1>6. PendingOrDurable'
  <2>1. ASSUME NEW c \in Check, acked[c] > 0, c \notin overdue \cup failed' \cup lost
        PROVE  Copies(disk', c) > 0
    <3>1. Copies(disk', c) >= Copies(disk, c) /\ Copies(disk, c) \in Nat
      BY <1>1, FlushFacts, Counts
    <3>2. CASE Copies(disk, c) > 0
      BY <1>2, <3>1, <3>2
    <3>3. CASE /\ Copies(results, c) > 0
               /\ stamp[c] > lastFlushTimestamp
               /\ stamp[c] + Window >= timer
      <4>1. now <= timer /\ stamp[c] \in Nat /\ now \in Nat /\ timer \in Nat /\ Window \in Nat
        BY <1>1, Counts, StoreAssumption DEF StoreInv, FlushOnTime, TypeOK
      <4>2. Recent(c)
        BY <3>3, <4>1 DEF Recent
      <4>3. c \in Batch \ F
        BY <1>1, <2>1, <3>3, <4>2 DEF Batch
      <4>4. QED
        BY <1>1, <4>3, FlushFacts
    <3>4. c \notin Excused
      BY <1>1, <2>1 DEF Excused
    <3>5. QED
      BY <2>1, <3>2, <3>3, <3>4 DEF StoreInv, PendingOrDurable
  <2>2. QED
    BY <1>1, <2>1 DEF PendingOrDurable, Excused, Copies
<1>7. QED
  BY <1>3, <1>4, <1>5, <1>6
\* Losing the process keeps the invariant: what was neither on disk nor written
\* by the flush it died in is recorded as lost.
LEMMA ForgetInv ==
  ASSUME StoreInv, NEW W \in SUBSET Batch, Forget(W)
  PROVE  StoreInv'
<1>1. TypeOK /\ TypeOK' /\ W \in SUBSET Check
  BY MeasuredAreChecks, AppendFacts, EmptyStore DEF Forget, StoreInv, TypeOK, Phase, Never
<1>2. /\ UNCHANGED <<stamp, acked, overdue, failed>> /\ fresh' = {} /\ phase' = "down"
      /\ lost' = lost \cup (fresh \ W)
  BY DEF Forget
<1>3. \A c \in Check : /\ Copies(results', c) = 0 /\ dayAggregates'[c] = 0
                       /\ Copies(disk', c) >= Copies(disk, c)
                       /\ c \in W => Copies(disk', c) > 0
                       /\ c \notin W => Copies(disk', c) = Copies(disk, c)
  <2>1. \A c \in W : Copies(results, c) > 0
    BY DEF Batch
  <2>2. QED
    BY <1>1, <2>1, AppendFacts, EmptyStore, Counts DEF Forget
<1>4. Unmeasured'
  <2>1. ASSUME NEW c \in Check, stamp[c] = Never
        PROVE  Copies(disk', c) = 0 /\ acked[c] = 0
    <3>1. Copies(results, c) = 0 /\ Copies(disk, c) = 0 /\ acked[c] = 0
      BY <2>1 DEF StoreInv, Unmeasured
    <3>2. c \notin W
      BY <3>1 DEF Batch
    <3>3. QED
      BY <1>3, <3>1, <3>2
  <2>2. QED
    BY <1>2, <1>3, <2>1 DEF Unmeasured, Copies
<1>5. PendingOrDurable'
  <2>1. ASSUME NEW c \in Check, acked[c] > 0, c \notin overdue \cup failed \cup lost'
        PROVE  Copies(disk', c) > 0
    <3>1. CASE c \in W
      BY <1>3, <3>1
    <3>2. CASE c \notin W
      <4>1. c \notin fresh /\ c \notin Excused
        BY <1>2, <2>1, <3>2 DEF Excused
      <4>2. Copies(disk, c) > 0
        BY <2>1, <4>1 DEF StoreInv, PendingOrDurable
      <4>3. QED
        BY <1>3, <3>2, <4>2
    <3>3. QED
      BY <3>1, <3>2
  <2>2. QED
    BY <1>2, <2>1 DEF PendingOrDurable, Excused, Copies
<1>6. QED
  BY <1>1, <1>2, <1>4, <1>5 DEF StoreInv, MemoryConserved, OnlyOldAggregated, FlushOnTime

\* A new process holds each line it read once, and nothing is pending.
LEMMA LoadInv ==
  ASSUME StoreInv, NewLeader
  PROVE  /\ Unmeasured' /\ MemoryConserved' /\ OnlyOldAggregated'
         /\ FlushOnTime' /\ PendingOrDurable'
<1>1. /\ TypeOK
      /\ UNCHANGED <<now, stamp, disk, acked, fresh, overdue, failed, lost>>
      /\ \A c \in Check : base'[c] = IF OnFile(c) THEN Copies(disk, c) ELSE 0
      /\ fresh = {}
      /\ \A c \in Check : Copies(disk', c) = Copies(disk, c)
  BY DEF StoreInv, NewLeader, FlushOnTime, Copies
<1>2. \A c \in Check :
        /\ Copies(results', c) = IF OnFile(c) /\ Recent(c) THEN Copies(disk, c) ELSE 0
        /\ dayAggregates'[c] = IF OnFile(c) /\ ~Recent(c) THEN Copies(disk, c) ELSE 0
  BY <1>1, LoadFacts DEF NewLeader
<1>3. Unmeasured'
  BY <1>1, <1>2 DEF StoreInv, Unmeasured, Copies
<1>4. MemoryConserved'
  <2>1. \A c \in Check : Copies(results', c) + dayAggregates'[c] = base'[c]
    BY <1>1, <1>2, Counts
  <2>2. QED
    BY <2>1 DEF MemoryConserved, Copies
<1>5. OnlyOldAggregated'
  <2>1. ASSUME NEW c \in Check, dayAggregates'[c] > 0
        PROVE  stamp[c] < now - Window
    <3>1. ~Recent(c)
      BY <1>2, <2>1
    <3>2. stamp[c] \in Int /\ now - Window \in Int
      BY <1>1, StoreAssumption DEF TypeOK
    <3>3. QED
      BY <3>1, <3>2 DEF Recent
  <2>2. QED
    BY <1>1, <2>1 DEF OnlyOldAggregated
<1>6. FlushOnTime'
  BY <1>1, StoreAssumption DEF NewLeader, LoadIntoMemory, FlushOnTime, TypeOK, Never
<1>7. PendingOrDurable'
  <2>1. ASSUME NEW c \in Check, acked[c] > 0, c \notin Excused
        PROVE  Copies(disk, c) > 0
    BY <1>1, <2>1 DEF StoreInv, PendingOrDurable
  <2>2. QED
    BY <1>1, <2>1 DEF PendingOrDurable, Excused, Copies
<1>8. QED
  BY <1>3, <1>4, <1>5, <1>6, <1>7

\* A submit keeps the invariant: a check that is not overdue is newer than the
\* last flush and will still be recent at the next one.
LEMMA SubmitInv ==
  ASSUME StoreInv, NEW S \in SUBSET Measured, Submit(S)
  PROVE  /\ Unmeasured' /\ MemoryConserved' /\ OnlyOldAggregated'
         /\ FlushOnTime' /\ PendingOrDurable'
<1>1. /\ TypeOK /\ S \in SUBSET Check
      /\ UNCHANGED <<now, phase, timer, stamp, dayAggregates, lastFlushTimestamp, disk,
                     failed, lost>>
      /\ fresh' = fresh \cup S
      /\ overdue' = overdue \cup {c \in S : \/ stamp[c] <= lastFlushTimestamp
                                           \/ stamp[c] + Window < now + FlushInterval}
      /\ phase /= "down"
  BY MeasuredAreChecks DEF StoreInv, Submit
<1>2. \A c \in Check :
        /\ Copies(results', c) = IF c \in S THEN Copies(results, c) + 1 ELSE Copies(results, c)
        /\ acked'[c] = IF c \in S THEN acked[c] + 1 ELSE acked[c]
        /\ base'[c] = IF c \in S THEN base[c] + 1 ELSE base[c]
        /\ Copies(disk', c) = Copies(disk, c)
  BY <1>1, SubmitFacts DEF Copies
<1>3. Unmeasured'
  <2>1. \A c \in S : stamp[c] /= Never
    BY DEF Measured
  <2>2. QED
    BY <1>1, <1>2, <2>1 DEF StoreInv, Unmeasured, Copies
<1>4. MemoryConserved'
  <2>1. \A c \in Check : Copies(results', c) + dayAggregates'[c] = base'[c]
    BY <1>1, <1>2, Counts DEF StoreInv, MemoryConserved
  <2>2. QED
    BY <2>1 DEF MemoryConserved, Copies
<1>5. OnlyOldAggregated'
  BY <1>1 DEF StoreInv, OnlyOldAggregated
<1>6. FlushOnTime'
  BY <1>1 DEF StoreInv, FlushOnTime
<1>7. PendingOrDurable'
  <2>1. ASSUME NEW c \in Check, acked'[c] > 0, c \notin overdue' \cup failed \cup lost
        PROVE  \/ Copies(disk, c) > 0
               \/ /\ c \in fresh'
                  /\ Copies(results', c) > 0
                  /\ stamp[c] > lastFlushTimestamp
                  /\ stamp[c] + Window >= timer
    <3>1. c \notin Excused
      BY <1>1, <2>1 DEF Excused
    <3>2. CASE c \in S
      <4>1. stamp[c] > lastFlushTimestamp /\ stamp[c] + Window >= now + FlushInterval
        BY <1>1, <2>1, <3>2, StoreAssumption DEF TypeOK
      <4>2. timer <= now + FlushInterval
        BY <1>1 DEF StoreInv, FlushOnTime
      <4>3. stamp[c] + Window >= timer
        BY <1>1, <4>1, <4>2, StoreAssumption DEF TypeOK
      <4>4. Copies(results', c) > 0
        BY <1>1, <1>2, <3>2, Counts
      <4>5. QED
        BY <1>1, <3>2, <4>1, <4>3, <4>4
    <3>3. CASE c \notin S
      BY <1>1, <1>2, <2>1, <3>1, <3>3 DEF StoreInv, PendingOrDurable
    <3>4. QED
      BY <3>2, <3>3
  <2>2. QED
    BY <1>1, <1>2, <2>1 DEF PendingOrDurable, Excused, Copies
<1>8. QED
  BY <1>3, <1>4, <1>5, <1>6, <1>7
\* A new measurement concerns a check the store knows nothing of.
LEMMA MeasureInv ==
  ASSUME StoreInv, NEW c \in Check, Measure(c)
  PROVE  /\ Unmeasured' /\ MemoryConserved' /\ OnlyOldAggregated'
         /\ FlushOnTime' /\ PendingOrDurable'
<1>1. /\ TypeOK /\ stamp[c] = Never
      /\ \A d \in Check : d /= c => stamp'[d] = stamp[d]
      /\ UNCHANGED <<now, phase, timer, store, history>>
  BY DEF StoreInv, Measure, TypeOK
<1>2. /\ acked[c] = 0 /\ c \notin fresh
      /\ Copies(results, c) = 0 /\ dayAggregates[c] = 0 /\ Copies(disk, c) = 0
  BY <1>1 DEF StoreInv, Unmeasured
<1>3. Unmeasured'
  BY <1>1, <1>2 DEF StoreInv, Unmeasured, store, history, Copies
<1>4. MemoryConserved'
  BY <1>1 DEF StoreInv, MemoryConserved, store, history, Copies
<1>5. OnlyOldAggregated'
  BY <1>1, <1>2 DEF StoreInv, OnlyOldAggregated, store
<1>6. FlushOnTime'
  BY <1>1 DEF StoreInv, FlushOnTime, store, history
<1>7. PendingOrDurable'
  <2>1. ASSUME NEW d \in Check, acked[d] > 0, d \notin Excused
        PROVE  \/ Copies(disk, d) > 0
               \/ /\ d \in fresh
                  /\ Copies(results, d) > 0
                  /\ stamp'[d] > lastFlushTimestamp
                  /\ stamp'[d] + Window >= timer
    BY <1>1, <1>2, <2>1 DEF StoreInv, PendingOrDurable
  <2>2. QED
    BY <1>1, <2>1 DEF PendingOrDurable, Excused, store, history, Copies
<1>8. QED
  BY <1>3, <1>4, <1>5, <1>6, <1>7

\* The inductive invariant of the store, step by step.
LEMMA StoreStep == StoreInv /\ [Next]_vars => StoreInv'
<1> SUFFICES ASSUME StoreInv, [Next]_vars
             PROVE  StoreInv'
  OBVIOUS
<1>1. TypeOK /\ TypeOK'
  BY TypeStep DEF StoreInv
<1>2. CASE Tick
  <2>1. UNCHANGED <<phase, timer, stamp, store, history>> /\ now' = now + 1
    BY <1>2 DEF Tick
  <2>2. OnlyOldAggregated'
    <3>1. ASSUME phase /= "down", NEW c \in Check, dayAggregates[c] > 0
          PROVE  stamp[c] < now' - Window
      <4>1. stamp[c] < now - Window
        BY <3>1 DEF StoreInv, OnlyOldAggregated
      <4>2. stamp[c] \in Nat /\ now \in Nat /\ Window \in Nat
        BY <1>1, StoreAssumption DEF TypeOK
      <4>3. QED
        BY <2>1, <4>1, <4>2
    <3>2. QED
      BY <2>1, <3>1 DEF OnlyOldAggregated, store
  <2>3. FlushOnTime'
    BY <1>1, <1>2, <2>1, StoreAssumption
       DEF StoreInv, FlushOnTime, Tick, store, history, TypeOK, Phase
  <2>4. Unmeasured' /\ MemoryConserved' /\ PendingOrDurable'
    BY <2>1 DEF StoreInv, Unmeasured, MemoryConserved, PendingOrDurable, Excused,
                store, history, Copies
  <2>5. QED
    BY <1>1, <2>2, <2>3, <2>4 DEF StoreInv
<1>3. CASE NewLeader
  BY <1>1, <1>3, LoadInv DEF StoreInv
<1>4. CASE Exit
  BY <1>4, ForgetInv DEF Exit
<1>5. CASE \E c \in Check : Measure(c)
  BY <1>1, <1>5, MeasureInv DEF StoreInv
<1>6. CASE \E S \in SUBSET Measured : Submit(S)
  BY <1>1, <1>6, SubmitInv DEF StoreInv
<1>7. ASSUME NEW F \in SUBSET Batch, FlushTick(F)
      PROVE  StoreInv'
  <2>1. phase /= "down" /\ phase' = phase /\ UNCHANGED <<now, stamp>>
    BY <1>7 DEF FlushTick
  <2>2. FlushOnTime'
    BY <1>1, <1>7, <2>1, FlushFacts, StoreAssumption
       DEF FlushTick, StoreInv, FlushOnTime, TypeOK
  <2>3. QED
    BY <1>1, <1>7, <2>1, <2>2, FlushInv DEF FlushTick, StoreInv
<1>8. ASSUME NEW F \in SUBSET Batch, Stop(F)
      PROVE  StoreInv'
  <2>1. phase = "up" /\ phase' = "stopping" /\ UNCHANGED <<now, timer, stamp>>
    BY <1>8 DEF Stop
  <2>2. FlushOnTime'
    BY <1>1, <1>8, <2>1, FlushFacts DEF Stop, StoreInv, FlushOnTime, TypeOK
  <2>3. QED
    BY <1>1, <1>8, <2>1, <2>2, FlushInv DEF Stop, StoreInv
<1>9. CASE \E F \in SUBSET Batch : Crash(F)
  BY <1>9, ForgetInv DEF Crash
<1>10. CASE UNCHANGED vars
  <2>1. UNCHANGED <<now, phase, timer, stamp, store, history>>
    BY <1>10 DEF vars
  <2>2. Unmeasured' /\ MemoryConserved' /\ PendingOrDurable'
    BY <2>1 DEF StoreInv, Unmeasured, MemoryConserved, PendingOrDurable, Excused,
                store, history, Copies
  <2>3. OnlyOldAggregated' /\ FlushOnTime'
    BY <2>1 DEF StoreInv, OnlyOldAggregated, FlushOnTime, store, history
  <2>4. QED
    BY <1>1, <2>2, <2>3 DEF StoreInv
<1>11. QED
  BY <1>2, <1>3, <1>4, <1>5, <1>6, <1>7, <1>8, <1>9, <1>10 DEF Next

\* The inductive invariant holds of every reachable state.
LEMMA StoreInvariant == Spec => []StoreInv
<1>1. Init => StoreInv
  <2>1. ASSUME Init
        PROVE  TypeOK
    BY <2>1, EmptyStore, StoreAssumption DEF Init, TypeOK, Phase, Never
  <2>2. QED
    BY <2>1, EmptyStore DEF Init, StoreInv, Unmeasured, MemoryConserved, OnlyOldAggregated,
                          FlushOnTime, PendingOrDurable, Never, Zero
<1>2. QED
  BY <1>1, StoreStep, PTL DEF Spec

--------------------------------------------------------------------------------
(* The theorems *)

\* The 90-day view counts every copy exactly once (Query90d against flushOnce
\* and LoadIntoMemory), for all windows, clocks and numbers of restarts.
THEOREM ViewsCountOnce == Spec => []CountedOnce
<1>1. StoreInv => CountedOnce
  <2> SUFFICES ASSUME StoreInv, phase /= "down", NEW c \in Check, stamp[c] >= now - Retention
               PROVE  Query90d(c) = base[c]
    BY DEF CountedOnce
  <2>1. Query90d(c) = dayAggregates[c] + Copies(results, c)
    BY DEF Query90d
  <2>2. Copies(results, c) + dayAggregates[c] = base[c]
    BY DEF StoreInv, MemoryConserved
  <2>3. QED
    BY <2>1, <2>2, Counts DEF StoreInv
<1>2. QED
  BY <1>1, StoreInvariant, PTL

\* flushOnce and LoadIntoMemory leave in the raw results all that Query90h
\* reports.
THEOREM ViewsKeepRecent == Spec => []RecentStaysRaw
<1>1. StoreInv => RecentStaysRaw
  <2> SUFFICES ASSUME StoreInv, phase /= "down", NEW c \in Check, stamp[c] >= now - Window
               PROVE  Query90h(c) = base[c]
    BY DEF RecentStaysRaw
  <2>1. TypeOK /\ stamp[c] \in Int /\ now - Window \in Int
    BY StoreAssumption DEF StoreInv, TypeOK
  <2>2. ~(dayAggregates[c] > 0)
    BY <2>1 DEF StoreInv, OnlyOldAggregated
  <2>3. Copies(results, c) + dayAggregates[c] = base[c]
    BY DEF StoreInv, MemoryConserved
  <2>4. QED
    BY <2>1, <2>2, <2>3, Counts DEF Query90h
<1>2. QED
  BY <1>1, StoreInvariant, PTL

\* What was answered 202 and has seen a flush is on disk, through any sequence
\* of crashes, restarts and write errors, except for the checks the flush
\* window misses, those a write error hit and those that died unflushed.
THEOREM AcceptedIsDurable == Spec => []Durable
<1>1. StoreInv => Durable
  BY DEF StoreInv, PendingOrDurable, Durable, Excused
<1>2. QED
  BY <1>1, StoreInvariant, PTL
--------------------------------------------------------------------------------
(* Clocks that do not run ahead *)

\* The further invariants when no node stamps a check in the leader's future.
LEMMA SyncedStep ==
  ASSUME Skew = 0, StoreInv, SyncedInv, [Next]_vars
  PROVE  SyncedInv'
<1>1. TypeOK /\ TypeOK'
  BY TypeStep DEF StoreInv
<1>2. \A c \in Check : /\ Copies(results, c) \in Nat /\ base[c] \in Nat /\ written[c] \in Nat
                       /\ stamp[c] \in Nat /\ Copies(disk, c) \in Nat
                       /\ stamp[c] <= now
  BY <1>1, Counts DEF SyncedInv, NoFutureStamps
<1>3. now \in Nat /\ lastFlushTimestamp \in Nat /\ Retention \in Nat
  BY <1>1, StoreAssumption DEF TypeOK
<1>4. CASE Tick
  <2>1. UNCHANGED <<phase, timer, stamp, store, history>> /\ now' = now + 1
    BY <1>4 DEF Tick
  <2>2. NoFutureStamps'
    BY <1>2, <1>3, <2>1 DEF NoFutureStamps
  <2>3. DurableIsLoaded'
    <3>1. ASSUME NEW c \in Check, stamp[c] >= now' - Retention
          PROVE  stamp[c] >= now - Retention
      BY <1>2, <1>3, <2>1, <3>1
    <3>2. QED
      BY <2>1, <3>1 DEF SyncedInv, DurableIsLoaded, Excused, history
  <2>4. WriteBudget'
    BY <2>1 DEF SyncedInv, WriteBudget, store, history, Copies
  <2>5. QED
    BY <2>2, <2>3, <2>4 DEF SyncedInv
<1>5. CASE NewLeader
  <2>1. /\ UNCHANGED <<now, stamp, acked, fresh, overdue, failed, lost>>
        /\ written' = Zero /\ fresh = {}
        /\ \A c \in Check : base'[c] = IF OnFile(c) THEN Copies(disk, c) ELSE 0
    BY <1>5 DEF NewLeader, StoreInv, FlushOnTime
  <2>2. NoFutureStamps'
    BY <2>1 DEF SyncedInv, NoFutureStamps
  <2>3. DurableIsLoaded'
    <3>1. ASSUME NEW c \in Check, acked[c] > 0, c \notin Excused, stamp[c] >= now - Retention
          PROVE  base'[c] > 0
      <4>1. Copies(disk, c) > 0
        BY <2>1, <3>1 DEF StoreInv, PendingOrDurable
      <4>2. OnFile(c)
        <5>1. now - Retention <= stamp[c] /\ stamp[c] <= now /\ now - Retention \in Int
          BY <1>2, <1>3, <3>1
        <5>2. Day(now - Retention) <= Day(stamp[c]) /\ Day(stamp[c]) <= Day(now)
          BY <1>2, <1>3, <5>1, DayMonotone
        <5>3. QED
          BY <5>2 DEF OnFile
      <4>3. QED
        BY <2>1, <4>1, <4>2
    <3>2. QED
      BY <2>1, <3>1 DEF DurableIsLoaded, Excused
  <2>4. WriteBudget'
    <3>1. \A c \in Check : /\ written'[c] = 0
                           /\ Copies(results', c) \in Nat
                           /\ Copies(results', c) <= base'[c]
                           /\ base'[c] \in Nat
      BY <1>1, <1>2, <1>5, <2>1, LoadFacts, EmptyStore DEF NewLeader
    <3>2. \A c \in Check :
            written'[c] + (IF stamp'[c] > lastFlushTimestamp' THEN Copies(results', c) ELSE 0)
              <= base'[c]
      BY <3>1
    <3>3. QED
      BY <3>2 DEF WriteBudget, Copies
  <2>5. QED
    BY <2>2, <2>3, <2>4 DEF SyncedInv
<1>6. ASSUME NEW W \in SUBSET Batch, Forget(W)
      PROVE  SyncedInv'
  <2>1. /\ UNCHANGED <<now, stamp>> /\ phase' = "down" /\ written' = Zero /\ base' = Zero
        /\ results' = Empty
    BY <1>6 DEF Forget
  <2>2. \A c \in Check : /\ written'[c] = 0 /\ base'[c] = 0
                         /\ results'[c]["plain"] + results'[c]["extra"] = 0
    BY <2>1, EmptyStore DEF Copies
  <2>3. WriteBudget'
    BY <2>2 DEF WriteBudget, Copies
  <2>4. QED
    BY <2>1, <2>3 DEF SyncedInv, NoFutureStamps, DurableIsLoaded
<1>7. CASE Exit
  BY <1>6, <1>7 DEF Exit
<1>8. CASE \E c \in Check : Measure(c)
  <2>1. PICK c \in Check : Measure(c)
    BY <1>8
  <2>2. /\ stamp[c] = Never /\ UNCHANGED <<now, phase, timer, store, history>>
        /\ stamp' = [stamp EXCEPT ![c] = now]
    <3>1. PICK s \in 0..Skew : stamp' = [stamp EXCEPT ![c] = now + s]
      BY <2>1 DEF Measure
    <3>2. now + s = now
      BY <1>3, <3>1
    <3>3. QED
      BY <2>1, <3>1, <3>2 DEF Measure
  <2>3. acked[c] = 0 /\ Copies(results, c) = 0
    BY <2>2 DEF StoreInv, Unmeasured
  <2>4. /\ stamp'[c] = now
        /\ \A d \in Check : d /= c => stamp'[d] = stamp[d]
    BY <1>1, <2>2 DEF TypeOK
  <2>5. NoFutureStamps'
    BY <1>2, <1>3, <2>2, <2>4 DEF NoFutureStamps
  <2>6. DurableIsLoaded'
    BY <2>2, <2>3, <2>4 DEF SyncedInv, DurableIsLoaded, Excused, history
  <2>7. WriteBudget'
    <3>1. \A d \in Check :
            written[d] + (IF stamp'[d] > lastFlushTimestamp THEN Copies(results, d) ELSE 0)
              <= base[d]
      BY <1>2, <2>3, <2>4 DEF SyncedInv, WriteBudget
    <3>2. QED
      BY <2>2, <3>1 DEF WriteBudget, store, history, Copies
  <2>8. QED
    BY <2>5, <2>6, <2>7 DEF SyncedInv
<1>9. CASE \E S \in SUBSET Measured : Submit(S)
  <2>1. PICK S \in SUBSET Check : Submit(S)
    BY <1>9, MeasuredAreChecks
  <2>2. UNCHANGED <<now, phase, stamp, lastFlushTimestamp, written, failed, lost>>
    BY <2>1 DEF Submit
  <2>3. NoFutureStamps'
    BY <2>2 DEF SyncedInv, NoFutureStamps
  <2>4. DurableIsLoaded'
    <3>1. ASSUME phase /= "down", NEW c \in Check, acked'[c] > 0, c \notin overdue' \cup failed \cup lost,
                 stamp[c] >= now - Retention
          PROVE  base'[c] > 0
      <4>1. CASE c \in S
        BY <1>1, <1>2, <2>1, <4>1, SubmitFacts
      <4>2. CASE c \notin S
        <5>1. acked[c] > 0 /\ base'[c] = base[c]
          BY <1>1, <2>1, <3>1, <4>2, SubmitFacts
        <5>2. c \notin Excused
          BY <2>1, <3>1 DEF Submit, Excused
        <5>3. QED
          BY <3>1, <5>1, <5>2 DEF SyncedInv, DurableIsLoaded
      <4>3. QED
        BY <4>1, <4>2
    <3>2. QED
      BY <2>2, <3>1 DEF DurableIsLoaded, Excused
  <2>5. WriteBudget'
    <3>1. \A c \in Check :
            written[c] + (IF stamp[c] > lastFlushTimestamp THEN Copies(results', c) ELSE 0)
              <= base'[c]
      BY <1>1, <1>2, <2>1, SubmitFacts DEF SyncedInv, WriteBudget
    <3>2. QED
      BY <2>2, <3>1 DEF WriteBudget, Copies
  <2>6. QED
    BY <2>3, <2>4, <2>5 DEF SyncedInv
<1>10. ASSUME NEW F \in SUBSET Batch, FlushOnce(F),
              phase /= "down", phase' /= "down", UNCHANGED <<now, stamp>>
       PROVE  SyncedInv'
  <2>1. UNCHANGED <<acked, base, overdue, lost>> /\ failed' = failed \cup F
    BY <1>10 DEF FlushOnce
  <2>2. NoFutureStamps'
    BY <1>10 DEF SyncedInv, NoFutureStamps
  <2>3. DurableIsLoaded'
    BY <1>10, <2>1 DEF SyncedInv, DurableIsLoaded, Excused
  <2>4. WriteBudget'
    <3>1. ASSUME NEW c \in Check
          PROVE  written'[c] + (IF stamp[c] > lastFlushTimestamp' THEN Copies(results', c) ELSE 0)
                   <= base[c]
      <4>1. /\ Copies(results', c) <= Copies(results, c)
            /\ Copies(results', c) \in Nat
            /\ written'[c] = IF c \in Batch \ F THEN written[c] + Copies(results, c)
                                                ELSE written[c]
        BY <1>1, <1>10, FlushFacts, CopiesNat
      <4>2. written[c] + (IF stamp[c] > lastFlushTimestamp THEN Copies(results, c) ELSE 0)
              <= base[c]
        BY DEF SyncedInv, WriteBudget
      <4>3. CASE results /= Empty
        <5>1. lastFlushTimestamp' = now
          BY <1>1, <1>10, <4>3, FlushFacts
        <5>2. ~(stamp[c] > lastFlushTimestamp')
          BY <1>2, <1>3, <5>1
        <5>3. c \in Batch => stamp[c] > lastFlushTimestamp
          BY DEF Batch
        <5>4. QED
          BY <1>2, <4>1, <4>2, <5>2, <5>3
      <4>4. CASE results = Empty
        <5>1. Copies(results, c) = 0 /\ c \notin Batch
          BY <4>4, EmptyStore DEF Batch
        <5>2. Copies(results', c) = 0 /\ written'[c] = written[c]
          BY <4>1, <5>1
        <5>3. QED
          BY <1>2, <4>2, <5>1, <5>2
      <4>5. QED
        BY <4>3, <4>4
    <3>2. QED
      BY <1>10, <2>1, <3>1 DEF WriteBudget, Copies
  <2>5. QED
    BY <2>2, <2>3, <2>4 DEF SyncedInv
<1>11. CASE \E F \in SUBSET Batch : FlushTick(F)
  BY <1>10, <1>11 DEF FlushTick
<1>12. CASE \E F \in SUBSET Batch : Stop(F)
  BY <1>10, <1>12 DEF Stop
<1>13. CASE \E F \in SUBSET Batch : Crash(F)
  BY <1>6, <1>13 DEF Crash
<1>14. CASE UNCHANGED vars
  <2>1. UNCHANGED <<now, phase, timer, stamp, store, history>>
    BY <1>14 DEF vars
  <2>2. QED
    BY <2>1 DEF SyncedInv, NoFutureStamps, DurableIsLoaded, WriteBudget, Excused,
                store, history, Copies
<1>15. QED
  BY <1>4, <1>5, <1>7, <1>8, <1>9, <1>11, <1>12, <1>13, <1>14 DEF Next

\* With synchronised clocks both parts of the invariant hold throughout.
LEMMA SyncedInvariant ==
  ASSUME Skew = 0
  PROVE  Spec => [](StoreInv /\ SyncedInv)
<1>1. Init => SyncedInv
  <2>1. ASSUME Init
        PROVE  \A c \in Check : /\ stamp[c] = 0 /\ now \in Nat
                                /\ written[c] = 0 /\ base[c] = 0 /\ Copies(results, c) = 0
    BY <2>1, EmptyStore, StoreAssumption DEF Init, Never
  <2>2. QED
    BY <2>1 DEF Init, SyncedInv, NoFutureStamps, DurableIsLoaded, WriteBudget
<1>2. StoreInv /\ SyncedInv /\ [Next]_vars => SyncedInv'
  BY SyncedStep
<1>3. QED
  BY <1>1, <1>2, StoreInvariant, PTL DEF Spec

\* With synchronised clocks a check answered 202 is in every later 90-day view,
\* across restarts, unless it is excused.
THEOREM AcceptedIsVisible ==
  ASSUME Skew = 0
  PROVE  Spec => []Visible
<1>1. StoreInv /\ SyncedInv => Visible
  <2> SUFFICES ASSUME StoreInv, SyncedInv, phase /= "down", NEW c \in Check, acked[c] > 0,
                      c \notin Excused, stamp[c] >= now - Retention
               PROVE  Query90d(c) > 0
    BY DEF Visible
  <2>1. base[c] > 0
    BY DEF SyncedInv, DurableIsLoaded
  <2>2. Copies(results, c) + dayAggregates[c] = base[c]
    BY DEF StoreInv, MemoryConserved
  <2>3. Query90d(c) = dayAggregates[c] + Copies(results, c)
    BY DEF Query90d
  <2>4. QED
    BY <2>1, <2>2, <2>3, Counts DEF StoreInv
<1>2. QED
  BY <1>1, SyncedInvariant, PTL

\* With synchronised clocks a process writes no copy twice.
THEOREM CopiesWrittenOnce ==
  ASSUME Skew = 0
  PROVE  Spec => []WrittenOnce
<1>1. StoreInv /\ SyncedInv => WrittenOnce
  <2> SUFFICES ASSUME StoreInv, SyncedInv, NEW c \in Check
               PROVE  written[c] <= base[c]
    BY DEF WrittenOnce
  <2>1. written[c] + (IF stamp[c] > lastFlushTimestamp THEN Copies(results, c) ELSE 0) <= base[c]
    BY DEF SyncedInv, WriteBudget
  <2>2. QED
    BY <2>1, Counts DEF StoreInv
<1>2. QED
  BY <1>1, SyncedInvariant, PTL

--------------------------------------------------------------------------------
(* The store implements the ledger of accepted checks *)

\* The invariant the simulation needs.
LedgerInv == StoreInv /\ SyncedInv /\ OwedIsPending

--------------------------------------------------------------------------------
(* The mapped state *)

\* What Ledger sees of the state, before and after a step.
LEMMA MappedState ==
  /\ Counted = [c \in Check |-> Copies(results, c) + dayAggregates[c]]
  /\ Counted' = [c \in Check |-> Copies(results', c) + dayAggregates'[c]]
  /\ Logged = [c \in Check |-> Copies(disk, c)]
  /\ Logged' = [c \in Check |-> Copies(disk', c)]
  /\ Owed' = fresh' \ overdue'
  /\ Saved' = {c \in Check : written'[c] > 0}
BY DEF Counted, Logged, Owed, Saved, Copies

\* A check a flush writes has all its copies in the raw store, and this process
\* has not written it yet.
LEMMA BatchIsUnsaved ==
  ASSUME StoreInv, SyncedInv, phase /= "down", NEW c \in Batch
  PROVE  /\ c \in Check
         /\ dayAggregates[c] = 0
         /\ written[c] = 0
         /\ Copies(results, c) > 0
<1>1. c \in Check /\ Copies(results, c) > 0 /\ stamp[c] > lastFlushTimestamp /\ Recent(c)
  BY DEF Batch
<1>2. /\ stamp[c] \in Nat /\ dayAggregates[c] \in Nat /\ written[c] \in Nat
      /\ Copies(results, c) \in Nat /\ now \in Nat /\ Window \in Nat
  BY <1>1, Counts, StoreAssumption DEF StoreInv, TypeOK
<1>3. dayAggregates[c] = 0
  <2>1. dayAggregates[c] > 0 => stamp[c] < now - Window
    BY <1>1 DEF StoreInv, OnlyOldAggregated
  <2>2. QED
    BY <1>1, <1>2, <2>1 DEF Recent
<1>4. written[c] = 0
  <2>1. Copies(results, c) + dayAggregates[c] = base[c]
    BY <1>1 DEF StoreInv, MemoryConserved
  <2>2. written[c] + Copies(results, c) <= base[c]
    BY <1>1 DEF SyncedInv, WriteBudget
  <2>3. QED
    BY <1>2, <1>3, <2>1, <2>2
<1>5. QED
  BY <1>1, <1>3, <1>4

\* What is owed is in the batch of the flush that comes next.
LEMMA OwedIsInBatch ==
  ASSUME StoreInv, OwedIsPending, phase /= "down"
  PROVE  Owed \subseteq Batch
<1> SUFFICES ASSUME NEW c \in Owed PROVE c \in Batch
  OBVIOUS
<1>1. c \in Check
  BY DEF Owed, StoreInv, TypeOK
<1>2. /\ Copies(results, c) > 0
      /\ stamp[c] > lastFlushTimestamp
      /\ stamp[c] + Window >= timer
  BY DEF OwedIsPending
<1>3. now <= timer /\ stamp[c] \in Nat /\ now \in Nat /\ timer \in Nat /\ Window \in Nat
  BY <1>1, Counts, StoreAssumption DEF StoreInv, FlushOnTime, TypeOK
<1>4. Recent(c)
  BY <1>2, <1>3 DEF Recent
<1>5. QED
  BY <1>1, <1>2, <1>4 DEF Batch

--------------------------------------------------------------------------------
(* The invariant *)

\* A check that is owed stays where the coming flush finds it.
LEMMA OwedStep ==
  StoreInv /\ OwedIsPending /\ [Next]_vars => OwedIsPending'
<1> SUFFICES ASSUME StoreInv, OwedIsPending, [Next]_vars
             PROVE  OwedIsPending'
  OBVIOUS
<1>1. TypeOK
  BY DEF StoreInv
<1>2. ASSUME fresh' = {}, phase' /= "down" \/ written' = Zero
      PROVE  OwedIsPending'
  <2>1. Owed' = {}
    BY <1>2, MappedState
  <2>2. phase' = "down" => Saved' = {}
    BY <1>2, MappedState, EmptyStore
  <2>3. QED
    BY <2>1, <2>2 DEF OwedIsPending
<1>3. CASE UNCHANGED <<phase, timer, store, history>> /\ \A c \in Owed : stamp'[c] = stamp[c]
  <2>1. Owed' = Owed /\ Saved' = Saved
    BY <1>3 DEF history, Owed, Saved
  <2>2. \A c \in Check : Copies(results', c) = Copies(results, c)
    BY <1>3 DEF store
  <2>3. Owed \subseteq Check
    BY <1>1 DEF Owed, TypeOK
  <2>4. \A c \in Owed : /\ Copies(results', c) > 0
                        /\ stamp'[c] > lastFlushTimestamp'
                        /\ stamp'[c] + Window >= timer'
    BY <1>3, <2>2, <2>3 DEF OwedIsPending, store
  <2>5. QED
    BY <1>3, <2>1, <2>4 DEF OwedIsPending, Copies
<1>4. CASE Tick
  BY <1>3, <1>4 DEF Tick
<1>5. CASE UNCHANGED vars
  BY <1>3, <1>5 DEF vars
<1>6. CASE NewLeader
  <2>1. fresh' = {} /\ phase' /= "down"
    BY <1>6 DEF NewLeader, StoreInv, FlushOnTime
  <2>2. QED
    BY <1>2, <2>1
<1>7. ASSUME NEW W, Forget(W) PROVE OwedIsPending'
  BY <1>2, <1>7 DEF Forget
<1>8. CASE Exit
  BY <1>7, <1>8 DEF Exit
<1>9. CASE \E F \in SUBSET Batch : Crash(F)
  BY <1>7, <1>9 DEF Crash
<1>10. CASE \E F \in SUBSET Batch : FlushTick(F) \/ Stop(F)
  <2>1. fresh' = {} /\ phase' /= "down"
    BY <1>10 DEF FlushTick, Stop, FlushOnce
  <2>2. QED
    BY <1>2, <2>1
<1>11. CASE \E c \in Check : Measure(c)
  <2>1. PICK c \in Check : Measure(c)
    BY <1>11
  <2>2. PICK s \in 0..Skew : stamp' = [stamp EXCEPT ![c] = now + s]
    BY <2>1 DEF Measure
  <2>3. c \notin Owed
    BY <2>1 DEF Measure, StoreInv, Unmeasured, Owed
  <2>4. \A d \in Owed : stamp'[d] = stamp[d]
    BY <1>1, <2>2, <2>3 DEF Owed, TypeOK
  <2>5. QED
    BY <1>3, <2>1, <2>4 DEF Measure
<1>12. CASE \E S \in SUBSET Measured : Submit(S)
  <2>1. PICK S \in SUBSET Check : Submit(S)
    BY <1>12, MeasuredAreChecks
  <2>2. /\ fresh' = fresh \cup S
        /\ overdue' = overdue \cup {c \in S : \/ stamp[c] <= lastFlushTimestamp
                                              \/ stamp[c] + Window < now + FlushInterval}
        /\ UNCHANGED <<phase, timer, stamp, lastFlushTimestamp, written>>
        /\ phase /= "down"
    BY <2>1 DEF Submit
  <2>3. ASSUME NEW c \in Owed'
        PROVE  /\ Copies(results', c) > 0
               /\ stamp[c] > lastFlushTimestamp
               /\ stamp[c] + Window >= timer
    <3>1. c \in fresh \cup S /\ c \notin overdue' /\ c \in Check
      BY <1>1, <2>2, <2>3, MappedState DEF TypeOK
    <3>2. /\ stamp[c] \in Nat /\ now \in Nat /\ timer \in Nat /\ Window \in Nat
          /\ lastFlushTimestamp \in Nat /\ FlushInterval \in Nat /\ Copies(results, c) \in Nat
      BY <1>1, <3>1, Counts, StoreAssumption DEF TypeOK
    <3>3. Copies(results', c) = IF c \in S THEN Copies(results, c) + 1 ELSE Copies(results, c)
      BY <1>1, <2>1, <3>1, SubmitFacts
    <3>4. CASE c \in S
      <4>1. ~(stamp[c] <= lastFlushTimestamp) /\ ~(stamp[c] + Window < now + FlushInterval)
        BY <2>2, <3>1, <3>4
      <4>2. timer <= now + FlushInterval
        BY <2>2 DEF StoreInv, FlushOnTime
      <4>3. QED
        BY <3>2, <3>3, <3>4, <4>1, <4>2
    <3>5. CASE c \notin S
      <4>1. c \in Owed
        BY <2>2, <3>1, <3>5 DEF Owed
      <4>2. QED
        BY <3>3, <3>5, <4>1 DEF OwedIsPending
    <3>6. QED
      BY <3>4, <3>5
  <2>4. QED
    BY <2>2, <2>3 DEF OwedIsPending, Copies
<1>13. QED
  BY <1>4, <1>5, <1>6, <1>8, <1>9, <1>10, <1>11, <1>12 DEF Next

\* With synchronised clocks the invariant holds throughout.
LEMMA LedgerInvariant ==
  ASSUME Skew = 0
  PROVE  Spec => []LedgerInv
<1>1. Init => OwedIsPending
  BY EmptyStore DEF Init, OwedIsPending, Owed, Saved
<1>2. QED
  BY <1>1, OwedStep, StoreInvariant, SyncedInvariant, PTL DEF Spec, LedgerInv

--------------------------------------------------------------------------------
(* The steps *)

\* A process that loads the files takes up what lies in its retention.
LEMMA NewLeaderStarts ==
  ASSUME LedgerInv, NewLeader
  PROVE  Promise!Start({c \in Check : OnFile(c)})
<1>1. \A c \in Check :
        Copies(results', c) + dayAggregates'[c] = IF OnFile(c) THEN Copies(disk, c) ELSE 0
  BY LoadFacts, Counts DEF NewLeader, LedgerInv, StoreInv
<1>2. phase = "down" /\ phase' = "up" /\ UNCHANGED <<disk, fresh, overdue, failed>>
  BY DEF NewLeader
<1>3. Counted' = [c \in Check |-> IF c \in {d \in Check : OnFile(d)} THEN Logged[c] ELSE 0]
  BY <1>1, MappedState
<1>4. Logged' = Logged /\ Owed' = Owed
  BY <1>2 DEF Logged, Owed
<1>5. Saved' = Saved
  <2>1. Saved = {}
    BY <1>2 DEF LedgerInv, OwedIsPending
  <2>2. written' = Zero
    BY DEF NewLeader
  <2>3. QED
    BY <2>1, <2>2, MappedState, EmptyStore
<1>6. QED
  BY <1>2, <1>3, <1>4, <1>5 DEF Promise!Start

\* A submit adds one copy of each of its checks.
LEMMA SubmitAccepts ==
  ASSUME LedgerInv, NEW S \in SUBSET Check, Submit(S)
  PROVE  Promise!Accept(S)
<1>1. TypeOK
  BY DEF LedgerInv, StoreInv
<1>2. /\ phase /= "down" /\ fresh' = fresh \cup S
      /\ overdue \subseteq overdue' /\ overdue' \subseteq overdue \cup S
      /\ UNCHANGED <<phase, dayAggregates, disk, written, failed>>
  BY DEF Submit
<1>3. Counted' = [c \in Check |-> IF c \in S THEN Counted[c] + 1 ELSE Counted[c]]
  <2>1. \A c \in Check : /\ Copies(results', c) = IF c \in S THEN Copies(results, c) + 1
                                                             ELSE Copies(results, c)
                         /\ Copies(results, c) \in Nat /\ dayAggregates[c] \in Nat
    BY <1>1, SubmitFacts, Counts
  <2>2. \A c \in Check : Copies(results', c) + dayAggregates'[c]
                           = IF c \in S THEN Counted[c] + 1 ELSE Counted[c]
    BY <1>2, <2>1, MappedState
  <2>3. QED
    BY <2>2, MappedState
<1>4. Owed \ S \subseteq Owed' /\ Owed' \subseteq Owed \cup S
  BY <1>2, MappedState DEF Owed
<1>5. Logged' = Logged /\ Saved' = Saved
  BY <1>2 DEF Logged, Saved
<1>6. QED
  BY <1>2, <1>3, <1>4, <1>5 DEF Promise!Accept

\* The lines of the checks W, all in the batch, are all copies the process counts.
LEMMA BatchIsWritten ==
  ASSUME LedgerInv, phase /= "down", NEW W \in SUBSET Batch, AppendResults(W)
  PROVE  Promise!Write(W) /\ W \cap Saved = {}
<1>1. TypeOK /\ W \in SUBSET Check
  BY MeasuredAreChecks DEF LedgerInv, StoreInv
<1>2. \A c \in W : c \in Check /\ dayAggregates[c] = 0 /\ written[c] = 0
  BY BatchIsUnsaved DEF LedgerInv
<1>3. \A c \in Check : /\ Copies(disk', c) = IF c \in W THEN Copies(disk, c) + Copies(results, c)
                                                        ELSE Copies(disk, c)
                       /\ Copies(results, c) \in Nat
  BY <1>1, AppendFacts, Counts
<1>4. \A c \in Check : Copies(disk', c) = IF c \in W THEN Logged[c] + Counted[c] ELSE Logged[c]
  BY <1>2, <1>3, MappedState
<1>5. Logged' = [c \in Check |-> IF c \in W THEN Logged[c] + Counted[c] ELSE Logged[c]]
  BY <1>4, MappedState
<1>6. W \cap Saved = {}
  BY <1>2 DEF Saved
<1>7. QED
  BY <1>5, <1>6 DEF Promise!Write

\* A flush saves everything owed but what meets an error, and moves no copy out
\* of sight.
LEMMA FlushSaves ==
  ASSUME LedgerInv, NEW F \in SUBSET Batch, FlushOnce(F),
         phase /= "down", phase' /= "down"
  PROVE  Promise!Save(Batch \ F, F)
<1>1. TypeOK /\ Batch \subseteq Check
  BY MeasuredAreChecks DEF LedgerInv, StoreInv
<1>2. UNCHANGED <<overdue>> /\ fresh' = {} /\ failed' = failed \cup F
  BY DEF FlushOnce
<1>3. AppendResults(Batch \ F)
  <2>1. CASE results = Empty /\ UNCHANGED store
    <3>1. Batch = {}
      BY <2>1, EmptyStore DEF Batch
    <3>2. disk' = [c \in Check |-> disk[c]]
      BY <1>1, <2>1 DEF store, TypeOK, Bag
    <3>3. QED
      BY <3>1, <3>2 DEF AppendResults
  <2>2. QED
    BY <2>1 DEF FlushOnce
<1>4. Promise!Write(Batch \ F) /\ (Batch \ F) \cap Saved = {}
  BY <1>3, BatchIsWritten
<1>5. Counted' = Counted
  BY <1>1, FlushFacts, MappedState
<1>6. Owed \subseteq (Batch \ F) \cup F /\ Owed' = {}
  BY <1>2, OwedIsInBatch, MappedState DEF LedgerInv
<1>7. Saved' = Saved \cup (Batch \ F)
  <2>1. ASSUME NEW c \in Check
        PROVE  written'[c] > 0 <=> written[c] > 0 \/ c \in Batch \ F
    <3>1. written'[c] = IF c \in Batch \ F THEN written[c] + Copies(results, c) ELSE written[c]
      BY <1>1, FlushFacts
    <3>2. written[c] \in Nat /\ Copies(results, c) \in Nat
      BY <1>1, Counts
    <3>3. c \in Batch => Copies(results, c) > 0
      BY DEF Batch
    <3>4. QED
      BY <3>1, <3>2, <3>3
  <2>2. QED
    BY <1>1, <2>1, MappedState DEF Saved
<1>8. QED
  BY <1>2, <1>4, <1>5, <1>6, <1>7 DEF Promise!Save

\* A process that goes leaves what it has written.
LEMMA ForgetEnds ==
  ASSUME LedgerInv, phase /= "down", NEW W \in SUBSET Batch, Forget(W)
  PROVE  Promise!End(W)
<1>1. /\ phase' = "down" /\ results' = Empty /\ dayAggregates' = Zero /\ AppendResults(W)
      /\ written' = Zero /\ fresh' = {} /\ failed' = failed
  BY DEF Forget
<1>2. Counted' = Promise!Nothing
  BY <1>1, EmptyStore, MappedState DEF Promise!Nothing
<1>3. Owed' = {} /\ Saved' = {}
  BY <1>1, EmptyStore, MappedState
<1>4. Promise!Write(W) /\ W \cap Saved = {}
  BY <1>1, BatchIsWritten
<1>5. QED
  BY <1>1, <1>2, <1>3, <1>4 DEF Promise!End

\* Every step of the store is a step of the ledger or invisible to it.
LEMMA StepSimulation == LedgerInv /\ [Next]_vars => [Promise!Next]_(Promise!vars)
<1> SUFFICES ASSUME LedgerInv, [Next]_vars
             PROVE  Promise!Next \/ UNCHANGED Promise!vars
  OBVIOUS
<1>1. ASSUME UNCHANGED <<phase, store, history>>
      PROVE  UNCHANGED Promise!vars
  BY <1>1 DEF Promise!vars, Counted, Logged, Owed, Saved, store, history
<1>2. CASE Tick \/ (\E c \in Check : Measure(c)) \/ UNCHANGED vars
  BY <1>1, <1>2 DEF Tick, Measure, vars
<1>3. CASE NewLeader
  BY <1>3, NewLeaderStarts DEF Promise!Next
<1>4. CASE \E S \in SUBSET Measured : Submit(S)
  BY <1>4, SubmitAccepts, MeasuredAreChecks DEF Promise!Next
<1>5. CASE \E F \in SUBSET Batch : FlushTick(F) \/ Stop(F)
  <2>1. PICK F \in SUBSET Batch : FlushTick(F) \/ Stop(F)
    BY <1>5
  <2>2. FlushOnce(F) /\ phase /= "down" /\ phase' /= "down"
    BY <2>1 DEF FlushTick, Stop
  <2>3. Promise!Save(Batch \ F, F) /\ F \in SUBSET Check /\ Batch \ F \in SUBSET Check
    BY <2>2, FlushSaves, MeasuredAreChecks
  <2>4. QED
    BY <2>3 DEF Promise!Next
<1>6. ASSUME NEW W \in SUBSET Batch, phase /= "down", Forget(W)
      PROVE  Promise!Next
  BY <1>6, ForgetEnds, MeasuredAreChecks DEF Promise!Next
<1>7. CASE Exit
  BY <1>6, <1>7 DEF Exit
<1>8. CASE \E F \in SUBSET Batch : Crash(F)
  BY <1>6, <1>8 DEF Crash
<1>9. QED
  BY <1>2, <1>3, <1>4, <1>5, <1>7, <1>8 DEF Next

\* With synchronised clocks the leader implements Ledger: through flushes that
\* fail, stops, crashes in the middle of a flush and any number of processes,
\* no copy it counts is lost or doubled while it runs, and each flush writes
\* what is owed, completely and once.
THEOREM StoreImplementsLedger ==
  ASSUME Skew = 0
  PROVE  Spec => ImplementsLedger
<1>1. Init => Promise!Init
  BY EmptyStore, MappedState
     DEF Init, Promise!Init, Promise!Nothing, Owed, Saved
<1>2. QED
  BY <1>1, StepSimulation, LedgerInvariant, PTL DEF Spec, ImplementsLedger, Promise!Spec

================================================================================
