----------------------------- MODULE PyMesh_proofs -----------------------------
(* Proofs about PyMesh, for any buffer size, windows and intervals, and any    *)
(* number of checks and leaders.                                               *)
EXTENDS PyMesh, FiniteSetTheorems, TLAPS

LEMMA Constants ==
  /\ BufferSize \in Nat /\ BufferSize >= 1
  /\ DayLength \in Nat /\ DayLength >= 1
  /\ FlushInterval \in Nat /\ FlushInterval >= 1
  /\ Boot \in Nat /\ Boot >= 1 /\ MaxTime \in Nat /\ Boot <= MaxTime
  /\ MaxStarts \in Nat /\ MaxStarts >= 1
  /\ MaxCheck \in Nat /\ Window \in Nat /\ Retention \in Nat
BY PyAssumption

--------------------------------------------------------------------------------
(* Cycles *)

Cycles == Seq(Seq(Check))

LEMMA ChecksOfCycles ==
  ASSUME NEW cycles \in Cycles
  PROVE  /\ Checks(cycles) \subseteq Check
         /\ \A x : x \in Checks(cycles) <=> \E i \in 1..Len(cycles) : x \in ToSet(cycles[i])
<1>1. \A x : x \in Checks(cycles) <=> \E i \in 1..Len(cycles) : x \in ToSet(cycles[i])
  <2>1. DOMAIN cycles = 1..Len(cycles)
    BY DEF Cycles
  <2>2. Checks(cycles) = UNION {ToSet(cycles[i]) : i \in 1..Len(cycles)}
    BY <2>1 DEF Checks
  <2>3. QED
    BY <2>2
<1>2. \A i \in 1..Len(cycles) : ToSet(cycles[i]) \subseteq Check
  BY DEF ToSet, Cycles
<1>3. QED
  BY <1>1, <1>2

LEMMA Appended ==
  ASSUME NEW cycles \in Cycles, NEW cycle \in Seq(Check)
  PROVE  /\ Append(cycles, cycle) \in Cycles
         /\ Len(Append(cycles, cycle)) = Len(cycles) + 1
         /\ \A i \in 1..Len(cycles) : Append(cycles, cycle)[i] = cycles[i]
         /\ Append(cycles, cycle)[Len(cycles) + 1] = cycle
BY DEF Cycles

\* A deque keeps the newest cycles: counted from their ends, it and the whole
\* sequence are the same.
LEMMA PushedIsNewest ==
  ASSUME NEW cycles \in Cycles, NEW cycle \in Seq(Check), Len(cycles) <= BufferSize
  PROVE  /\ Pushed(cycles, cycle) \in Cycles
         /\ Len(Pushed(cycles, cycle)) <= BufferSize
         /\ \/ Len(Pushed(cycles, cycle)) = Len(cycles) + 1
            \/ /\ Len(Pushed(cycles, cycle)) = BufferSize
               /\ Len(cycles) = BufferSize
         /\ \A i \in 1..Len(Pushed(cycles, cycle)) :
              Pushed(cycles, cycle)[i] =
                Append(cycles, cycle)[i + (Len(cycles) + 1 - Len(Pushed(cycles, cycle)))]
<1> DEFINE all == Append(cycles, cycle)
<1>1. all \in Cycles /\ Len(all) = Len(cycles) + 1 /\ Len(cycles) \in Nat
  BY Appended DEF Cycles
<1>2. Pushed(cycles, cycle) = IF Len(all) > BufferSize THEN Tail(all) ELSE all
  BY DEF Pushed
<1> HIDE DEF all
<1>3. CASE Len(all) > BufferSize
  <2>1. /\ Tail(all) \in Cycles /\ Len(Tail(all)) = Len(all) - 1
        /\ \A i \in 1 .. Len(all) - 1 : Tail(all)[i] = all[i + 1]
    BY <1>1, <1>3, Constants DEF Cycles
  <2>2. Len(cycles) = BufferSize
    BY <1>1, <1>3, Constants
  <2>3. Len(Tail(all)) = BufferSize /\ Len(cycles) + 1 - Len(Tail(all)) = 1
    BY <1>1, <2>1, <2>2, Constants
  <2>4. QED
    BY <1>1, <1>2, <1>3, <2>1, <2>2, <2>3, Constants DEF all
<1>4. CASE ~(Len(all) > BufferSize)
  <2>1. Pushed(cycles, cycle) = all /\ \A i \in 1..Len(all) : i + (Len(cycles) + 1 - Len(all)) = i
    BY <1>1, <1>2, <1>4
  <2>2. QED
    BY <1>1, <1>4, <2>1, Constants DEF all
<1>5. QED
  BY <1>3, <1>4

\* All in the node's hands is what it would submit.
LEMMA PendingFacts ==
  ASSUME SequencesOK
  PROVE  /\ Pending \in Cycles
         /\ combined \subseteq Check
         /\ \A j \in 1..Len(Pending) : ToSet(Pending[j]) \subseteq combined
<1>1. result_buffer \in Cycles /\ results \in Seq(Check)
  BY DEF SequencesOK, Cycles
<1>2. \A i \in 1..Len(result_buffer) : ToSet(result_buffer[i]) \subseteq combined
  BY <1>1, ChecksOfCycles DEF combined
<1>3. ToSet(results) \subseteq combined
  BY DEF combined
<1>4. combined \subseteq Check
  BY <1>1, ChecksOfCycles DEF combined, ToSet
<1>5. CASE at = "submit"
  <2>1. Pending = Append(result_buffer, results)
    BY <1>5 DEF Pending
  <2>2. \A j \in 1 .. Len(result_buffer) + 1 :
          j \in 1..Len(result_buffer) \/ j = Len(result_buffer) + 1
    BY <1>1 DEF Cycles
  <2>3. QED
    BY <1>1, <1>2, <1>3, <1>4, <2>1, <2>2, Appended
<1>6. CASE at /= "submit"
  BY <1>1, <1>2, <1>4, <1>6 DEF Pending
<1>7. QED
  BY <1>5, <1>6

--------------------------------------------------------------------------------
(* Days *)

LEMMA DayMonotone ==
  ASSUME NEW s \in Int, NEW t \in Int, s <= t
  PROVE  Day(s) <= Day(t)
<1>1. DayLength \in Nat \ {0}
  BY PyAssumption
<1>2. QED
  BY <1>1, Z3T(30) DEF Day

LEMMA DayIsInt == \A t \in Int : Day(t) \in Int
BY Constants DEF Day

\* A day that begins at t or later is not before the day of t.
LEMMA DayFloor ==
  ASSUME NEW d \in Int, NEW t \in Int, d * DayLength >= t
  PROVE  Day(t) <= d
<1>1. DayLength \in Nat \ {0}
  BY PyAssumption
<1>2. (d * DayLength) \div DayLength = d
  BY <1>1, Z3T(30)
<1>3. d * DayLength \in Int
  BY <1>1
<1>4. QED
  BY <1>2, <1>3, DayMonotone DEF Day

--------------------------------------------------------------------------------
(* The cycles of the node *)

\* A check cycle goes to the end of the recent ones and of those in the node's
\* hands alike.
LEMMA CycleKeepsRecent ==
  ASSUME TypeOK, SequencesOK, RecentOK, NEW cycle \in Seq(Check),
         at = "check", at' = "submit", result_buffer' = result_buffer, results' = cycle,
         recent' = Pushed(recent, cycle), acked' = acked
  PROVE  RecentOK'
<1> DEFINE m == Len(recent)
           p == Len(result_buffer)
           n == Len(Pushed(recent, cycle))
<1>1. result_buffer \in Cycles /\ recent \in Cycles /\ m <= BufferSize
  BY DEF SequencesOK, Cycles, TypeOK
<1>2. m \in Nat /\ p \in Nat /\ n \in Nat /\ n <= m + 1
  <2>1. Pushed(recent, cycle) \in Cycles /\ (n = m + 1 \/ (n = BufferSize /\ m = BufferSize))
    BY <1>1, PushedIsNewest
  <2>2. m \in Nat /\ p \in Nat /\ n \in Nat
    BY <1>1, <2>1 DEF Cycles
  <2>3. QED
    BY <2>1, <2>2
<1>3. \A i \in 1..n : recent'[i] = Append(recent, cycle)[i + (m + 1 - n)]
  BY <1>1, PushedIsNewest
<1>4. Pending = result_buffer /\ Pending' = Append(result_buffer, cycle) /\ Len(recent') = n
  BY DEF Pending
<1>5. Len(Pending') = p + 1
  BY <1>1, <1>4, Appended
<1> HIDE DEF m, p, n
<1>6. ASSUME NEW i \in 1..n
      PROVE  IF i + (p + 1) - n >= 1 THEN recent'[i] = Pending'[i + (p + 1) - n]
                                     ELSE ToSet(recent'[i]) \subseteq acked
  <2> DEFINE k == i + (m + 1 - n)
  <2>1. k \in 1 .. m + 1 /\ k + p - m = i + (p + 1) - n
    BY <1>2, <1>6
  <2>2. recent'[i] = Append(recent, cycle)[k]
    BY <1>3
  <2> HIDE DEF k
  <2>3. CASE k = m + 1
    <3>1. recent'[i] = cycle
      BY <1>1, <2>2, <2>3, Appended DEF m
    <3>2. i + (p + 1) - n = p + 1
      BY <1>2, <2>1, <2>3
    <3>3. Pending'[p + 1] = cycle
      BY <1>1, <1>4, Appended DEF p
    <3>4. QED
      BY <1>2, <3>1, <3>2, <3>3
  <2>4. CASE k \in 1..m
    <3>1. recent'[i] = recent[k]
      BY <1>1, <2>2, <2>4, Appended DEF m
    <3>2. IF k + p - m >= 1 THEN recent[k] = result_buffer[k + p - m]
                            ELSE ToSet(recent[k]) \subseteq acked
      BY <1>4, <2>4 DEF RecentOK, m, p
    <3>3. k + p - m >= 1 => k + p - m \in 1..p
      BY <1>2, <2>4
    <3>4. k + p - m >= 1 => Pending'[k + p - m] = result_buffer[k + p - m]
      BY <1>1, <1>4, <3>3, Appended DEF p
    <3>5. QED
      BY <2>1, <3>1, <3>2, <3>4
  <2>5. QED
    BY <1>2, <2>1, <2>3, <2>4
<1>7. QED
  BY <1>4, <1>5, <1>6 DEF RecentOK

\* A failed submit buffers the cycle; what is pushed out is no recent cycle any
\* more.
LEMMA BufferKeepsRecent ==
  ASSUME TypeOK, SequencesOK, RecentOK, at = "submit", at' = "sleep",
         result_buffer' = Pushed(result_buffer, results), recent' = recent,
         acked \subseteq acked'
  PROVE  RecentOK'
<1> DEFINE m == Len(recent)
           p == Len(Pending)
           q == Len(Pending')
<1>1. /\ result_buffer \in Cycles /\ results \in Seq(Check) /\ recent \in Cycles
      /\ m <= BufferSize /\ Len(result_buffer) <= BufferSize
  BY DEF SequencesOK, Cycles, TypeOK
<1>2. Pending = Append(result_buffer, results) /\ Pending' = Pushed(result_buffer, results)
  BY DEF Pending
<1>3. /\ m \in Nat /\ p \in Nat /\ q \in Nat /\ p = Len(result_buffer) + 1
      /\ q = p \/ (q = BufferSize /\ q + 1 = p)
      /\ \A j \in 1..q : Pending'[j] = Pending[j + (p - q)]
  <2>1. p = Len(result_buffer) + 1 /\ Len(result_buffer) \in Nat /\ m \in Nat
    BY <1>1, <1>2, Appended DEF Cycles
  <2>2. Pending' \in Cycles
    BY <1>1, <1>2, PushedIsNewest
  <2>3. q \in Nat
    BY <2>2 DEF Cycles
  <2>4. q = p \/ (q = BufferSize /\ q + 1 = p)
    BY <1>1, <1>2, <2>1, PushedIsNewest
  <2>5. \A j \in 1..q : Pending'[j] = Pending[j + (p - q)]
    <3> DEFINE all == Append(result_buffer, results)
               kept == Pushed(result_buffer, results)
               l == Len(result_buffer)
    <3>1. \A j \in 1..Len(kept) : kept[j] = all[j + (l + 1 - Len(kept))]
      BY <1>1, PushedIsNewest
    <3>2. Pending = all /\ Pending' = kept /\ p = l + 1 /\ q = Len(kept)
          /\ l \in Nat /\ q \in Nat
      BY <1>2, <2>1, <2>3
    <3> HIDE DEF all, kept, l, p, q
    <3>3. QED
      BY <3>1, <3>2
  <2>6. QED
    BY <2>1, <2>3, <2>4, <2>5
<1>4. \A i \in 1..m : IF i + p - m >= 1 THEN recent[i] = Pending[i + p - m]
                                        ELSE ToSet(recent[i]) \subseteq acked
  BY DEF RecentOK
<1> HIDE DEF m, p, q
<1>5. ASSUME NEW i \in 1..m
      PROVE  IF i + q - m >= 1 THEN recent[i] = Pending'[i + q - m]
                               ELSE ToSet(recent[i]) \subseteq acked'
  <2>1. CASE i + q - m >= 1
    <3>1. /\ i + q - m \in 1..q /\ (i + q - m) + (p - q) = i + p - m
          /\ i + p - m >= 1
      BY <1>3, <2>1
    <3>2. Pending'[i + q - m] = Pending[i + p - m]
      BY <1>3, <3>1
    <3>3. QED
      BY <1>4, <2>1, <3>1, <3>2
  <2>2. CASE ~(i + q - m >= 1)
    <3>1. q = p
      BY <1>1, <1>3, <2>2, Constants DEF m
    <3>2. QED
      BY <1>4, <2>2, <3>1
  <2>3. QED
    BY <2>1, <2>2
<1>6. QED
  BY <1>5 DEF RecentOK, m, q

\* An accepted submit leaves nothing in the node's hands.
LEMMA SubmitKeepsRecent ==
  ASSUME TypeOK, SequencesOK, RecentOK, at' = "sleep",
         result_buffer' = <<>>, recent' = recent, acked' = acked \cup combined
  PROVE  RecentOK'
<1>1. recent \in Cycles /\ Pending \in Cycles
  BY PendingFacts DEF SequencesOK, Cycles
<1>2. Len(recent) \in Nat /\ Len(Pending) \in Nat
  BY <1>1 DEF Cycles
<1>3. Pending' = <<>> /\ Len(Pending') = 0
  BY DEF Pending
<1>4. ASSUME NEW i \in 1..Len(recent)
      PROVE  ToSet(recent[i]) \subseteq acked' /\ ~(i + 0 - Len(recent) >= 1)
  <2> DEFINE j == i + Len(Pending) - Len(recent)
  <2>1. j >= 1 => j \in 1..Len(Pending)
    BY <1>2
  <2>2. IF j >= 1 THEN recent[i] = Pending[j] ELSE ToSet(recent[i]) \subseteq acked
    BY DEF RecentOK
  <2> HIDE DEF j
  <2>3. ToSet(recent[i]) \subseteq acked'
    BY <2>1, <2>2, PendingFacts
  <2>4. QED
    BY <1>2, <2>3
<1>5. QED
  BY <1>3, <1>4 DEF RecentOK

--------------------------------------------------------------------------------
(* Types and numbers *)

LEMMA NextNumber ==
  ASSUME NumberedInOrder, Cardinality(Measured) + 1 <= MaxCheck
  PROVE  /\ Cardinality(Measured) + 1 \in Check
         /\ Cardinality(Measured) + 1 \notin Measured
         /\ Measured = 1..Cardinality(Measured) /\ Cardinality(Measured) \in Nat
<1>1. PICK k \in 0..MaxCheck : Measured = 1..k
  BY DEF NumberedInOrder
<1>2. Cardinality(Measured) = k
  BY <1>1, Constants, FS_Interval
<1>3. QED
  BY <1>1, <1>2, Constants DEF Check

\* A check that is measured is a new one, and leaves the others as they are.
LEMMA CycleFacts ==
  ASSUME TypeOK, NumberedInOrder, RunCheckCycle
  PROVE  /\ results' \in Seq(Check)
         /\ stamp' \in [Check -> {0} \cup Boot..now]
         /\ NumberedInOrder'
         /\ Measured' = Measured \cup ToSet(results')
         /\ \A c \in Measured : stamp'[c] = stamp[c]
<1> DEFINE n == Cardinality(Measured) + 1
<1>1. CASE results' = <<>> /\ stamp' = stamp
  <2>1. Measured' = Measured /\ ToSet(results') = {}
    BY <1>1 DEF Measured, ToSet
  <2>2. QED
    BY <1>1, <2>1 DEF NumberedInOrder, TypeOK
<1>2. CASE n <= MaxCheck /\ results' = <<n>> /\ stamp' = [stamp EXCEPT ![n] = now]
  <2>1. n \in Check /\ n \notin Measured /\ Measured = 1 .. n - 1
    <3>1. n - 1 = Cardinality(Measured)
      BY <1>2, NextNumber
    <3>2. QED
      BY <1>2, <3>1, NextNumber
  <2>2. now \in Boot..now /\ now /= 0 /\ stamp \in [Check -> {0} \cup Boot..now]
    BY Constants DEF TypeOK
  <2>3. ToSet(results') = {n}
    BY <1>2 DEF ToSet
  <2>4. results' \in Seq(Check)
    BY <1>2, <2>1
  <2>5. stamp'[n] = now /\ \A c \in Check \ {n} : stamp'[c] = stamp[c]
    BY <1>2, <2>1, <2>2
  <2>6. Measured' = Measured \cup {n}
    BY <2>1, <2>2, <2>5 DEF Measured
  <2>7. \A c \in Measured : stamp'[c] = stamp[c]
    BY <2>1, <2>5 DEF Measured
  <2>8. Measured' = 1..n /\ n \in 0..MaxCheck
    BY <2>1, <2>6, Constants DEF Check
  <2>9. stamp' \in [Check -> {0} \cup Boot..now]
    BY <1>2, <2>1, <2>2
  <2>10. NumberedInOrder'
    BY <2>8 DEF NumberedInOrder
  <2>11. QED
    BY <2>3, <2>4, <2>6, <2>7, <2>9, <2>10
<1>3. QED
  BY <1>1, <1>2 DEF RunCheckCycle

LEMMA CombinedParts ==
  ASSUME SequencesOK
  PROVE  combined = Checks(result_buffer) \cup ToSet(results)
BY DEF combined

LEMMA ChecksOfEmpty == Checks(<<>>) = {} /\ ToSet(<<>>) = {}
BY DEF Checks, ToSet

\* What is pushed is no other check.
LEMMA PushedChecks ==
  ASSUME NEW cycles \in Cycles, NEW cycle \in Seq(Check), Len(cycles) <= BufferSize
  PROVE  Checks(Pushed(cycles, cycle)) \subseteq Checks(cycles) \cup ToSet(cycle)
<1> DEFINE all == Append(cycles, cycle)
           kept == Pushed(cycles, cycle)
           l == Len(cycles)
<1>1. /\ kept \in Cycles /\ all \in Cycles /\ l \in Nat /\ Len(all) = l + 1
      /\ Len(kept) \in Nat /\ Len(kept) <= l + 1
  <2>1. kept \in Cycles /\ (Len(kept) = l + 1 \/ Len(kept) = l)
    BY PushedIsNewest
  <2>2. l \in Nat /\ all \in Cycles /\ Len(all) = l + 1
    BY Appended DEF Cycles
  <2>3. QED
    BY <2>1, <2>2
<1>2. \A i \in 1..Len(kept) : kept[i] = all[i + (l + 1 - Len(kept))]
  BY PushedIsNewest
<1>3. \A k \in 1 .. l + 1 : IF k = l + 1 THEN all[k] = cycle ELSE all[k] = cycles[k]
  <2>1. \A k \in 1 .. l + 1 : k = l + 1 \/ k \in 1..l
    BY <1>1
  <2>2. QED
    BY <2>1, Appended
<1>4. ASSUME NEW x \in Checks(kept)
      PROVE  x \in Checks(cycles) \cup ToSet(cycle)
  <2>1. PICK i \in 1..Len(kept) : x \in ToSet(kept[i])
    BY <1>1, ChecksOfCycles
  <2>2. PICK k \in 1 .. l + 1 : kept[i] = all[k]
    <3>1. i + (l + 1 - Len(kept)) \in 1 .. l + 1
      BY <1>1, <2>1
    <3>2. QED
      BY <1>2, <3>1
  <2>3. CASE k = l + 1
    BY <1>3, <2>1, <2>2, <2>3
  <2>4. CASE k /= l + 1
    <3>1. k \in 1..l /\ x \in ToSet(cycles[k])
      BY <1>1, <1>3, <2>1, <2>2, <2>4
    <3>2. QED
      BY <3>1, ChecksOfCycles
  <2>5. QED
    BY <2>3, <2>4
<1>5. QED
  BY <1>4

--------------------------------------------------------------------------------
(* The steps of the node *)

NodeTypes ==
  /\ {WithURL, peers} \subseteq BOOLEAN
  /\ at \in {"sleep", "check", "submit"}
  /\ Len(result_buffer) <= BufferSize /\ Len(recent) <= BufferSize
  /\ combined \subseteq Measured
  /\ stamp \in [Check -> {0} \cup Boot..now]

LeaderTypes ==
  /\ now \in Boot..MaxTime /\ starts \in 1..MaxStarts
  /\ {up, registered, loop} \subseteq BOOLEAN
  /\ raw \cup day_aggregates \cup files \subseteq acked
  /\ acked \subseteq Measured /\ fresh \cup lost \subseteq acked
  /\ loop => up /\ timer \in now..MaxTime + FlushInterval

LEMMA TypeParts == TypeOK <=> NodeTypes /\ LeaderTypes
BY DEF TypeOK, NodeTypes, LeaderTypes

LEMMA TypesNext == NodeTypes' /\ LeaderTypes' => TypeOK'
BY DEF TypeOK, NodeTypes, LeaderTypes

\* A measured check, an idle leader: the leader's part holds on.
LEMMA LeaderIdle ==
  ASSUME LeaderTypes, LeaderOK, UNCHANGED <<now, leader, acked>>,
         Measured \subseteq Measured', \A c \in Measured : stamp'[c] = stamp[c]
  PROVE  LeaderTypes' /\ LeaderOK'
<1>1. LeaderTypes'
  BY DEF LeaderTypes, leader, store
<1>2. \A c \in acked : stamp'[c] = stamp[c]
  BY DEF LeaderTypes
<1>3. LeaderOK'
  BY <1>2 DEF LeaderOK, leader, store
<1>4. QED
  BY <1>1, <1>3

\* The leader takes what is submitted, and owes its files the new checks of it.
LEMMA LeaderAccepts ==
  ASSUME NodeTypes, LeaderTypes, LeaderOK, Accepted, UNCHANGED <<now, WithURL, stamp>>
  PROVE  /\ LeaderTypes' /\ LeaderOK'
         /\ acked' = acked \cup combined
<1>1. /\ up /\ raw' = raw \cup combined /\ acked' = acked \cup combined
      /\ fresh' = fresh \cup (combined \ acked) /\ registered' = (registered \/ WithURL)
      /\ UNCHANGED <<up, day_aggregates, files, loop, timer, starts, lost>>
  BY DEF Accepted
<1>2. Measured' = Measured
  BY DEF Measured
<1>3. registered' \in BOOLEAN
  BY <1>1
<1>4. LeaderTypes'
  BY <1>1, <1>2, <1>3 DEF NodeTypes, LeaderTypes
<1>5. LeaderOK'
  BY <1>1 DEF LeaderOK
<1>6. QED
  BY <1>1, <1>4, <1>5

LEMMA RunCheckCycleStep ==
  ASSUME PyInv, RunCheckCycle
  PROVE  PyInv'
<1> USE DEF PyInv
<1>1. /\ results' \in Seq(Check) /\ stamp' \in [Check -> {0} \cup Boot..now]
      /\ NumberedInOrder' /\ Measured' = Measured \cup ToSet(results')
      /\ \A c \in Measured : stamp'[c] = stamp[c]
  BY CycleFacts
<1>2. /\ at = "check" /\ at' = "submit" /\ recent' = Pushed(recent, results')
      /\ UNCHANGED <<now, WithURL, peers, result_buffer, leader, acked>>
  BY DEF RunCheckCycle, Pushed
<1>3. /\ result_buffer \in Cycles /\ recent \in Cycles /\ results = <<>>
      /\ Len(recent) <= BufferSize
  BY <1>2 DEF SequencesOK, Cycles, TypeOK
<1>4. recent' \in Cycles /\ Len(recent') <= BufferSize
  BY <1>1, <1>2, <1>3, PushedIsNewest
<1>5. SequencesOK'
  BY <1>1, <1>2, <1>3, <1>4 DEF SequencesOK, Cycles
<1>6. RecentOK'
  BY <1>1, <1>2, CycleKeepsRecent
<1>7. combined' = Checks(result_buffer) \cup ToSet(results')
  BY <1>2 DEF combined
<1>8. NodeTypes'
  BY <1>1, <1>2, <1>4, <1>7, TypeParts DEF NodeTypes, combined
<1>9. LeaderTypes' /\ LeaderOK'
  BY <1>1, <1>2, TypeParts, LeaderIdle
<1>10. QED
  BY <1>1, <1>5, <1>6, <1>8, <1>9, TypesNext

LEMMA SubmitStep ==
  ASSUME PyInv, Submit
  PROVE  PyInv'
<1> USE DEF PyInv
<1>1. /\ Accepted /\ result_buffer' = <<>> /\ results' = <<>> /\ at' = "sleep"
      /\ UNCHANGED <<now, WithURL, peers, stamp, recent>>
  BY DEF Submit
<1>2. LeaderTypes' /\ LeaderOK' /\ acked' = acked \cup combined
  BY <1>1, TypeParts, LeaderAccepts
<1>3. SequencesOK'
  BY <1>1 DEF SequencesOK
<1>4. RecentOK'
  BY <1>1, <1>2, SubmitKeepsRecent
<1>5. combined' = {} /\ Measured' = Measured
  BY <1>1, ChecksOfEmpty DEF combined, Measured
<1>6. NodeTypes'
  BY <1>1, <1>5, TypeParts, Constants DEF NodeTypes
<1>7. NumberedInOrder'
  BY <1>5 DEF NumberedInOrder
<1>8. QED
  BY <1>2, <1>3, <1>4, <1>6, <1>7, TypesNext

LEMMA SubmitFailedStep ==
  ASSUME PyInv, SubmitFailed
  PROVE  PyInv'
<1> USE DEF PyInv
<1>1. /\ at = "submit" /\ (Accepted \/ UNCHANGED <<leader, acked>>)
      /\ result_buffer' = Pushed(result_buffer, results) /\ results' = <<>> /\ at' = "sleep"
      /\ UNCHANGED <<now, WithURL, peers, stamp, recent>>
  BY DEF SubmitFailed
<1>2. Measured' = Measured
  BY <1>1 DEF Measured
<1>3. LeaderTypes' /\ LeaderOK' /\ acked \subseteq acked'
  BY <1>1, <1>2, TypeParts, LeaderAccepts, LeaderIdle
<1>4. result_buffer \in Cycles /\ results \in Seq(Check) /\ Len(result_buffer) <= BufferSize
  BY DEF SequencesOK, Cycles, TypeOK
<1>5. result_buffer' \in Cycles /\ Len(result_buffer') <= BufferSize
  BY <1>1, <1>4, PushedIsNewest
<1>6. SequencesOK'
  BY <1>1, <1>5 DEF SequencesOK, Cycles
<1>7. RecentOK'
  BY <1>1, <1>3, BufferKeepsRecent
<1>8. combined' \subseteq combined
  BY <1>1, <1>4, PushedChecks, ChecksOfEmpty DEF combined
<1>9. NodeTypes'
  BY <1>1, <1>2, <1>5, <1>8, TypeParts DEF NodeTypes
<1>10. NumberedInOrder'
  BY <1>2 DEF NumberedInOrder
<1>11. QED
  BY <1>3, <1>6, <1>7, <1>9, <1>10, TypesNext

LEMMA PeersStep ==
  ASSUME PyInv, FetchPeers \/ UpdatePeers
  PROVE  PyInv'
<1> USE DEF PyInv
<1>1. /\ UNCHANGED <<now, WithURL, result_buffer, results, stamp, recent, leader, acked>>
      /\ Pending' = Pending /\ at' \in {at, "check"} /\ (at = "submit" <=> at' = "submit")
  BY DEF FetchPeers, UpdatePeers, Pending
<1>2. peers' \in BOOLEAN
  BY TypeParts DEF FetchPeers, UpdatePeers, NodeTypes, LeaderTypes
<1>3. Measured' = Measured /\ combined' = combined
  BY <1>1 DEF Measured, combined
<1>4. NodeTypes'
  BY <1>1, <1>2, <1>3, TypeParts DEF NodeTypes
<1>5. LeaderTypes' /\ LeaderOK'
  BY <1>1, <1>3, TypeParts, LeaderIdle
<1>6. SequencesOK' /\ RecentOK' /\ NumberedInOrder'
  BY <1>1, <1>3 DEF SequencesOK, RecentOK, NumberedInOrder
<1>7. QED
  BY <1>4, <1>5, <1>6, TypesNext

--------------------------------------------------------------------------------
(* The steps of the leader and of time *)

LEMMA NodeIdle ==
  ASSUME PyInv, UNCHANGED <<node, acked>>, now' \in Int, now' >= now
  PROVE  /\ NodeTypes' /\ SequencesOK' /\ RecentOK' /\ NumberedInOrder'
         /\ Measured' = Measured /\ stamp' = stamp
<1> USE DEF PyInv
<1>1. Measured' = Measured /\ combined' = combined /\ Pending' = Pending
  BY DEF node, Measured, combined, Pending
<1>2. stamp' \in [Check -> {0} \cup Boot..now']
  <2>1. now \in Int /\ Boot \in Int
    BY Constants, TypeParts DEF LeaderTypes
  <2>2. Boot..now \subseteq Boot..now'
    BY <2>1
  <2>3. stamp' = stamp /\ stamp \in [Check -> {0} \cup Boot..now]
    BY TypeParts DEF NodeTypes, node
  <2>4. QED
    BY <2>2, <2>3
<1>3. NodeTypes'
  BY <1>1, <1>2, TypeParts DEF NodeTypes, node
<1>4. SequencesOK' /\ RecentOK' /\ NumberedInOrder'
  BY <1>1 DEF SequencesOK, RecentOK, NumberedInOrder, node
<1>5. QED
  BY <1>1, <1>3, <1>4 DEF node

\* _move_old_to_aggregates drops nothing.
LEMMA MoveKeeps ==
  ASSUME NEW all, Move(all)
  PROVE  /\ raw' \cup day_aggregates' = all \cup day_aggregates
         /\ raw' \subseteq all
BY DEF Move

\* The files a new leader reads hold all of the days it may be asked about.
LEMMA FilesOfWindow ==
  ASSUME NodeTypes, LeaderTypes, NEW c \in files, Day(stamp[c]) * DayLength >= now - Retention
  PROVE  c \in _read_results
<1>1. c \in Check /\ c \in Measured
  BY DEF LeaderTypes, Measured
<1>2. stamp[c] \in Int /\ stamp[c] <= now /\ now \in Int
  BY <1>1, Constants DEF NodeTypes, LeaderTypes, Measured
<1>3. Day(stamp[c]) <= Day(now)
  BY <1>2, DayMonotone
<1>4. Day(now - Retention) <= Day(stamp[c])
  <2>1. Day(stamp[c]) \in Int /\ now - Retention \in Int
    BY <1>2, DayIsInt, Constants
  <2>2. QED
    BY <2>1, DayFloor
<1>5. QED
  BY <1>3, <1>4 DEF _read_results

LEMMA NewLeaderStep ==
  ASSUME PyInv, NewLeader
  PROVE  PyInv'
<1> USE DEF PyInv
<1>1. /\ ~up /\ up' = TRUE /\ loop' = TRUE /\ timer' = now + FlushInterval
      /\ starts < MaxStarts /\ starts' = starts + 1 /\ Move(_read_results)
      /\ UNCHANGED <<now, node, registered, files, fresh, lost, acked>>
  BY DEF NewLeader
<1>2. now \in Boot..MaxTime /\ now \in Nat
  BY Constants, TypeParts DEF LeaderTypes
<1>3. NodeTypes' /\ SequencesOK' /\ RecentOK' /\ NumberedInOrder' /\ Measured' = Measured
      /\ stamp' = stamp
  BY <1>1, <1>2, NodeIdle
<1>4. /\ raw' \cup day_aggregates' = _read_results \cup day_aggregates
      /\ _read_results \subseteq files
  BY <1>1, MoveKeeps DEF _read_results
<1>5. LeaderTypes'
  <2>1. starts' \in 1..MaxStarts /\ timer' \in now..MaxTime + FlushInterval
    BY <1>1, <1>2, Constants, TypeParts DEF LeaderTypes
  <2>2. {up', registered', loop'} \subseteq BOOLEAN
    BY <1>1, TypeParts DEF LeaderTypes
  <2>3. QED
    BY <1>1, <1>3, <1>4, <2>1, <2>2, TypeParts DEF LeaderTypes
<1>6. LeaderOK'
  <2>1. fresh = {}
    BY <1>1 DEF LeaderOK
  <2>2. \A c \in acked \ lost : c \in files
    BY <2>1 DEF LeaderOK
  <2>3. \A c \in acked \ lost :
          Day(stamp[c]) * DayLength >= now - Retention => c \in raw' \cup day_aggregates'
    BY <1>4, <2>2, FilesOfWindow, TypeParts
  <2>4. QED
    BY <1>1, <1>3, <2>1, <2>2, <2>3 DEF LeaderOK
<1>7. QED
  BY <1>3, <1>5, <1>6, TypesNext

LEMMA FlushStep ==
  ASSUME PyInv, Flush
  PROVE  PyInv'
<1> USE DEF PyInv
<1>1. /\ FlushDue /\ files' = files \cup raw /\ Move(raw) /\ fresh' = {}
      /\ timer' = now + FlushInterval
      /\ UNCHANGED <<now, node, up, registered, loop, starts, lost, acked>>
  BY DEF Flush
<1>2. now \in Boot..MaxTime /\ now \in Nat
  BY Constants, TypeParts DEF LeaderTypes
<1>3. NodeTypes' /\ SequencesOK' /\ RecentOK' /\ NumberedInOrder' /\ Measured' = Measured
      /\ stamp' = stamp
  BY <1>1, <1>2, NodeIdle
<1>4. raw' \cup day_aggregates' = raw \cup day_aggregates
  BY <1>1, MoveKeeps
<1>5. LeaderTypes'
  <2>1. timer' \in now..MaxTime + FlushInterval
    BY <1>1, <1>2, Constants
  <2>2. QED
    BY <1>1, <1>3, <1>4, <2>1, TypeParts DEF LeaderTypes
<1>6. LeaderOK'
  BY <1>1, <1>3, <1>4 DEF LeaderOK, FlushDue
<1>7. QED
  BY <1>3, <1>5, <1>6, TypesNext

LEMMA FlushRaisesStep ==
  ASSUME PyInv, NEW W \in SUBSET raw, FlushRaises(W)
  PROVE  PyInv'
<1> USE DEF PyInv
<1>1. /\ FlushDue /\ files' = files \cup W /\ fresh' = fresh \ W /\ loop' = FALSE
      /\ UNCHANGED <<now, node, up, registered, raw, day_aggregates, timer, starts, lost, acked>>
  BY DEF FlushRaises
<1>2. now' \in Int /\ now' >= now
  BY <1>1, Constants, TypeParts DEF LeaderTypes
<1>3. NodeTypes' /\ SequencesOK' /\ RecentOK' /\ NumberedInOrder' /\ Measured' = Measured
      /\ stamp' = stamp
  BY <1>1, <1>2, NodeIdle
<1>4. LeaderTypes'
  BY <1>1, <1>3, TypeParts DEF LeaderTypes
<1>5. LeaderOK'
  BY <1>1, <1>3 DEF LeaderOK
<1>6. QED
  BY <1>3, <1>4, <1>5, TypesNext

LEMMA ExitStep ==
  ASSUME PyInv, NEW W \in SUBSET raw, Exit(W)
  PROVE  PyInv'
<1> USE DEF PyInv
<1>1. /\ up' = FALSE /\ registered' = FALSE /\ raw' = {} /\ day_aggregates' = {}
      /\ files' = files \cup W /\ fresh' = {} /\ lost' = lost \cup (fresh \ W) /\ loop' = FALSE
      /\ UNCHANGED <<now, node, timer, starts, acked>>
  BY DEF Exit
<1>2. now' \in Int /\ now' >= now
  BY <1>1, Constants, TypeParts DEF LeaderTypes
<1>3. NodeTypes' /\ SequencesOK' /\ RecentOK' /\ NumberedInOrder' /\ Measured' = Measured
      /\ stamp' = stamp
  BY <1>1, <1>2, NodeIdle
<1>4. LeaderTypes'
  BY <1>1, <1>3, TypeParts DEF LeaderTypes
<1>5. LeaderOK'
  BY <1>1, <1>3 DEF LeaderOK
<1>6. QED
  BY <1>3, <1>4, <1>5, TypesNext

LEMMA TickStep ==
  ASSUME PyInv, Tick
  PROVE  PyInv'
<1> USE DEF PyInv
<1>1. now < MaxTime /\ ~FlushDue /\ now' = now + 1 /\ UNCHANGED <<node, leader, acked>>
  BY DEF Tick
<1>2. now \in Nat /\ now \in Boot..MaxTime
  BY Constants, TypeParts DEF LeaderTypes
<1>3. NodeTypes' /\ SequencesOK' /\ RecentOK' /\ NumberedInOrder' /\ Measured' = Measured
      /\ stamp' = stamp
  BY <1>1, <1>2, NodeIdle
<1>4. LeaderTypes'
  <2>1. loop => timer \in now' .. MaxTime + FlushInterval
    BY <1>1, <1>2, Constants, TypeParts DEF LeaderTypes, FlushDue
  <2>2. now' \in Boot..MaxTime
    BY <1>1, <1>2, Constants
  <2>3. QED
    BY <1>1, <1>3, <2>1, <2>2, TypeParts DEF LeaderTypes, leader, store
<1>5. LeaderOK'
  <2>1. \A c \in acked : stamp[c] \in Int
    BY Constants, TypeParts DEF LeaderTypes, NodeTypes, Measured
  <2>2. \A c \in acked : Day(stamp[c]) * DayLength \in Int
    BY <2>1, DayIsInt, Constants
  <2>3. \A c \in acked : Day(stamp[c]) * DayLength >= now' - Retention
                           => Day(stamp[c]) * DayLength >= now - Retention
    <3> TAKE c \in acked
    <3> DEFINE start == Day(stamp[c]) * DayLength
    <3>1. start \in Int
      BY <2>2
    <3> HIDE DEF start
    <3>2. start >= now' - Retention => start >= now - Retention
      BY <1>1, <1>2, <3>1, Constants
    <3>3. QED
      BY <3>2 DEF start
  <2>4. QED
    BY <1>1, <1>3, <2>3 DEF LeaderOK, leader, store
<1>6. QED
  BY <1>3, <1>4, <1>5, TypesNext

--------------------------------------------------------------------------------
(* The theorems *)

LEMMA PyInit == Init => PyInv
<1> SUFFICES ASSUME Init PROVE PyInv
  OBVIOUS
<1>1. combined = {} /\ Measured = {} /\ Pending = <<>>
  BY ChecksOfEmpty DEF Init, combined, Measured, Pending
<1>2. TypeOK
  <2>1. timer \in now..MaxTime + FlushInterval /\ now \in Boot..MaxTime /\ starts \in 1..MaxStarts
    BY Constants DEF Init
  <2>2. QED
    BY <1>1, <2>1, Constants DEF Init, TypeOK
<1>3. SequencesOK /\ RecentOK /\ LeaderOK
  BY <1>1 DEF Init, SequencesOK, RecentOK, LeaderOK
<1>4. NumberedInOrder
  <2>1. 0 \in 0..MaxCheck /\ 1..0 = {}
    BY Constants
  <2>2. QED
    BY <1>1, <2>1 DEF NumberedInOrder
<1>5. QED
  BY <1>2, <1>3, <1>4 DEF PyInv

LEMMA PyStep == PyInv /\ [Next]_vars => PyInv'
<1> SUFFICES ASSUME PyInv, [Next]_vars PROVE PyInv'
  OBVIOUS
<1>1. CASE FetchPeers \/ UpdatePeers
  BY <1>1, PeersStep
<1>2. CASE RunCheckCycle
  BY <1>2, RunCheckCycleStep
<1>3. CASE Submit \/ SubmitFailed
  BY <1>3, SubmitStep, SubmitFailedStep
<1>4. CASE NewLeader \/ Flush
  BY <1>4, NewLeaderStep, FlushStep
<1>5. CASE \E W \in SUBSET raw : FlushRaises(W) \/ Exit(W)
  BY <1>5, FlushRaisesStep, ExitStep
<1>6. CASE Tick
  BY <1>6, TickStep
<1>7. CASE UNCHANGED vars
  <2>1. UNCHANGED <<now, node, leader, acked>> /\ now' \in Int /\ now' >= now
    BY <1>7, Constants, TypeParts DEF vars, PyInv, LeaderTypes
  <2>2. /\ NodeTypes' /\ SequencesOK' /\ RecentOK' /\ NumberedInOrder'
        /\ Measured' = Measured /\ stamp' = stamp
    BY <2>1, NodeIdle
  <2>3. LeaderTypes' /\ LeaderOK'
    BY <2>1, <2>2, TypeParts, LeaderIdle DEF PyInv
  <2>4. QED
    BY <2>2, <2>3, TypesNext DEF PyInv
<1>8. QED
  BY <1>1, <1>2, <1>3, <1>4, <1>5, <1>6, <1>7 DEF Next

\* The inductive invariant of the Python programs: the deque and the recent
\* cycles agree from their ends, and what the leader owes its files it still has.
THEOREM PyInvariant == Spec => []PyInv
BY PyInit, PyStep, PTL DEF Spec

\* Types, for any constants.
THEOREM PyTypes == Spec => []TypeOK
<1>1. PyInv => TypeOK
  BY DEF PyInv
<1>2. QED
  BY <1>1, PyInvariant, PTL

\* The checks of the last BufferSize cycles are with the node or were accepted,
\* over outages, lost answers and empty cycles.
THEOREM NewestIsKept == Spec => []NewestKept
<1>1. PyInv => NewestKept
  <2> SUFFICES ASSUME PyInv, NEW c \in Checks(recent)
               PROVE  c \in combined \cup acked
    BY DEF NewestKept
  <2>1. recent \in Cycles /\ Pending \in Cycles
    BY PendingFacts DEF PyInv, SequencesOK, Cycles
  <2>2. PICK i \in 1..Len(recent) : c \in ToSet(recent[i])
    BY <2>1, ChecksOfCycles
  <2> DEFINE j == i + Len(Pending) - Len(recent)
  <2>3. j >= 1 => j \in 1..Len(Pending)
    BY <2>1 DEF Cycles
  <2>4. IF j >= 1 THEN recent[i] = Pending[j] ELSE ToSet(recent[i]) \subseteq acked
    BY DEF PyInv, RecentOK
  <2> HIDE DEF j
  <2>5. QED
    BY <2>2, <2>3, <2>4, PendingFacts DEF PyInv
<1>2. QED
  BY <1>1, PyInvariant, PTL

\* A day of which a check was accepted and not lost with its process has an entry
\* in the 90-day answer, whichever leader is asked.
THEOREM DaysAreShown == Spec => []DaysShown
<1>1. PyInv => DaysShown
  <2> SUFFICES ASSUME PyInv, up, NEW c \in acked \ lost,
                      Day(stamp[c]) * DayLength >= now - Retention
               PROVE  DayShown(Day(stamp[c])) /= {}
    BY DEF DaysShown
  <2>1. c \in raw \cup day_aggregates
    BY DEF PyInv, LeaderOK
  <2>2. ~(Day(stamp[c]) * DayLength < now - Retention)
    <3>1. stamp[c] \in Int /\ now \in Int
      BY Constants, TypeParts DEF PyInv, LeaderTypes, NodeTypes, Measured
    <3>2. Day(stamp[c]) * DayLength \in Int
      BY <3>1, DayIsInt, Constants
    <3> DEFINE start == Day(stamp[c]) * DayLength
    <3>3. start \in Int /\ start >= now - Retention
      BY <3>2
    <3> HIDE DEF start
    <3>4. ~(start < now - Retention)
      BY <3>1, <3>3, Constants
    <3>5. QED
      BY <3>4 DEF start
  <2>3. QED
    BY <2>1, <2>2 DEF DayShown
<1>2. QED
  BY <1>1, PyInvariant, PTL

================================================================================
