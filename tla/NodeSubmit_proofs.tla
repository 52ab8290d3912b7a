--------------------------- MODULE NodeSubmit_proofs ---------------------------
(* Proofs about NodeSubmit, for any number of checks, cycles of any length,    *)
(* any buffer sizes and any number of abandoned requests.                      *)
EXTENDS NodeSubmit, TLAPS

--------------------------------------------------------------------------------
(* Sequences of checks *)

LEMMA Elements ==
  ASSUME NEW S, NEW s \in Seq(S)
  PROVE  /\ ToSet(s) \subseteq S
         /\ \A x : x \in ToSet(s) <=> \E i \in 1..Len(s) : s[i] = x
BY DEF ToSet

LEMMA NoElements == ToSet(<<>>) = {}
BY DEF ToSet

LEMMA ElementsOfConcat ==
  ASSUME NEW S, NEW s \in Seq(S), NEW t \in Seq(S)
  PROVE  ToSet(s \o t) = ToSet(s) \cup ToSet(t)
<1>1. s \o t \in Seq(S) /\ Len(s \o t) = Len(s) + Len(t)
  OBVIOUS
<1>2. \A i \in 1..Len(s) : (s \o t)[i] = s[i]
  OBVIOUS
<1>3. \A i \in 1..Len(t) : Len(s) + i \in 1..Len(s \o t) /\ (s \o t)[Len(s) + i] = t[i]
  OBVIOUS
<1>4. \A i \in 1..Len(s \o t) : i \in 1..Len(s) \/ \E j \in 1..Len(t) : i = Len(s) + j
  <2> TAKE i \in 1..Len(s \o t)
  <2>1. i \in 1..Len(s) \/ i - Len(s) \in 1..Len(t)
    BY <1>1
  <2>2. i = Len(s) + (i - Len(s))
    OBVIOUS
  <2>3. QED
    BY <2>1, <2>2
<1>5. ASSUME NEW x, x \in ToSet(s \o t)
      PROVE  x \in ToSet(s) \cup ToSet(t)
  <2>1. PICK i \in 1..Len(s \o t) : (s \o t)[i] = x
    BY <1>1, <1>5, Elements
  <2>2. CASE i \in 1..Len(s)
    BY <1>2, <2>1, <2>2, Elements
  <2>3. CASE \E j \in 1..Len(t) : i = Len(s) + j
    BY <1>3, <2>1, <2>3, Elements
  <2>4. QED
    BY <1>4, <2>2, <2>3
<1>6. ASSUME NEW x \in ToSet(s)
      PROVE  x \in ToSet(s \o t)
  <2>1. PICK i \in 1..Len(s) : s[i] = x
    BY Elements
  <2>2. i \in 1..Len(s \o t) /\ (s \o t)[i] = x
    BY <1>1, <1>2, <2>1
  <2>3. QED
    BY <1>1, <2>2, Elements
<1>7. ASSUME NEW x \in ToSet(t)
      PROVE  x \in ToSet(s \o t)
  <2>1. PICK i \in 1..Len(t) : t[i] = x
    BY Elements
  <2>2. Len(s) + i \in 1..Len(s \o t) /\ (s \o t)[Len(s) + i] = x
    BY <1>3, <2>1
  <2>3. QED
    BY <1>1, <2>2, Elements
<1>8. QED
  BY <1>5, <1>6, <1>7

LEMMA ElementsOfAppend ==
  ASSUME NEW S, NEW s \in Seq(S), NEW e \in S
  PROVE  /\ Append(s, e) \in Seq(S)
         /\ ToSet(Append(s, e)) = ToSet(s) \cup {e}
<1> DEFINE last == <<e>>
<1>1. Append(s, e) \in Seq(S) /\ Append(s, e) = s \o last /\ last \in Seq(S)
  OBVIOUS
<1>2. ToSet(last) = {e}
  BY DEF ToSet
<1> HIDE DEF last
<1>3. QED
  BY <1>1, <1>2, ElementsOfConcat

\* w is the stretch of s from place m + 1 to place n.
Window(w, s, m, n) ==
  /\ Len(w) = n - m
  /\ \A i \in 1 .. n - m : w[i] = s[m + i]

LEMMA SubSeqIsWindow ==
  ASSUME NEW S, NEW s \in Seq(S), NEW m \in 0..Len(s), NEW n \in m..Len(s)
  PROVE  /\ SubSeq(s, m + 1, n) \in Seq(S)
         /\ Window(SubSeq(s, m + 1, n), s, m, n)
<1>1. SubSeq(s, m + 1, n) \in Seq(S)
  OBVIOUS
<1>2. Len(SubSeq(s, m + 1, n)) = n - m
  OBVIOUS
<1>3. \A i \in 1 .. n - m : SubSeq(s, m + 1, n)[i] = s[m + i]
  OBVIOUS
<1>4. QED
  BY <1>1, <1>2, <1>3 DEF Window

LEMMA WindowElements ==
  ASSUME NEW S, NEW s \in Seq(S), NEW w \in Seq(S),
         NEW m \in 0..Len(s), NEW n \in m..Len(s), Window(w, s, m, n)
  PROVE  ToSet(w) \subseteq ToSet(s)
<1>1. \A i \in 1..Len(w) : m + i \in 1..Len(s) /\ w[i] = s[m + i]
  BY DEF Window
<1>2. QED
  BY <1>1, Elements

\* The stretch that is all of the sequence.
LEMMA FullWindow ==
  ASSUME NEW S, NEW s \in Seq(S), NEW w \in Seq(S), Window(w, s, 0, Len(s))
  PROVE  w = s
BY DEF Window

--------------------------------------------------------------------------------
(* What the two critical sections of a submit keep *)

LEMMA HeldTypes ==
  ASSUME TypeOK
  PROVE  /\ Held \in Seq(Numbers)
         /\ Len(Held) = Len(resultBuffer) + Len(checks)
BY DEF TypeOK, Held

\* The payload is all that is held, or its oldest part that fills the buffer.
LEMMA PayloadIsOldest ==
  ASSUME TypeOK
  PROVE  /\ Payload \in Seq(Numbers)
         /\ \E n \in 0..Len(Held) : /\ Window(Payload, Held, 0, n)
                                    /\ n = Len(Held) \/ n >= BufferSize
<1>1. CASE resultBuffer = <<>>
  <2>1. Held = checks
    BY <1>1 DEF Held, TypeOK
  <2>2. Payload = Held
    BY <1>1, <2>1 DEF Payload
  <2>3. Len(Held) \in 0..Len(Held) /\ Window(Held, Held, 0, Len(Held))
    BY HeldTypes DEF Window
  <2>4. QED
    BY <2>2, <2>3, HeldTypes
<1>2. CASE resultBuffer /= <<>>
  <2> DEFINE space == BufferSize - Len(resultBuffer)
             part == SubSeq(checks, 1, Minimum(space, Len(checks)))
  <2>1. Payload = IF space > 0 THEN resultBuffer \o part ELSE resultBuffer
    BY <1>2 DEF Payload
  <2>2. CASE space > 0
    <3> DEFINE k == Minimum(space, Len(checks))
    <3>1. k \in 0..Len(checks) /\ (k = Len(checks) \/ k = space)
      BY <2>2 DEF Minimum, TypeOK
    <3> HIDE DEF k
    <3>2. part \in Seq(Numbers) /\ Len(part) = k /\ \A i \in 1..k : part[i] = checks[i]
      BY <3>1 DEF TypeOK, k
    <3> HIDE DEF part
    <3>3. Payload = resultBuffer \o part /\ Payload \in Seq(Numbers)
      BY <2>1, <2>2, <3>2 DEF TypeOK
    <3>4. Window(resultBuffer \o part, Held, 0, Len(resultBuffer) + k)
      <4> resultBuffer \in Seq(Numbers) /\ checks \in Seq(Numbers)
        BY DEF TypeOK
      <4>1. Len(resultBuffer \o part) = Len(resultBuffer) + k
        BY <3>2
      <4>2. \A i \in 1 .. Len(resultBuffer) + k :
              (resultBuffer \o part)[i] = (resultBuffer \o checks)[i]
        BY <3>1, <3>2
      <4>3. QED
        BY <4>1, <4>2, <3>1 DEF Window, Held
    <3>5. /\ Len(resultBuffer) + k \in 0..Len(Held)
          /\ Len(resultBuffer) + k = Len(Held) \/ Len(resultBuffer) + k >= BufferSize
      BY <3>1, HeldTypes DEF TypeOK
    <3>6. QED
      BY <3>3, <3>4, <3>5
  <2>3. CASE ~(space > 0)
    <3>1. Payload = resultBuffer
      BY <2>1, <2>3
    <3>2. Window(resultBuffer, Held, 0, Len(resultBuffer))
      BY DEF Window, Held, TypeOK
    <3>3. Len(resultBuffer) \in 0..Len(Held) /\ Len(resultBuffer) >= BufferSize
      BY <2>3, HeldTypes DEF TypeOK
    <3>4. QED
      BY <3>1, <3>2, <3>3 DEF TypeOK
  <2>4. QED
    BY <2>2, <2>3
<1>3. QED
  BY <1>1, <1>2

\* What is buffered again is the newest that fits.
LEMMA NewestIsNewest ==
  ASSUME TypeOK, NEW s \in Seq(Numbers)
  PROVE  /\ Newest(s) \in Seq(Numbers)
         /\ Len(Newest(s)) <= BufferSize
         /\ \E m \in 0..Len(s) : /\ Window(Newest(s), s, m, Len(s))
                                 /\ m = 0 \/ Len(s) - m >= BufferSize
<1> DEFINE m == Maximum(1, Len(s) - BufferSize + 1) - 1
<1>1. /\ m \in 0..Len(s)
      /\ m = 0 \/ Len(s) - m = BufferSize
      /\ Len(s) - m <= BufferSize
      /\ Maximum(1, Len(s) - BufferSize + 1) = m + 1
  BY DEF Maximum, TypeOK
<1> HIDE DEF m
<1>2. Newest(s) = SubSeq(s, m + 1, Len(s))
  BY <1>1 DEF Newest
<1>3. Newest(s) \in Seq(Numbers) /\ Window(Newest(s), s, m, Len(s))
  BY <1>1, <1>2, SubSeqIsWindow
<1>4. Len(Newest(s)) = Len(s) - m
  BY <1>3 DEF Window
<1>5. Len(s) - m >= BufferSize \/ m = 0
  BY <1>1 DEF TypeOK
<1>6. QED
  BY <1>1, <1>3, <1>4, <1>5

--------------------------------------------------------------------------------
(* Types *)

LEMMA NumbersAssumption ==
  /\ MaxCheck \in Nat /\ MaxCycle \in Nat /\ MaxLate \in Nat
  /\ MaxSize \in Nat /\ MaxSize >= 1
BY NodeAssumption

\* The results of a cycle, the newest numbers.
LEMMA CycleResults ==
  ASSUME TypeOK, NEW n \in 0..MaxCycle, measured + n <= MaxCheck
  PROVE  /\ [i \in 1..n |-> measured + i] \in Seq(Numbers)
         /\ Len([i \in 1..n |-> measured + i]) = n
         /\ \A i \in 1..n : [j \in 1..n |-> measured + j][i] = measured + i
<1>1. n \in Nat /\ \A i \in 1..n : measured + i \in Numbers
  BY NumbersAssumption DEF TypeOK, Numbers
<1>2. QED
  BY <1>1

LEMMA LateShrinks ==
  ASSUME TypeOK, NEW i \in DOMAIN late
  PROVE  /\ RemoveAt(late, i) \in Seq(Seq(Numbers))
         /\ ToSet(RemoveAt(late, i)) \subseteq ToSet(late)
<1> DEFINE before == SubSeq(late, 1, i - 1)
           after == SubSeq(late, i + 1, Len(late))
<1>1. late \in Seq(Seq(Numbers)) /\ i \in 1..Len(late)
  BY DEF TypeOK
<1>2. before \in Seq(Seq(Numbers)) /\ Window(before, late, 0, i - 1)
  <2>1. 0 \in 0..Len(late) /\ i - 1 \in 0..Len(late) /\ 0 + 1 = 1
    BY <1>1
  <2>2. QED
    BY <1>1, <2>1, SubSeqIsWindow
<1>3. after \in Seq(Seq(Numbers)) /\ Window(after, late, i, Len(late))
  <2>1. i \in 0..Len(late) /\ Len(late) \in i..Len(late)
    BY <1>1
  <2>2. QED
    BY <1>1, <2>1, SubSeqIsWindow
<1> HIDE DEF before, after
<1>4. RemoveAt(late, i) = before \o after
  BY DEF RemoveAt, before, after
<1>5. ToSet(before) \subseteq ToSet(late)
  <2>1. 0 \in 0..Len(late) /\ i - 1 \in 0..Len(late)
    BY <1>1
  <2>2. QED
    BY <1>1, <1>2, <2>1, WindowElements
<1>6. ToSet(after) \subseteq ToSet(late)
  <2>1. i \in 0..Len(late) /\ Len(late) \in i..Len(late)
    BY <1>1
  <2>2. QED
    BY <1>1, <1>3, <2>1, WindowElements
<1>7. ToSet(before \o after) = ToSet(before) \cup ToSet(after)
  BY <1>2, <1>3, ElementsOfConcat
<1>8. QED
  BY <1>2, <1>3, <1>4, <1>5, <1>6, <1>7

LEMMA TypesInit == Init => TypeOK
BY NumbersAssumption DEF Init, TypeOK, Numbers

\* What bufferResults keeps of all that is held.
LEMMA BufferKeeps ==
  ASSUME TypeOK, BufferResults
  PROVE  /\ resultBuffer' = Newest(Held)
         /\ shed' = shed \cup (ToSet(Held) \ ToSet(Newest(Held)))
BY DEF TypeOK, BufferResults, Held, Drop

LEMMA TypesStep == TypeOK /\ [Next]_vars => TypeOK'
<1> SUFFICES ASSUME TypeOK, [Next]_vars PROVE TypeOK'
  OBVIOUS
<1> USE DEF TypeOK
<1>1. ASSUME NEW n \in 0..MaxCycle, CheckCycle(n)
      PROVE  TypeOK'
  <2>1. checks' \in Seq(Numbers)
    BY <1>1, CycleResults DEF CheckCycle
  <2>2. measured' \in 0..MaxCheck /\ confirmed' \in 0..measured'
    BY <1>1, NumbersAssumption DEF CheckCycle, history
  <2>3. QED
    BY <1>1, <2>1, <2>2 DEF CheckCycle, history
<1>2. CASE Post
  <2>1. checks' \in Seq(Numbers) /\ resultBuffer' \in Seq(Numbers)
    BY <1>2, PayloadIsOldest DEF Post
  <2>2. shed' \subseteq Numbers
    BY <1>2, HeldTypes, Elements DEF Post, Drop
  <2>3. QED
    BY <1>2, <2>1, <2>2 DEF Post
<1>3. CASE Submitted
  BY <1>3 DEF Submitted
<1>4. CASE Refused
  BY <1>4 DEF Refused, history
<1>5. CASE PostError
  <2>1. late' \in Seq(Seq(Numbers))
    BY <1>5, ElementsOfAppend DEF PostError
  <2>2. QED
    BY <1>5, <2>1 DEF PostError, history
<1>6. CASE BufferResults
  <2>1. resultBuffer' \in Seq(Numbers)
    BY <1>6, BufferKeeps, HeldTypes, NewestIsNewest
  <2>2. shed' \subseteq Numbers
    BY <1>6, BufferKeeps, HeldTypes, Elements
  <2>3. checks' \in Seq(Numbers)
    BY <1>6 DEF BufferResults
  <2>4. QED
    BY <1>6, <2>1, <2>2, <2>3 DEF BufferResults
<1>7. ASSUME NEW b \in 0..MaxSize, UpdateConfig(b)
      PROVE  TypeOK'
  BY <1>7, NumbersAssumption DEF UpdateConfig, node, Minimum, Maximum
<1>8. CASE HandleSubmit
  <2>1. received' \subseteq Numbers
    BY <1>8, Elements DEF HandleSubmit, Accept
  <2>2. QED
    BY <1>8, <2>1 DEF HandleSubmit, node, history
<1>9. ASSUME NEW i \in DOMAIN late, HandleLate(i)
      PROVE  TypeOK'
  <2>1. late[i] \in Seq(Numbers)
    OBVIOUS
  <2>2. received' \subseteq Numbers
    BY <1>9, <2>1, Elements DEF HandleLate, Accept
  <2>3. late' \in Seq(Seq(Numbers))
    BY <1>9, LateShrinks DEF HandleLate
  <2>4. QED
    BY <1>9, <2>2, <2>3 DEF HandleLate, node, history
<1>10. CASE UNCHANGED vars
  BY <1>10 DEF vars, node, history
<1>11. QED
  BY <1>1, <1>2, <1>3, <1>4, <1>5, <1>6, <1>7, <1>8, <1>9, <1>10 DEF Next

--------------------------------------------------------------------------------
(* What is held *)

HeldInv ==
  /\ HeldInOrder
  /\ HeldIsRecent
  /\ ForgottenIsDelivered
  /\ ShortOutageLosesNothing

\* Ordered and recent, the checks held are no more than were measured since the
\* last 2xx answer.
LEMMA HeldLength ==
  ASSUME TypeOK, HeldIsRecent
  PROVE  Len(Held) <= measured - confirmed
<1>1. CASE Len(Held) = 0
  BY <1>1 DEF TypeOK
<1>2. CASE Len(Held) > 0
  <2>1. Len(Held) \in 1..Len(Held)
    BY <1>2, HeldTypes
  <2>2. Held[Len(Held)] \in confirmed + Len(Held) .. measured
    BY <2>1 DEF HeldIsRecent
  <2>3. QED
    BY <2>2, HeldTypes DEF TypeOK
<1>3. QED
  BY <1>1, <1>2, HeldTypes

\* A critical section that trims to no less than BufferSize: as few checks as
\* were measured in a short outage are not trimmed.
LEMMA TrimKeeps ==
  ASSUME TypeOK, HeldInv, SizesOK, Held' \in Seq(Numbers),
         NEW m \in 0..Len(Held), NEW n \in m..Len(Held), Window(Held', Held, m, n),
         (m = 0 /\ n = Len(Held)) \/ n - m >= BufferSize,
         UNCHANGED <<measured, confirmed, leastSize, received>>,
         shed' = shed \cup (ToSet(Held) \ ToSet(Held'))
  PROVE  HeldInv'
<1> USE DEF HeldInv
<1>1. m \in Nat /\ n \in Nat /\ n >= m /\ n <= Len(Held) /\ Len(Held') = n - m
  BY HeldTypes DEF Window
<1>2. \A i \in 1..Len(Held') : Held'[i] = Held[m + i] /\ m + i \in 1..Len(Held)
  BY <1>1, HeldTypes DEF Window
<1>3. HeldInOrder'
  <2>1. ASSUME NEW i \in 1..Len(Held'), NEW j \in 1..Len(Held'), i < j
        PROVE  Held'[i] < Held'[j]
    <3>1. m + i \in 1..Len(Held) /\ m + j \in 1..Len(Held) /\ m + i < m + j
      BY <1>1, <1>2, <2>1
    <3>2. Held[m + i] < Held[m + j]
      BY <3>1 DEF HeldInOrder
    <3>3. QED
      BY <1>2, <3>2
  <2>2. QED
    BY <2>1 DEF HeldInOrder
<1>4. HeldIsRecent'
  <2>1. ASSUME NEW i \in 1..Len(Held')
        PROVE  Held'[i] \in confirmed + i .. measured
    <3>1. Held[m + i] \in confirmed + (m + i) .. measured
      BY <1>2 DEF HeldIsRecent
    <3>2. confirmed + (m + i) >= confirmed + i
      BY <1>1, <2>1 DEF TypeOK
    <3>3. QED
      BY <1>1, <1>2, <2>1, <3>1, <3>2 DEF TypeOK
  <2>2. QED
    BY <2>1 DEF HeldIsRecent
<1>5. ForgottenIsDelivered'
  BY DEF ForgottenIsDelivered
<1>6. ShortOutageLosesNothing'
  <2>1. SUFFICES ASSUME measured - confirmed <= leastSize
                 PROVE  ToSet(Held') = ToSet(Held)
    BY DEF ShortOutageLosesNothing
  <2>2. Len(Held) <= BufferSize
    BY <2>1, HeldLength, HeldTypes DEF SizesOK, TypeOK
  <2>3. m = 0 /\ n = Len(Held)
    BY <1>1, <2>2, HeldTypes DEF TypeOK
  <2>4. Held' = Held
    BY <2>3, FullWindow, HeldTypes
  <2>5. QED
    BY <2>4
<1>7. QED
  BY <1>3, <1>4, <1>5, <1>6

\* A step that leaves what is held alone.
LEMMA OthersKeep ==
  ASSUME TypeOK, HeldInv, UNCHANGED <<Held, measured, confirmed, shed>>,
         received \subseteq received', leastSize' \in Int, leastSize' <= leastSize
  PROVE  HeldInv'
<1>1. ForgottenIsDelivered'
  BY DEF HeldInv, ForgottenIsDelivered
<1>2. ShortOutageLosesNothing'
  BY DEF HeldInv, ShortOutageLosesNothing, TypeOK
<1>3. QED
  BY <1>1, <1>2 DEF HeldInv, HeldInOrder, HeldIsRecent

\* A cycle appends the newest checks to what is held.
LEMMA CycleAppends ==
  ASSUME TypeOK, PhaseOK, NEW n \in 0..MaxCycle, CheckCycle(n)
  PROVE  /\ n \in Nat
         /\ Held' = Held \o [i \in 1..n |-> measured + i]
         /\ Held' \in Seq(Numbers)
         /\ ToSet(Held) \subseteq ToSet(Held')
         /\ Len(Held') = Len(Held) + n
         /\ \A i \in 1..Len(Held) : Held'[i] = Held[i]
         /\ \A i \in Len(Held) + 1 .. Len(Held) + n : Held'[i] = measured + (i - Len(Held))
<1> DEFINE fresh == [i \in 1..n |-> measured + i]
<1>1. /\ n \in Nat /\ fresh \in Seq(Numbers) /\ Len(fresh) = n
      /\ \A i \in 1..n : fresh[i] = measured + i
  BY CycleResults, NumbersAssumption DEF CheckCycle
<1>2. checks' = fresh
  BY DEF CheckCycle
<1> HIDE DEF fresh
<1>3. Held = resultBuffer /\ resultBuffer' = resultBuffer /\ resultBuffer \in Seq(Numbers)
  BY DEF CheckCycle, PhaseOK, Held, TypeOK
<1>4. Held' = Held \o fresh /\ Held \in Seq(Numbers)
  BY <1>2, <1>3 DEF Held
<1>5. /\ Len(Held') = Len(Held) + n
      /\ \A i \in 1..Len(Held) : Held'[i] = Held[i]
      /\ \A i \in Len(Held) + 1 .. Len(Held) + n : Held'[i] = fresh[i - Len(Held)]
  BY <1>1, <1>4
<1>6. \A i \in Len(Held) + 1 .. Len(Held) + n : i - Len(Held) \in 1..n
  BY <1>1, <1>4
<1>7. Held' \in Seq(Numbers) /\ ToSet(Held') = ToSet(Held) \cup ToSet(fresh)
  BY <1>1, <1>4, ElementsOfConcat
<1>8. QED
  BY <1>1, <1>4, <1>5, <1>6, <1>7 DEF fresh

LEMMA CycleKeeps ==
  ASSUME TypeOK, PhaseOK, HeldInv, NEW n \in 0..MaxCycle, CheckCycle(n)
  PROVE  HeldInv'
<1> USE DEF HeldInv
<1> DEFINE l == Len(Held)
<1>1. /\ n \in Nat /\ Len(Held') = l + n /\ l \in Nat
      /\ \A i \in 1..l : Held'[i] = Held[i]
      /\ \A i \in l + 1 .. l + n : Held'[i] = measured + (i - l)
  BY CycleAppends, HeldTypes
<1>2. \A i \in 1..l : Held[i] \in confirmed + i .. measured
  BY DEF HeldIsRecent
<1>3. /\ measured' = measured + n /\ measured \in Nat /\ confirmed \in 0..measured
      /\ UNCHANGED <<confirmed, leastSize, received, shed>>
  BY DEF CheckCycle, history, TypeOK
<1>4. l <= measured - confirmed
  BY HeldLength
<1>5. \A i, j \in 1..l : i < j => Held[i] < Held[j]
  BY DEF HeldInOrder
<1>6. \A c \in 1..measured : c \in ToSet(Held) => c \in ToSet(Held')
  BY CycleAppends
<1>7. \A c \in measured + 1 .. measured + n : c \in ToSet(Held')
  <2> TAKE c \in measured + 1 .. measured + n
  <2>1. l + (c - measured) \in l + 1 .. l + n /\ (l + (c - measured)) - l = c - measured
    BY <1>1, <1>3
  <2>2. Held'[l + (c - measured)] = measured + (c - measured)
    BY <1>1, <2>1
  <2>3. measured + (c - measured) = c /\ l + (c - measured) \in 1..Len(Held')
    BY <1>1, <1>3
  <2>4. Held' \in Seq(Numbers)
    BY CycleAppends
  <2>5. QED
    BY <2>2, <2>3, <2>4, Elements
<1> HIDE DEF l
<1>8. HeldInOrder'
  <2>1. ASSUME NEW i \in 1 .. l + n, NEW j \in 1 .. l + n, i < j
        PROVE  Held'[i] < Held'[j]
    <3>1. CASE j <= l
      BY <1>1, <1>5, <2>1, <3>1
    <3>2. CASE i <= l /\ j > l
      <4>1. Held'[i] <= measured /\ Held'[i] \in Int
        BY <1>1, <1>2, <1>3, <2>1, <3>2
      <4>2. Held'[j] = measured + (j - l)
        BY <1>1, <2>1, <3>2
      <4>3. QED
        BY <1>1, <1>3, <2>1, <3>2, <4>1, <4>2
    <3>3. CASE i > l /\ j > l
      BY <1>1, <1>3, <2>1, <3>3
    <3>4. QED
      BY <1>1, <2>1, <3>1, <3>2, <3>3
  <2>2. QED
    BY <1>1, <2>1 DEF HeldInOrder
<1>9. HeldIsRecent'
  <2>1. ASSUME NEW i \in 1 .. l + n
        PROVE  Held'[i] \in confirmed + i .. measured + n
    <3>1. CASE i <= l
      <4>1. i \in 1..l
        BY <1>1, <2>1, <3>1
      <4>2. Held'[i] \in confirmed + i .. measured
        BY <1>1, <1>2, <4>1
      <4>3. QED
        BY <1>1, <1>3, <4>1, <4>2
    <3>2. CASE i > l
      BY <1>1, <1>3, <1>4, <2>1, <3>2
    <3>3. QED
      BY <1>1, <2>1, <3>1, <3>2
  <2>2. QED
    BY <1>1, <1>3, <2>1 DEF HeldIsRecent
<1>10. ForgottenIsDelivered'
  BY <1>1, <1>3, <1>6, <1>7 DEF ForgottenIsDelivered
<1>11. ShortOutageLosesNothing'
  BY <1>1, <1>3, <1>6, <1>7 DEF ShortOutageLosesNothing, TypeOK
<1>12. QED
  BY <1>8, <1>9, <1>10, <1>11

\* The two critical sections, as far as what is held goes: both trim it.
Trims ==
  /\ Held' \in Seq(Numbers)
  /\ UNCHANGED <<measured, confirmed, leastSize, received, BufferSize>>
  /\ shed' = shed \cup (ToSet(Held) \ ToSet(Held'))
  /\ \E m \in 0..Len(Held) : \E n \in m..Len(Held) :
       /\ Window(Held', Held, m, n)
       /\ (m = 0 /\ n = Len(Held)) \/ n - m >= BufferSize

LEMMA PostTrims ==
  ASSUME TypeOK, Post
  PROVE  Trims /\ Held' = Payload
<1>1. Payload \in Seq(Numbers)
  BY PayloadIsOldest
<1>2. Held' = Payload
  BY <1>1 DEF Post, Held
<1>3. PICK n \in 0..Len(Held) : /\ Window(Payload, Held, 0, n)
                                /\ n = Len(Held) \/ n >= BufferSize
  BY PayloadIsOldest
<1>4. 0 \in 0..Len(Held) /\ n \in 0..Len(Held) /\ (n = Len(Held) \/ n - 0 >= BufferSize)
  BY <1>3, HeldTypes DEF TypeOK
<1>5. \E m \in 0..Len(Held) : \E k \in m..Len(Held) :
        /\ Window(Held', Held, m, k)
        /\ (m = 0 /\ k = Len(Held)) \/ k - m >= BufferSize
  BY <1>2, <1>3, <1>4
<1>6. QED
  BY <1>1, <1>2, <1>5 DEF Post, Drop, Trims

LEMMA BufferTrims ==
  ASSUME TypeOK, BufferResults
  PROVE  Trims /\ Held' = Newest(Held)
<1>1. Newest(Held) \in Seq(Numbers) /\ Held \in Seq(Numbers)
  BY HeldTypes, NewestIsNewest
<1>2. Held' = Newest(Held)
  BY <1>1, BufferKeeps DEF BufferResults, Held
<1>3. PICK m \in 0..Len(Held) : /\ Window(Newest(Held), Held, m, Len(Held))
                                /\ m = 0 \/ Len(Held) - m >= BufferSize
  BY <1>1, NewestIsNewest
<1>4. Len(Held) \in m..Len(Held)
  BY <1>1
<1>5. \E j \in 0..Len(Held) : \E k \in j..Len(Held) :
        /\ Window(Held', Held, j, k)
        /\ (j = 0 /\ k = Len(Held)) \/ k - j >= BufferSize
  BY <1>2, <1>3, <1>4
<1>6. QED
  BY <1>1, <1>2, <1>5, BufferKeeps DEF BufferResults, Trims

LEMMA TrimsKeep ==
  ASSUME TypeOK, HeldInv, SizesOK, Trims
  PROVE  HeldInv'
<1>1. PICK m \in 0..Len(Held), n \in 0..Len(Held) :
        /\ n \in m..Len(Held)
        /\ Window(Held', Held, m, n)
        /\ (m = 0 /\ n = Len(Held)) \/ n - m >= BufferSize
  BY HeldTypes DEF Trims
<1>2. QED
  BY <1>1, TrimKeeps DEF Trims

LEMMA HeldStep == SubmitInv /\ [Next]_vars => HeldInv'
<1> SUFFICES ASSUME SubmitInv, [Next]_vars PROVE HeldInv'
  OBVIOUS
<1> USE DEF SubmitInv
<1>1. HeldInv /\ leastSize \in Int /\ leastSize <= leastSize
  BY DEF HeldInv, TypeOK
<1>2. ASSUME NEW n \in 0..MaxCycle, CheckCycle(n)
      PROVE  HeldInv'
  BY <1>1, <1>2, CycleKeeps
<1>3. CASE Post \/ BufferResults
  BY <1>1, <1>3, PostTrims, BufferTrims, TrimsKeep
<1>4. CASE Submitted
  <2>1. Held' = <<>> /\ UNCHANGED <<measured, received, shed>> /\ confirmed' = measured
    BY <1>4 DEF Submitted, PhaseOK, Held
  <2>2. HeldInOrder' /\ HeldIsRecent'
    BY <2>1 DEF HeldInOrder, HeldIsRecent
  <2>3. ForgottenIsDelivered'
    <3>1. request = "ok" /\ pc = "posting" /\ resultBuffer = <<>> /\ checks \in Seq(Numbers)
      BY <1>4 DEF Submitted, PhaseOK, TypeOK
    <3>2. Held = checks /\ ToSet(checks) \subseteq received
      BY <3>1 DEF Held, PhaseOK
    <3>3. QED
      BY <2>1, <3>2 DEF ForgottenIsDelivered
  <2>4. ShortOutageLosesNothing'
    BY <2>1 DEF ShortOutageLosesNothing, TypeOK
  <2>5. QED
    BY <2>2, <2>3, <2>4 DEF HeldInv
<1>5. CASE Refused \/ PostError \/ HandleSubmit \/ UNCHANGED vars
  <2>1. UNCHANGED <<Held, measured, confirmed, shed, leastSize>>
    BY <1>5 DEF Refused, PostError, HandleSubmit, vars, node, history, Held
  <2>2. received \subseteq received'
    BY <1>5 DEF Refused, PostError, HandleSubmit, vars, history, Accept
  <2>3. QED
    BY <1>1, <2>1, <2>2, OthersKeep
<1>6. ASSUME NEW i \in DOMAIN late, HandleLate(i)
      PROVE  HeldInv'
  <2>1. UNCHANGED <<Held, measured, confirmed, shed, leastSize>>
    BY <1>6 DEF HandleLate, node, history, Held
  <2>2. received \subseteq received'
    BY <1>6 DEF HandleLate, Accept
  <2>3. QED
    BY <1>1, <2>1, <2>2, OthersKeep
<1>7. ASSUME NEW b \in 0..MaxSize, UpdateConfig(b)
      PROVE  HeldInv'
  <2>1. UNCHANGED <<Held, measured, confirmed, shed, received>>
    BY <1>7 DEF UpdateConfig, node, Held
  <2>2. leastSize' \in Int /\ leastSize' <= leastSize
    BY <1>1, <1>7, NumbersAssumption DEF UpdateConfig, Minimum
  <2>3. QED
    BY <1>1, <2>1, <2>2, OthersKeep
<1>8. QED
  BY <1>2, <1>3, <1>4, <1>5, <1>6, <1>7 DEF Next

--------------------------------------------------------------------------------
(* The phases, the sizes and what is sent *)

LEMMA PhaseStep == TypeOK /\ PhaseOK /\ [Next]_vars => PhaseOK'
<1> SUFFICES ASSUME TypeOK, PhaseOK, [Next]_vars PROVE PhaseOK'
  OBVIOUS
<1> USE DEF PhaseOK, node, history
<1>1. ASSUME NEW n \in 0..MaxCycle, CheckCycle(n)
      PROVE  PhaseOK'
  BY <1>1 DEF CheckCycle
<1>2. CASE Post
  BY <1>2 DEF Post
<1>3. CASE Submitted
  BY <1>3 DEF Submitted
<1>4. CASE Refused
  BY <1>4 DEF Refused
<1>5. CASE PostError
  BY <1>5 DEF PostError
<1>6. CASE BufferResults
  <2>1. request = "none"
    BY <1>6 DEF BufferResults, TypeOK
  <2>2. QED
    BY <1>6, <2>1 DEF BufferResults
<1>7. ASSUME NEW b \in 0..MaxSize, UpdateConfig(b)
      PROVE  PhaseOK'
  BY <1>7 DEF UpdateConfig
<1>8. CASE HandleSubmit
  BY <1>8 DEF HandleSubmit, Accept
<1>9. ASSUME NEW i \in DOMAIN late, HandleLate(i)
      PROVE  PhaseOK'
  <2>1. received \subseteq received'
    BY <1>9 DEF HandleLate, Accept
  <2>2. QED
    BY <1>9, <2>1 DEF HandleLate
<1>10. CASE UNCHANGED vars
  BY <1>10 DEF vars
<1>11. QED
  BY <1>1, <1>2, <1>3, <1>4, <1>5, <1>6, <1>7, <1>8, <1>9, <1>10 DEF Next

LEMMA SizesStep == TypeOK /\ SizesOK /\ [Next]_vars => SizesOK'
<1> SUFFICES ASSUME TypeOK, SizesOK, [Next]_vars PROVE SizesOK'
  OBVIOUS
<1> USE DEF SizesOK, TypeOK
<1>1. CASE \E n \in 0..MaxCycle : CheckCycle(n)
  BY <1>1 DEF CheckCycle, history
<1>2. CASE Post
  BY <1>2 DEF Post
<1>3. CASE Submitted
  BY <1>3 DEF Submitted
<1>4. CASE Refused \/ PostError \/ HandleSubmit
  BY <1>4 DEF Refused, PostError, HandleSubmit, node, history
<1>5. CASE BufferResults
  <2>1. resultBuffer' = Newest(Held) /\ Len(Newest(Held)) <= BufferSize
    BY <1>5, BufferKeeps, HeldTypes, NewestIsNewest
  <2>2. Newest(Held) \in Seq(Numbers)
    BY HeldTypes, NewestIsNewest
  <2>3. UNCHANGED <<BufferSize, leastSize, mostSize>>
    BY <1>5 DEF BufferResults
  <2>4. QED
    BY <2>1, <2>2, <2>3
<1>6. CASE \E b \in 0..MaxSize : UpdateConfig(b)
  BY <1>6, NumbersAssumption DEF UpdateConfig, node, Minimum, Maximum
<1>7. CASE \E i \in DOMAIN late : HandleLate(i)
  BY <1>7 DEF HandleLate, node, history
<1>8. CASE UNCHANGED vars
  BY <1>8 DEF vars, node, history
<1>9. QED
  BY <1>1, <1>2, <1>3, <1>4, <1>5, <1>6, <1>7, <1>8 DEF Next

\* What is held was measured, so what is posted was.
LEMMA PayloadIsMeasured ==
  ASSUME TypeOK, HeldIsRecent
  PROVE  ToSet(checks) \subseteq 1..measured
<1>1. ToSet(Held) \subseteq 1..measured
  BY HeldTypes, Elements DEF HeldIsRecent, TypeOK
<1>2. ToSet(Held) = ToSet(resultBuffer) \cup ToSet(checks)
  BY ElementsOfConcat DEF Held, TypeOK
<1>3. QED
  BY <1>1, <1>2

LEMMA SentStep == SubmitInv /\ [Next]_vars => SentIsMeasured'
<1> SUFFICES ASSUME SubmitInv, [Next]_vars PROVE SentIsMeasured'
  OBVIOUS
<1>1. TypeOK /\ SentIsMeasured /\ ToSet(checks) \subseteq 1..measured
  BY PayloadIsMeasured DEF SubmitInv
<1> USE DEF SentIsMeasured
<1>2. CASE \E n \in 0..MaxCycle : CheckCycle(n)
  <2>1. measured' \in Nat /\ measured \in Nat /\ measured <= measured'
    BY <1>1, <1>2 DEF CheckCycle, TypeOK
  <2>2. 1..measured \subseteq 1..measured'
    BY <2>1
  <2>3. UNCHANGED <<late, received>>
    BY <1>2 DEF CheckCycle
  <2>4. QED
    BY <1>1, <2>2, <2>3
<1>3. CASE Post \/ Submitted \/ Refused \/ BufferResults \/ UNCHANGED vars
           \/ \E b \in 0..MaxSize : UpdateConfig(b)
  BY <1>1, <1>3 DEF Post, Submitted, Refused, BufferResults, UpdateConfig, vars, node
<1>4. CASE PostError
  <2>1. late' = late \/ ToSet(late') = ToSet(late) \cup {checks}
    <3>1. late \in Seq(Seq(Numbers)) /\ checks \in Seq(Numbers)
      BY <1>1 DEF TypeOK
    <3>2. ToSet(Append(late, checks)) = ToSet(late) \cup {checks}
      BY <3>1, ElementsOfAppend
    <3>3. late' = late \/ late' = Append(late, checks)
      BY <1>4 DEF PostError
    <3>4. QED
      BY <3>2, <3>3
  <2>2. QED
    BY <1>1, <1>4, <2>1 DEF PostError
<1>5. CASE HandleSubmit
  BY <1>1, <1>5 DEF HandleSubmit, Accept, node
<1>6. ASSUME NEW i \in DOMAIN late, HandleLate(i)
      PROVE  SentIsMeasured'
  <2>1. ToSet(late') \subseteq ToSet(late)
    BY <1>1, <1>6, LateShrinks DEF HandleLate
  <2>2. late[i] \in ToSet(late)
    BY DEF ToSet
  <2>3. received' \subseteq received \cup ToSet(late[i]) /\ measured' = measured
    BY <1>6 DEF HandleLate, Accept, node
  <2>4. QED
    BY <1>1, <2>1, <2>2, <2>3
<1>7. QED
  BY <1>2, <1>3, <1>4, <1>5, <1>6 DEF Next

--------------------------------------------------------------------------------
(* The theorems *)

LEMMA SubmitInit == Init => SubmitInv
<1> SUFFICES ASSUME Init PROVE SubmitInv
  OBVIOUS
<1>1. Held = <<>> /\ measured = 0 /\ confirmed = 0 /\ received = {} /\ late = <<>>
  BY DEF Init, Held
<1>2. HeldInOrder /\ HeldIsRecent
  BY <1>1 DEF HeldInOrder, HeldIsRecent
<1>3. ForgottenIsDelivered /\ ShortOutageLosesNothing
  BY <1>1 DEF ForgottenIsDelivered, ShortOutageLosesNothing
<1>4. SentIsMeasured
  BY <1>1, NoElements DEF SentIsMeasured
<1>5. PhaseOK /\ SizesOK
  BY NumbersAssumption DEF Init, PhaseOK, SizesOK
<1>6. QED
  BY <1>2, <1>3, <1>4, <1>5, TypesInit DEF SubmitInv

LEMMA SubmitStep == SubmitInv /\ [Next]_vars => SubmitInv'
BY TypesStep, HeldStep, PhaseStep, SizesStep, SentStep DEF SubmitInv, HeldInv

\* The inductive invariant of a node's submits: what is held is ordered, recent
\* and complete as far as it is not delivered or shed, in every phase.
THEOREM SubmitInvariant == Spec => []SubmitInv
BY SubmitInit, SubmitStep, PTL DEF Spec

\* Types, for any number of checks, abandoned requests and buffer sizes.
THEOREM SubmitTypes == Spec => []TypeOK
<1>1. SubmitInv => TypeOK
  BY DEF SubmitInv
<1>2. QED
  BY <1>1, SubmitInvariant, PTL

\* Merging, trimming and re-buffering keep the order of measurement and double
\* no check, through any sequence of failed and late requests.
THEOREM HeldStaysInOrder == Spec => []HeldInOrder
<1>1. SubmitInv => HeldInOrder
  BY DEF SubmitInv
<1>2. QED
  BY <1>1, SubmitInvariant, PTL

\* An outage shorter than the smallest buffer size of its time loses no check,
\* whatever sizes are pushed meanwhile.
THEOREM ShortOutageIsSafe == Spec => []ShortOutageLosesNothing
<1>1. SubmitInv => ShortOutageLosesNothing
  BY DEF SubmitInv
<1>2. QED
  BY <1>1, SubmitInvariant, PTL

\* The node drops a check only when the leader has it or it did not fit.
THEOREM NothingIsForgotten == Spec => []ForgottenIsDelivered
<1>1. SubmitInv => ForgottenIsDelivered
  BY DEF SubmitInv
<1>2. QED
  BY <1>1, SubmitInvariant, PTL

\* The buffer never outgrows the largest size that was configured.
THEOREM BufferStaysBounded == Spec => []BufferBounded
<1>1. SubmitInv => BufferBounded
  BY DEF SubmitInv, SizesOK, BufferBounded
<1>2. QED
  BY <1>1, SubmitInvariant, PTL

--------------------------------------------------------------------------------
(* The promise *)

LEMMA SameElements == \A s : Promise!ToSet(s) = ToSet(s)
BY DEF ToSet, Promise!ToSet

\* What a critical section keeps is what Outbox may shed down to.
LEMMA TrimsShed ==
  ASSUME SubmitInv, SubmitInv', Trims
  PROVE  Promise!Shed \/ UNCHANGED Promise!vars
<1>1. PICK m \in 0..Len(Held), n \in 0..Len(Held) :
        /\ n \in m..Len(Held)
        /\ Window(Held', Held, m, n)
        /\ (m = 0 /\ n = Len(Held)) \/ n - m >= BufferSize
  BY HeldTypes DEF Trims, SubmitInv
<1>2. UNCHANGED <<measured, received, BufferSize>> /\ Held' \in Seq(Numbers)
  BY DEF Trims
<1>3. CASE m = 0 /\ n = Len(Held)
  <2>1. Held' = Held
    BY <1>1, <1>2, <1>3, FullWindow, HeldTypes DEF SubmitInv
  <2>2. QED
    BY <1>2, <2>1 DEF Promise!vars
<1>4. CASE ~(m = 0 /\ n = Len(Held))
  <2>1. Len(Held') = n - m /\ n - m >= BufferSize
    BY <1>1, <1>4 DEF Window
  <2>2. Len(Held) > BufferSize
    BY <1>1, <1>4, <2>1, HeldTypes DEF SubmitInv, TypeOK
  <2>3. ToSet(Held') \subseteq ToSet(Held)
    BY <1>1, <1>2, WindowElements, HeldTypes DEF SubmitInv
  <2>4. Promise!IsSubsequence(Held', Held)
    BY <2>3, SameElements DEF Promise!IsSubsequence, SubmitInv, HeldInOrder
  <2>5. QED
    BY <1>2, <2>1, <2>2, <2>4 DEF Promise!Shed
<1>5. QED
  BY <1>3, <1>4

LEMMA PromiseStep ==
  SubmitInv /\ SubmitInv' /\ [Next]_vars => [Promise!Next]_(Promise!vars)
<1> SUFFICES ASSUME SubmitInv, SubmitInv', [Next]_vars
             PROVE  Promise!Next \/ UNCHANGED Promise!vars
  OBVIOUS
<1> USE DEF Promise!Next
<1>1. TypeOK /\ PhaseOK
  BY DEF SubmitInv
<1>2. ASSUME NEW n \in 0..MaxCycle, CheckCycle(n)
      PROVE  Promise!Measure \/ UNCHANGED Promise!vars
  <2>1. n \in Nat /\ Held' = Held \o [i \in 1..n |-> measured + i]
    BY <1>1, <1>2, CycleAppends
  <2>2. /\ measured' = measured + n /\ n <= MaxCheck - measured
        /\ UNCHANGED <<received, BufferSize>>
    BY <1>1, <1>2, NumbersAssumption DEF CheckCycle, TypeOK
  <2>3. CASE n = 0
    <3>1. Held' = Held
      <4>1. /\ Held \in Seq(Numbers) /\ Held' \in Seq(Numbers)
            /\ Len(Held') = Len(Held) + n /\ \A i \in 1..Len(Held) : Held'[i] = Held[i]
        BY <1>1, <1>2, HeldTypes, CycleAppends
      <4>2. Window(Held', Held, 0, Len(Held))
        BY <2>3, <4>1 DEF Window
      <4>3. QED
        BY <4>1, <4>2, FullWindow
    <3>2. measured' = measured
      BY <1>1, <2>2, <2>3 DEF TypeOK
    <3>3. QED
      BY <2>2, <3>1, <3>2 DEF Promise!vars
  <2>4. CASE n > 0
    <3>1. n \in 1 .. MaxCheck - measured
      BY <1>1, <2>1, <2>2, <2>4, NumbersAssumption DEF TypeOK
    <3>2. QED
      BY <2>1, <2>2, <3>1 DEF Promise!Measure
  <2>5. QED
    BY <2>1, <2>3, <2>4
<1>3. CASE Post \/ BufferResults
  BY <1>1, <1>3, PostTrims, BufferTrims, TrimsShed
<1>4. CASE Submitted
  <2>1. request = "ok" /\ pc = "posting" /\ resultBuffer = <<>> /\ checks \in Seq(Numbers)
    BY <1>1, <1>4 DEF Submitted, PhaseOK, TypeOK
  <2>2. Held = checks /\ ToSet(checks) \subseteq received
    BY <1>1, <2>1 DEF Held, PhaseOK
  <2>3. Held' = <<>> /\ UNCHANGED <<measured, received, BufferSize>>
    BY <1>4, <2>1 DEF Submitted, Held
  <2>4. QED
    BY <2>2, <2>3, SameElements DEF Promise!Release
<1>5. CASE Refused \/ PostError \/ UNCHANGED vars
  BY <1>5 DEF Refused, PostError, vars, node, history, Held, Promise!vars
<1>6. CASE \E b \in 0..MaxSize : UpdateConfig(b)
  BY <1>6, NumbersAssumption DEF UpdateConfig, node, Held, Promise!Resize
<1>7. CASE HandleSubmit \/ \E i \in DOMAIN late : HandleLate(i)
  <2>1. received \subseteq received' /\ UNCHANGED <<measured, Held, BufferSize>>
    BY <1>7 DEF HandleSubmit, HandleLate, Accept, node, Held
  <2>2. received' \subseteq 1..measured
    BY <2>1 DEF SubmitInv, SentIsMeasured
  <2>3. QED
    BY <2>1, <2>2 DEF Promise!Receive
<1>8. QED
  BY <1>2, <1>3, <1>4, <1>5, <1>6, <1>7 DEF Next

\* A node implements Outbox: with its buffer, its requests and its time-outs it
\* still lets go of checks only once all it holds was received, and sheds some
\* only when it holds more than its buffer may.
THEOREM NodeImplementsOutbox == Spec => ImplementsOutbox
<1>1. Init => Promise!Init
  BY DEF Init, Held, Promise!Init
<1>2. QED
  BY <1>1, PromiseStep, SubmitInvariant, PTL DEF Spec, ImplementsOutbox, Promise!Spec

================================================================================
