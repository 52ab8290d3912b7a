---------------------------- MODULE Dashboard_proofs ----------------------------
(* Proofs about Dashboard, for any machines and requests, any time-out below   *)
(* the interval, and any number of changes, restarts and failures.             *)
EXTENDS Dashboard, TLAPS

LEMMA Timers ==
  /\ FetchTimeout \in Nat /\ Interval \in Nat /\ FetchTimeout < Interval
  /\ MaxChanges \in Nat /\ MaxFailures \in Nat
BY DashboardAssumption

--------------------------------------------------------------------------------
(* The records of a refresh *)

\* A snapshot of the leader, as an answer carries it.
Snap == [nodes |-> leader.nodes, rev |-> leader.rev, age |-> 0]

\* The refresh f when the request r has got its answers A.
With(f, r, A) == [f EXCEPT !.waiting = @ \ {r}, !.got[r] = A]

LEMMA WithFields ==
  ASSUME NEW f \in Opened, NEW r \in Request, NEW A \in SUBSET Given
  PROVE  /\ With(f, r, A) \in Opened
         /\ With(f, r, A).age = f.age
         /\ With(f, r, A).got[r] = A
         /\ \A q \in Request \ {r} : With(f, r, A).got[q] = f.got[q]
BY DEF With, Opened, Views

LEMMA SnapTypes == StateTypes => Snap \in Given /\ Snap.rev = leader.rev /\ Snap.age = 0
BY DEF StateTypes, Snap, Given

\* An answer one tick later.
Aged(a) == [a EXCEPT !.age = @ + 1]

LEMMA AgedAnswer ==
  ASSUME NEW a \in Given
  PROVE  Aged(a) \in Given /\ Aged(a).age = a.age + 1 /\ Aged(a).rev = a.rev
BY DEF Given, Aged

LEMMA OlderViews ==
  ASSUME NEW S \in Views
  PROVE  /\ Older(S) \in Views
         /\ \A r \in Request : Older(S)[r] = {Aged(a) : a \in S[r]} /\ S[r] \subseteq Given
<1>1. ASSUME NEW r \in Request
      PROVE  Older(S)[r] = {Aged(a) : a \in S[r]} /\ S[r] \subseteq Given
  BY DEF Older, Views, Aged
<1>2. Older(S) \in Views
  BY <1>1, AgedAnswer DEF Older, Views, Aged
<1>3. QED
  BY <1>1, <1>2

\* The refresh f one tick later.
Later(f) == [f EXCEPT !.age = @ + 1, !.got = Older(@)]

LEMMA OlderFields ==
  ASSUME NEW f \in Opened, f.age < FetchTimeout
  PROVE  /\ Later(f) \in Opened
         /\ Later(f).age = f.age + 1
         /\ Later(f).got = Older(f.got)
<1>1. Older(f.got) \in Views
  BY OlderViews DEF Opened
<1>2. f.age + 1 \in 0..FetchTimeout
  BY Timers DEF Opened
<1>3. QED
  BY <1>1, <1>2 DEF Opened, Later

--------------------------------------------------------------------------------
(* Steps of the leader, of an answer, of a drawing and of time *)

LEMMA LeaderStep ==
  ASSUME DashboardInv, Leader
  PROVE  DashboardInv' /\ UNCHANGED page
<1>1. /\ leader' \in [nodes : SUBSET Node, rev : 0..MaxChanges]
      /\ leader'.rev = leader.rev + 1
      /\ UNCHANGED <<timer, refreshes, page, failures>>
  <2>1. /\ leader \in [nodes : SUBSET Node, rev : 0..MaxChanges]
        /\ leader.rev < MaxChanges => leader.rev + 1 \in 0..MaxChanges
    BY Timers DEF DashboardInv, StateTypes
  <2>2. ASSUME NEW n \in Node, HandleRegister(n)
        PROVE  <1>1!:
    BY <2>1, <2>2 DEF HandleRegister
  <2>3. CASE HandleSubmit
    BY <2>1, <2>3 DEF HandleSubmit
  <2>4. CASE NewLeader
    BY <2>1, <2>4 DEF NewLeader
  <2>5. QED
    BY <2>2, <2>3, <2>4 DEF Leader
<1>2. StateTypes' /\ RefreshOK' /\ ShownTogether'
  BY <1>1 DEF DashboardInv, StateTypes, RefreshOK, ShownTogether
<1>3. RevisionsOK'
  <2>1. leader.rev \in Nat /\ page \in Views /\ \A f \in refreshes : f.got \in Views
    BY DEF DashboardInv, StateTypes, Opened
  <2>2. \A r \in Request : \A a \in page[r] : a.rev \in Nat
    BY <2>1 DEF Views, Given
  <2>3. \A f \in refreshes : \A r \in Request : \A a \in f.got[r] : a.rev \in Nat
    BY <2>1 DEF Views, Given
  <2>4. QED
    BY <1>1, <2>1, <2>2, <2>3 DEF DashboardInv, RevisionsOK
<1>4. QED
  BY <1>1, <1>2, <1>3 DEF DashboardInv

\* No refresh is open when the timer calls the next one: the time-out is below
\* the interval.
LEMMA RefreshStep ==
  ASSUME DashboardInv, Refresh
  PROVE  DashboardInv' /\ UNCHANGED page
<1> DEFINE new == [age |-> 0, waiting |-> Request, got |-> Nothing]
<1> USE DEF DashboardInv
<1>1. refreshes = {}
  <2>1. SUFFICES ASSUME NEW f \in refreshes PROVE FALSE
    OBVIOUS
  <2>2. f.age + 0 = Interval /\ f.age \in 0..FetchTimeout
    BY DEF Refresh, RefreshOK, StateTypes, Opened
  <2>3. QED
    BY <2>2, Timers
<1>2. /\ refreshes' = {new} /\ timer' = Interval /\ timer = 0
      /\ UNCHANGED <<leader, page, failures>>
  BY <1>1 DEF Refresh
<1>3. new \in Opened /\ new.age = 0 /\ \A r \in Request : new.got[r] = {}
  BY Timers DEF Opened, Views, Nothing
<1> HIDE DEF new
<1>4. StateTypes'
  BY <1>2, <1>3, Timers DEF StateTypes
<1>5. RefreshOK'
  BY <1>2, <1>3, Timers DEF RefreshOK
<1>6. ShownTogether'
  BY <1>2 DEF ShownTogether
<1>7. RevisionsOK'
  BY <1>2, <1>3 DEF RevisionsOK
<1>8. QED
  BY <1>2, <1>4, <1>5, <1>6, <1>7

\* One request of the open refresh gets the answers A: none, or what the leader
\* knows now.
LEMMA ReplyStep ==
  ASSUME DashboardInv, NEW f \in refreshes, NEW r \in Request,
         NEW A \in SUBSET {Snap},
         refreshes' = (refreshes \ {f}) \cup {With(f, r, A)},
         UNCHANGED <<leader, timer, page>>, failures' \in 0..MaxFailures
  PROVE  DashboardInv'
<1> USE DEF DashboardInv
<1> DEFINE g == With(f, r, A)
<1>1. Snap \in Given /\ Snap.rev = leader.rev /\ Snap.age = 0 /\ f \in Opened
  BY SnapTypes DEF StateTypes
<1>2. /\ g \in Opened /\ g.age = f.age /\ g.got[r] = A
      /\ \A q \in Request \ {r} : g.got[q] = f.got[q]
  BY <1>1, WithFields
<1> HIDE DEF g
<1>3. refreshes = {f} /\ refreshes' = {g}
  BY DEF RefreshOK, g
<1>4. StateTypes'
  BY <1>2, <1>3 DEF StateTypes
<1>5. RefreshOK'
  <2>1. g.age + timer = Interval /\ g.age \in Nat
    BY <1>2, <1>3 DEF RefreshOK, Opened
  <2>2. \A q \in Request : \A a \in g.got[q] : a.age <= g.age
    BY <1>1, <1>2, <1>3, <2>1 DEF RefreshOK
  <2>3. \A q \in Request : \A a, b \in g.got[q] : a = b
    BY <1>2, <1>3 DEF RefreshOK
  <2>4. QED
    BY <1>3, <2>1, <2>2, <2>3 DEF RefreshOK
<1>6. ShownTogether'
  BY DEF ShownTogether
<1>7. RevisionsOK'
  <2>1. leader.rev \in Nat
    BY DEF StateTypes
  <2>2. \A q \in Request : \A a \in g.got[q] :
          /\ a.rev <= leader.rev
          /\ \A p \in Request : \A old \in page[p] : old.rev <= a.rev
    BY <1>1, <1>2, <1>3, <2>1 DEF RevisionsOK
  <2>3. QED
    BY <1>3, <2>2 DEF RevisionsOK
<1>8. QED
  BY <1>4, <1>5, <1>6, <1>7

LEMMA RenderStep ==
  ASSUME DashboardInv, NEW f \in refreshes, Render(f)
  PROVE  DashboardInv'
<1> USE DEF DashboardInv
<1>1. /\ refreshes = {f} /\ refreshes' = {} /\ page' = f.got
      /\ UNCHANGED <<leader, timer, failures>>
  BY DEF Render, RefreshOK
<1>2. f \in Opened /\ f.got \in Views /\ f.age + timer = Interval /\ f.age \in Nat /\ timer \in Nat
  BY Timers DEF StateTypes, Opened, RefreshOK
<1>3. StateTypes' /\ RefreshOK'
  BY <1>1, <1>2 DEF StateTypes, RefreshOK
<1>4. ShownTogether'
  <2>1. \A r \in Request : \A a \in f.got[r] : a.age \in 0..FetchTimeout
    BY <1>2, Timers DEF RefreshOK, Views, Given, Opened
  <2>2. QED
    BY <1>1, <2>1, Timers DEF ShownTogether
<1>5. RevisionsOK'
  BY <1>1 DEF RevisionsOK
<1>6. QED
  BY <1>3, <1>4, <1>5

LEMMA TickStep ==
  ASSUME DashboardInv, Tick
  PROVE  DashboardInv' /\ page' = Older(page)
<1> USE DEF DashboardInv
<1>1. /\ timer > 0 /\ timer' = timer - 1 /\ page' = Older(page)
      /\ refreshes' = {Later(f) : f \in refreshes}
      /\ UNCHANGED <<leader, failures>>
  BY DEF Tick, Later
<1>2. /\ timer \in Nat /\ timer <= Interval /\ leader.rev \in Nat
      /\ page \in Views /\ refreshes \subseteq Opened
  BY Timers DEF StateTypes
<1>3. \A f \in refreshes : /\ f.got \in Views /\ f.age \in Nat
                           /\ Later(f) \in Opened /\ Later(f).age = f.age + 1
                           /\ Later(f).got = Older(f.got)
  <2>1. ASSUME NEW f \in refreshes
        PROVE  f \in Opened /\ f.age < FetchTimeout /\ f.got \in Views /\ f.age \in Nat
    <3>1. f.age < FetchTimeout
      BY DEF Tick
    <3>2. f \in Opened /\ f.got \in Views /\ f.age \in Nat
      BY <1>2, Timers DEF Opened
    <3>3. QED
      BY <3>1, <3>2
  <2>2. QED
    BY <2>1, OlderFields
<1>4. \A S \in Views : \A r \in Request : \A b \in Older(S)[r] :
        \E a \in S[r] : a \in Given /\ b = Aged(a) /\ b.age = a.age + 1 /\ b.rev = a.rev
  BY OlderViews, AgedAnswer
<1>5. StateTypes'
  BY <1>1, <1>2, <1>3, OlderViews, Timers DEF StateTypes
<1>6. RefreshOK'
  <2>1. \A f, g \in refreshes' : f = g
    BY <1>1 DEF RefreshOK
  <2>2. ASSUME NEW f \in refreshes
        PROVE  /\ Later(f).age + timer' = Interval
               /\ \A r \in Request : \A b \in Later(f).got[r] : b.age <= Later(f).age
               /\ \A r \in Request : \A b, c \in Later(f).got[r] : b = c
    <3>1. f.age + timer = Interval
      BY DEF RefreshOK
    <3>2. Later(f).age + timer' = Interval
      BY <1>1, <1>2, <1>3, <3>1
    <3>3. \A r \in Request : \A a \in f.got[r] : a \in Given => a.age <= f.age /\ a.age \in Nat
      BY DEF RefreshOK, Given
    <3>4. \A r \in Request : \A b \in Later(f).got[r] : b.age <= Later(f).age
      BY <1>3, <1>4, <3>3
    <3>5. \A r \in Request : \A b, c \in Later(f).got[r] : b = c
      BY <1>3, <1>4 DEF RefreshOK
    <3>6. QED
      BY <3>2, <3>4, <3>5
  <2>3. QED
    BY <1>1, <2>1, <2>2 DEF RefreshOK
<1>7. ShownTogether'
  <2> SUFFICES ASSUME NEW r \in Request, NEW q \in Request, NEW b \in page'[r], NEW c \in page'[q]
               PROVE  b.age <= c.age + FetchTimeout
    BY DEF ShownTogether
  <2>1. PICK a \in page[r] : a \in Given /\ b.age = a.age + 1
    BY <1>1, <1>2, <1>4
  <2>2. PICK d \in page[q] : d \in Given /\ c.age = d.age + 1
    BY <1>1, <1>2, <1>4
  <2>3. a.age <= d.age + FetchTimeout /\ a.age \in Nat /\ d.age \in Nat
    BY <2>1, <2>2 DEF ShownTogether, Given
  <2>4. QED
    BY <2>1, <2>2, <2>3, Timers
<1>8. RevisionsOK'
  <2>1. \A r \in Request : \A b \in page'[r] : \E a \in page[r] : b.rev = a.rev
    BY <1>1, <1>2, <1>4
  <2>2. \A f \in refreshes : \A r \in Request : \A b \in Later(f).got[r] :
          \E a \in f.got[r] : b.rev = a.rev
    BY <1>3, <1>4
  <2>3. \A r \in Request : \A b \in page'[r] : b.rev <= leader'.rev
    BY <1>1, <2>1 DEF RevisionsOK
  <2>4. ASSUME NEW f \in refreshes, NEW r \in Request, NEW b \in Later(f).got[r]
        PROVE  /\ b.rev <= leader'.rev
               /\ \A q \in Request : \A old \in page'[q] : old.rev <= b.rev
    <3>1. PICK a \in f.got[r] : b.rev = a.rev
      BY <2>2
    <3>2. QED
      BY <1>1, <2>1, <3>1 DEF RevisionsOK
  <2>5. QED
    BY <1>1, <2>3, <2>4 DEF RevisionsOK
<1>9. QED
  BY <1>1, <1>5, <1>6, <1>7, <1>8

--------------------------------------------------------------------------------
(* The theorems *)

\* What a step may do to the page: nothing, a drawing, or time.
LEMMA DashboardStep ==
  ASSUME DashboardInv, [Next]_vars
  PROVE  /\ DashboardInv'
         /\ \/ page' = page
            \/ page' = Older(page)
            \/ \E f \in refreshes : page' = f.got
<1>1. CASE Leader \/ Refresh
  BY <1>1, LeaderStep, RefreshStep
<1>2. ASSUME NEW f \in refreshes, NEW r \in Request, Answer(f, r)
      PROVE  DashboardInv' /\ page' = page
  <2>1. {Snap} \in SUBSET {Snap} /\ failures' \in 0..MaxFailures
    BY <1>2 DEF Answer, DashboardInv, StateTypes
  <2>2. /\ refreshes' = (refreshes \ {f}) \cup {With(f, r, {Snap})}
        /\ UNCHANGED <<leader, timer, page>>
    BY <1>2 DEF Answer, With, Snap
  <2>3. QED
    BY <2>1, <2>2, ReplyStep
<1>3. ASSUME NEW f \in refreshes, NEW r \in Request, FetchNull(f, r)
      PROVE  DashboardInv' /\ page' = page
  <2>1. {} \in SUBSET {Snap} /\ failures' \in 0..MaxFailures
    BY <1>3, Timers DEF FetchNull, DashboardInv, StateTypes
  <2>2. /\ refreshes' = (refreshes \ {f}) \cup {With(f, r, {})}
        /\ UNCHANGED <<leader, timer, page>>
    BY <1>3 DEF FetchNull, With
  <2>3. QED
    BY <2>1, <2>2, ReplyStep
<1>4. ASSUME NEW f \in refreshes, Render(f)
      PROVE  DashboardInv' /\ page' = f.got
  BY <1>4, RenderStep DEF Render
<1>5. CASE Tick
  BY <1>5, TickStep
<1>6. CASE UNCHANGED vars
  BY <1>6 DEF vars, DashboardInv, StateTypes, RefreshOK, ShownTogether, RevisionsOK
<1>7. QED
  BY <1>1, <1>2, <1>3, <1>4, <1>5, <1>6 DEF Next

LEMMA DashboardInit == Init => DashboardInv
<1> SUFFICES ASSUME Init PROVE DashboardInv
  OBVIOUS
<1>1. page \in Views /\ \A r \in Request : page[r] = {}
  BY DEF Init, Nothing, Views
<1>2. StateTypes
  BY <1>1, Timers DEF Init, StateTypes
<1>3. RefreshOK /\ ShownTogether /\ RevisionsOK
  BY <1>1 DEF Init, RefreshOK, ShownTogether, RevisionsOK
<1>4. QED
  BY <1>2, <1>3 DEF DashboardInv

\* The inductive invariant of the page: one refresh at most is open, its answers
\* are as young as it, what is on the page was answered within one time-out, and none
\* of it is newer than an answer under way.
THEOREM DashboardInvariant == Spec => []DashboardInv
BY DashboardInit, DashboardStep, PTL DEF Spec

\* Types, and that no two refreshes overlap, for any time-out below the interval.
THEOREM DashboardTypes == Spec => []TypeOK
<1>1. DashboardInv => TypeOK
  <2> SUFFICES ASSUME DashboardInv PROVE TypeOK
    OBVIOUS
  <2> USE DEF DashboardInv
  <2>1. ASSUME NEW f \in refreshes
        PROVE  /\ f.age + timer = Interval
               /\ f.age <= FetchTimeout
               /\ f.waiting \subseteq Request
               /\ Answers(f.got, f.age)
    <3>1. /\ f.age \in 0..FetchTimeout /\ f.waiting \subseteq Request
          /\ f.got \in Views /\ f.age + timer = Interval
      BY DEF StateTypes, Opened, RefreshOK
    <3>2. ASSUME NEW r \in Request, f.got[r] /= {}
          PROVE  \E a \in Snapshot(f.age) : f.got[r] = {a}
      <4>1. PICK a \in f.got[r] : TRUE
        BY <3>2
      <4>2. a \in Given /\ a.age <= f.age /\ \A b \in f.got[r] : b = a
        BY <3>1 DEF Views, RefreshOK
      <4>3. a.age \in 0..f.age
        BY <3>1, <4>2, Timers DEF Given
      <4>4. a \in Snapshot(f.age)
        BY <4>2, <4>3 DEF Given, Snapshot
      <4>5. QED
        BY <4>1, <4>2, <4>4
    <3>3. QED
      BY <3>1, <3>2, Timers DEF Answers
  <2>2. QED
    BY <2>1 DEF TypeOK, StateTypes, RefreshOK
<1>2. QED
  BY <1>1, DashboardInvariant, PTL

\* No view is left over from an earlier refresh: what is drawn together was answered
\* within one time-out.
THEOREM ViewsOfOneRefresh == Spec => []ShownTogether
<1>1. DashboardInv => ShownTogether
  BY DEF DashboardInv
<1>2. QED
  BY <1>1, DashboardInvariant, PTL

\* No drawing puts an older answer back, in any view.
THEOREM PageNeverGoesBack == Spec => ShownNeverBack
<1>1. DashboardInv /\ [Next]_vars =>
        [page' /= Older(page) =>
           \A r, q \in Request : \A new \in page'[r] : \A old \in page[q] : new.rev >= old.rev]_page
  <2> SUFFICES ASSUME DashboardInv, [Next]_vars, page' /= page, page' /= Older(page),
                      NEW r \in Request, NEW q \in Request,
                      NEW new \in page'[r], NEW old \in page[q]
               PROVE  new.rev >= old.rev
    OBVIOUS
  <2>1. PICK f \in refreshes : page' = f.got
    BY DashboardStep
  <2>2. old.rev <= new.rev
    BY <2>1 DEF DashboardInv, RevisionsOK
  <2>3. old.rev \in Int /\ new.rev \in Int
    BY <2>1, Timers DEF DashboardInv, StateTypes, Opened, Views, Given
  <2>4. QED
    BY <2>2, <2>3
<1>2. QED
  BY <1>1, DashboardInvariant, PTL DEF Spec, ShownNeverBack

================================================================================
