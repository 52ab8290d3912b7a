-------------------------------- MODULE Dashboard --------------------------------
(***************************************************************************)
(* The refresh loop of the dashboard (frontend/src/main.ts, api.ts) over    *)
(* what the Go leader answers (internal/leader/handlers.go, results.go).    *)
(*                                                                          *)
(* Every Interval the page sends four requests.  They are handled one by    *)
(* one, while the leader goes on and may restart; each ends with an answer  *)
(* or, at the latest after FETCH_TIMEOUT, with null; then all of the page   *)
(* is drawn again.  The browser's timers are counters that Tick moves.  Of  *)
(* an answer are kept the nodes, which are the rows and columns of the      *)
(* matrix, and the state of the leader it was taken from.  The tabs, and    *)
(* what the views make of one answer, are left out.                         *)
(***************************************************************************)
EXTENDS Integers

CONSTANTS
  Node,          \* the machines
  Request,       \* what a refresh asks for: 90m, 90h, 90d and the node list
  FetchTimeout,  \* FETCH_TIMEOUT, in ticks
  Interval,      \* from one refresh to the next, in ticks
  MaxChanges,    \* bound: changes of what the leader knows
  MaxFailures    \* bound: requests that end without an answer

ASSUME DashboardAssumption ==
  /\ "nodes" \in Request
  /\ FetchTimeout \in Nat \ {0} /\ Interval \in Nat
  /\ FetchTimeout < Interval
  /\ MaxChanges \in Nat /\ MaxFailures \in Nat

VARIABLES
  leader,     \* its nodes, and how often what it answers has changed
  timer,      \* ticks until setInterval calls refresh
  refreshes,  \* calls of refresh that have not drawn yet
  page,       \* of each request: the answer on the page, a set of at most one
  failures

vars == <<leader, timer, refreshes, page, failures>>

Nothing == [r \in Request |-> {}]

--------------------------------------------------------------------------------
(* The leader *)

HandleRegister(n) ==
  /\ leader.rev < MaxChanges
  /\ n \notin leader.nodes
  /\ leader' = [leader EXCEPT !.nodes = @ \cup {n}, !.rev = @ + 1]
  /\ UNCHANGED <<timer, refreshes, page, failures>>

\* A submit changes the checks, statuses and percentages of the answers.
HandleSubmit ==
  /\ leader.rev < MaxChanges
  /\ leader' = [leader EXCEPT !.rev = @ + 1]
  /\ UNCHANGED <<timer, refreshes, page, failures>>

\* A new process knows no node, and the results that were on disk.
NewLeader ==
  /\ leader.rev < MaxChanges
  /\ leader' = [nodes |-> {}, rev |-> leader.rev + 1]
  /\ UNCHANGED <<timer, refreshes, page, failures>>

--------------------------------------------------------------------------------
(* The page *)

\* Mutant: after a failure nothing is asked any more.
RefreshUntilFailure ==
  /\ timer = 0
  /\ timer' = Interval
  /\ refreshes' = IF failures > 0 THEN refreshes
                  ELSE refreshes \cup {[age |-> 0, waiting |-> Request, got |-> Nothing]}
  /\ UNCHANGED <<leader, page, failures>>

\* refresh sends its requests: when the page is loaded, then from setInterval.
Refresh ==
  /\ timer = 0
  /\ timer' = Interval
  /\ refreshes' = refreshes \cup {[age |-> 0, waiting |-> Request, got |-> Nothing]}
  /\ UNCHANGED <<leader, page, failures>>

\* HandleData and HandleNodeList; the answer is on its way from here on.
Answer(f, r) ==
  /\ r \in f.waiting
  /\ refreshes' = (refreshes \ {f}) \cup
       {[f EXCEPT !.waiting = @ \ {r}, !.got[r] = {[nodes |-> leader.nodes, rev |-> leader.rev, age |-> 0]}]}
  /\ UNCHANGED <<leader, timer, page, failures>>

\* fetchWithTimeout returns null: an error, an HTTP status, or abort after
\* FETCH_TIMEOUT, also while the answer is being read.
FetchNull(f, r) ==
  /\ failures < MaxFailures
  /\ failures' = failures + 1
  /\ r \in f.waiting \/ f.got[r] /= {}
  /\ refreshes' = (refreshes \ {f}) \cup {[f EXCEPT !.waiting = @ \ {r}, !.got[r] = {}]}
  /\ UNCHANGED <<leader, timer, page>>

\* Mutant: each view is drawn when its answer is there.
RenderEach(f) ==
  /\ f.waiting /= Request
  /\ page' = [r \in Request |-> IF r \in f.waiting THEN page[r] ELSE f.got[r]]
  /\ refreshes' = IF f.waiting = {} THEN refreshes \ {f} ELSE refreshes
  /\ UNCHANGED <<leader, timer, failures>>

\* Promise.all is done, and refresh draws every view from its four answers.
Render(f) ==
  /\ f.waiting = {}
  /\ page' = f.got
  /\ refreshes' = refreshes \ {f}
  /\ UNCHANGED <<leader, timer, failures>>

Older(answers) == [r \in Request |-> {[a EXCEPT !.age = @ + 1] : a \in answers[r]}]

\* Mutant: the timeout ends when the headers are there.
TickOn ==
  /\ timer > 0
  /\ timer' = timer - 1
  /\ refreshes' = {[f EXCEPT !.age = @ + 1, !.got = Older(@)] : f \in refreshes}
  /\ page' = Older(page)
  /\ UNCHANGED <<leader, failures>>

\* Timers are served when they are due: no request is open after FetchTimeout.
Tick ==
  /\ timer > 0
  /\ \A f \in refreshes : f.age < FetchTimeout
  /\ timer' = timer - 1
  /\ refreshes' = {[f EXCEPT !.age = @ + 1, !.got = Older(@)] : f \in refreshes}
  /\ page' = Older(page)
  /\ UNCHANGED <<leader, failures>>

\* The rows and columns of the matrix; without any, "No nodes registered".
NodesShown == UNION {list.nodes : list \in page["nodes"]}

--------------------------------------------------------------------------------
Init ==
  /\ leader = [nodes |-> {}, rev |-> 0]
  /\ timer = 0
  /\ refreshes = {}
  /\ page = Nothing
  /\ failures = 0

Leader == (\E n \in Node : HandleRegister(n)) \/ HandleSubmit \/ NewLeader

Next ==
  \/ Leader
  \/ Refresh
  \/ \E f \in refreshes : \/ \E r \in Request : Answer(f, r) \/ FetchNull(f, r)
                          \/ Render(f)
  \/ Tick

Spec == Init /\ [][Next]_vars

\* The browser serves its timers and promises, the leader its requests.
Fairness ==
  /\ WF_vars(Refresh)
  /\ WF_vars(Tick)
  /\ WF_vars(\E f \in refreshes : Render(f))
  /\ WF_vars(\E f \in refreshes : \E r \in Request : Answer(f, r))

FairSpec == Spec /\ Fairness

--------------------------------------------------------------------------------
(* Properties *)

Snapshot(MaxAge) ==
  [nodes : SUBSET Node, rev : 0..MaxChanges, age : 0..MaxAge]

Answers(S, MaxAge) == \A r \in Request : S[r] = {} \/ \E a \in Snapshot(MaxAge) : S[r] = {a}

\* Every variable stays in its range, and only one refresh is under way.
TypeOK ==
  /\ leader.nodes \subseteq Node /\ leader.rev \in 0..MaxChanges
  /\ timer \in 0..Interval
  /\ \A f \in refreshes : /\ f.age + timer = Interval
                          /\ f.age <= FetchTimeout
                          /\ f.waiting \subseteq Request
                          /\ Answers(f.got, f.age)
  /\ \A f \in refreshes : \A g \in refreshes : f = g
  /\ failures \in 0..MaxFailures

\* The views are drawn over each other's answers: statuses on the rows of the node
\* list, uptime on the cards.  However long requests take and whichever fail, all
\* that is on the page was answered within one time-out (Promise.all in refresh);
\* no view is left from an earlier refresh.
ShownTogether ==
  \A r, q \in Request : \A a \in page[r] : \A b \in page[q] : a.age <= b.age + FetchTimeout

\* A refresh never puts back what a later one has replaced: no answer drawn is
\* older, in any view, than one that is on the page.
ShownNeverBack ==
  [][page' /= Older(page) =>
       \A r, q \in Request : \A new \in page'[r] : \A old \in page[q] : new.rev >= old.rev]_page

\* The inductive invariant.

Given == [nodes : SUBSET Node, rev : 0..MaxChanges, age : Nat]
Views == [Request -> SUBSET Given]
Opened == [age : 0..FetchTimeout, waiting : SUBSET Request, got : Views]

StateTypes ==
  /\ leader \in [nodes : SUBSET Node, rev : 0..MaxChanges]
  /\ timer \in 0..Interval
  /\ refreshes \subseteq Opened
  /\ page \in Views
  /\ failures \in 0..MaxFailures

\* One refresh at most, as old as the timer says, with answers as old at most.
RefreshOK ==
  /\ \A f, g \in refreshes : f = g
  /\ \A f \in refreshes :
       /\ f.age + timer = Interval
       /\ \A r \in Request : \A a \in f.got[r] : a.age <= f.age
       /\ \A r \in Request : \A a, b \in f.got[r] : a = b

\* From the page to the answers under way to the leader, revisions only grow.
RevisionsOK ==
  /\ \A r \in Request : \A a \in page[r] : a.rev <= leader.rev
  /\ \A f \in refreshes : \A r \in Request : \A a \in f.got[r] :
       /\ a.rev <= leader.rev
       /\ \A q \in Request : \A old \in page[q] : old.rev <= a.rev

DashboardInv == StateTypes /\ RefreshOK /\ ShownTogether /\ RevisionsOK

\* Requests that fail and leaders that restart are forgotten: in the end all
\* views show what the leader knows.
PageCatchesUp == <>[](\A r \in Request : \E a \in page[r] : a.rev = leader.rev)

================================================================================
