------------------------------- MODULE CheckCycle -------------------------------
(***************************************************************************)
(* RunCheckCycle of internal/node/node.go: the main goroutine copies the   *)
(* targets, starts one goroutine per target and a closer, and ranges over  *)
(* the result channel; a semaphore bounds the checks that run at a time.   *)
(* A worker passes, in the order its code and its defers run, through      *)
(*   "ready"    -> sem <- struct{}{} -> "checking" -> ch <- result ->      *)
(*   "sent"     -> <-sem             -> "released" -> wg.Done() -> "done". *)
(***************************************************************************)
EXTENDS Integers, Sequences, FiniteSets

CONSTANTS
  Target,     \* addresses
  MaxPeers,   \* bound: the peers of a list
  MaxExtras,  \* bound: the extra targets
  Limit       \* capacity of the semaphore

ASSUME CycleAssumption ==
  /\ {MaxPeers, MaxExtras} \subseteq Nat
  /\ Limit \in Nat \ {0}

VARIABLES
  Peers,         \* Node.Peers, replaced by pushes at any time
  ExtraTargets,  \* Node.ExtraTargets, set before the first cycle
  main,          \* where the main goroutine is
  peers,         \* its copy of Peers
  spawned,       \* workers started
  worker,        \* of each worker, by index: where it is
  sem,           \* tokens in the semaphore
  wg,            \* counter of the WaitGroup
  closing,       \* the goroutine that closes ch runs
  ch,            \* the result channel, buffered for all results
  closed,        \* ch is closed
  results        \* the results by index

node == <<Peers, ExtraTargets>>
pool == <<sem, wg, ch>>
closer == <<closing, closed>>
vars == <<node, main, peers, spawned, worker, pool, closer, results>>

Lists(n) == UNION {[1..k -> Target] : k \in 0..n}
Index == 1 .. MaxPeers + MaxExtras

total == Len(peers) + Len(ExtraTargets)

\* The check of index i: an address, and whether it is an extra target.
CheckOf(i) == IF i <= Len(peers)
                THEN [to |-> peers[i], extra |-> FALSE]
                ELSE [to |-> ExtraTargets[i - Len(peers)], extra |-> TRUE]
\* The zero value of CheckResult.
NoResult == [to |-> "", extra |-> FALSE]

In(stages) == {i \in Index : worker[i] \in stages}

--------------------------------------------------------------------------------
(* The push listener and the main goroutine *)

UpdatePeers(list) ==
  /\ Peers' = list
  /\ UNCHANGED <<ExtraTargets, main, peers, spawned, worker, pool, closer, results>>

\* Copy the targets, make the channels and the result slice.
StartCycle ==
  /\ main = "idle"
  /\ UNCHANGED node
  /\ peers' = Peers
  /\ spawned' = 0
  /\ worker' = [i \in Index |-> "none"]
  /\ sem' = 0 /\ wg' = 0
  /\ ch' = <<>> /\ closed' = FALSE /\ closing' = FALSE
  /\ results' = [i \in 1..total' |-> NoResult]
  /\ main' = IF total' = 0 THEN "returned" ELSE "spawn"

\* wg.Add(1), and a goroutine for the next target.
Spawn ==
  /\ main = "spawn"
  /\ spawned < total
  /\ spawned' = spawned + 1
  /\ wg' = wg + 1
  /\ worker' = [worker EXCEPT ![spawned'] = "ready"]
  /\ UNCHANGED <<node, main, peers, sem, ch, closer, results>>

SpawnCloser ==
  /\ main = "spawn"
  /\ spawned = total
  /\ closing' = TRUE
  /\ main' = "collect"
  /\ UNCHANGED <<node, peers, spawned, worker, pool, closed, results>>

\* One turn of the range over ch.
Collect ==
  /\ main = "collect"
  /\ ch /= <<>>
  /\ results' = [results EXCEPT ![Head(ch).idx] = Head(ch).r]
  /\ ch' = Tail(ch)
  /\ UNCHANGED <<node, main, peers, spawned, worker, sem, wg, closer>>

\* Mutant: the range ends when every result is there.
ReturnWhenFull ==
  /\ main = "collect"
  /\ \A i \in 1..total : results[i] /= NoResult
  /\ main' = "returned"
  /\ UNCHANGED <<node, peers, spawned, worker, pool, closer, results>>

\* The range ends when ch is closed and drained.
Return ==
  /\ main = "collect"
  /\ ch = <<>> /\ closed
  /\ main' = "returned"
  /\ UNCHANGED <<node, peers, spawned, worker, pool, closer, results>>

\* The results are submitted, and another cycle comes.
NextCycle ==
  /\ main = "returned"
  /\ main' = "idle"
  /\ UNCHANGED <<node, peers, spawned, worker, pool, closer, results>>

--------------------------------------------------------------------------------
(* The workers and the closer *)

\* Mutant: no semaphore.
AcquireAlways(i) ==
  /\ worker[i] = "ready"
  /\ sem' = sem + 1
  /\ worker' = [worker EXCEPT ![i] = "checking"]
  /\ UNCHANGED <<node, main, peers, spawned, wg, ch, closer, results>>

Acquire(i) ==
  /\ worker[i] = "ready"
  /\ sem < Limit
  /\ sem' = sem + 1
  /\ worker' = [worker EXCEPT ![i] = "checking"]
  /\ UNCHANGED <<node, main, peers, spawned, wg, ch, closer, results>>

\* Mutant: an extra target has its position among the extra targets for index.
SendUnshifted(i) ==
  /\ worker[i] = "checking"
  /\ Len(ch) < total
  /\ ch' = Append(ch, [idx |-> IF i <= Len(peers) THEN i ELSE i - Len(peers), r |-> CheckOf(i)])
  /\ worker' = [worker EXCEPT ![i] = "sent"]
  /\ UNCHANGED <<node, main, peers, spawned, sem, wg, closer, results>>

\* Ping and HTTP check end by their time-outs; the result goes to ch.
Send(i) ==
  /\ worker[i] = "checking"
  /\ Len(ch) < total
  /\ ch' = Append(ch, [idx |-> i, r |-> CheckOf(i)])
  /\ worker' = [worker EXCEPT ![i] = "sent"]
  /\ UNCHANGED <<node, main, peers, spawned, sem, wg, closer, results>>

\* Mutant: the token is not given back.
ReleaseNothing(i) ==
  /\ worker[i] = "sent"
  /\ worker' = [worker EXCEPT ![i] = "released"]
  /\ UNCHANGED <<node, main, peers, spawned, pool, closer, results>>

Release(i) ==
  /\ worker[i] = "sent"
  /\ sem' = sem - 1
  /\ worker' = [worker EXCEPT ![i] = "released"]
  /\ UNCHANGED <<node, main, peers, spawned, wg, ch, closer, results>>

Done(i) ==
  /\ worker[i] = "released"
  /\ wg' = wg - 1
  /\ worker' = [worker EXCEPT ![i] = "done"]
  /\ UNCHANGED <<node, main, peers, spawned, sem, ch, closer, results>>

\* Mutant: ch is closed without waiting.
CloseNow ==
  /\ closing
  /\ ~closed
  /\ closed' = TRUE
  /\ UNCHANGED <<node, main, peers, spawned, worker, pool, closing, results>>

\* wg.Wait(), close(ch).
Close ==
  /\ closing
  /\ wg = 0
  /\ ~closed
  /\ closed' = TRUE
  /\ UNCHANGED <<node, main, peers, spawned, worker, pool, closing, results>>

--------------------------------------------------------------------------------
Init ==
  /\ Peers = <<>>
  /\ ExtraTargets \in Lists(MaxExtras)
  /\ main = "idle"
  /\ peers = <<>>
  /\ spawned = 0
  /\ worker = [i \in Index |-> "none"]
  /\ sem = 0 /\ wg = 0
  /\ ch = <<>> /\ closed = FALSE /\ closing = FALSE
  /\ results = <<>>

Main == StartCycle \/ Spawn \/ SpawnCloser \/ Collect \/ Return \/ NextCycle

Worker(i) == Acquire(i) \/ Send(i) \/ Release(i) \/ Done(i)

Next ==
  \/ \E list \in Lists(MaxPeers) : UpdatePeers(list)
  \/ Main
  \/ Close
  \/ \E i \in Index : Worker(i)

Spec == Init /\ [][Next]_vars

\* Every goroutine goes on when it can; a check ends by its time-out.
Fairness == WF_vars(Main) /\ WF_vars(Close) /\ \A i \in Index : WF_vars(Worker(i))

FairSpec == Spec /\ Fairness

--------------------------------------------------------------------------------
(* Properties *)

Stage == {"none", "ready", "checking", "sent", "released", "done"}
Result == [to : Target \cup {""}, extra : BOOLEAN]

TypeOK ==
  /\ Peers \in Lists(MaxPeers) /\ peers \in Lists(MaxPeers)
  /\ ExtraTargets \in Lists(MaxExtras)
  /\ main \in {"idle", "spawn", "collect", "returned"}
  /\ spawned \in 0..total
  /\ worker \in [Index -> Stage]
  /\ sem \in 0..Limit /\ wg \in 0..total
  /\ ch \in Seq([idx : Index, r : Result])
  /\ closing \in BOOLEAN /\ closed \in BOOLEAN
  /\ results \in Seq(Result)

\* The cycle returns a result for each target it started with, in its place
\* and with its extra mark, in whatever order the checks end and whatever
\* peers are pushed meanwhile: no zero-valued result is ever submitted.
AllChecked ==
  main = "returned" => /\ Len(results) = total
                       /\ \A i \in 1..total : results[i] = CheckOf(i)

\* At most Limit checks run at a time.
PoolBounded == Cardinality(In({"checking", "sent"})) <= Limit

\* ch is closed only when no worker can still send on it (that would panic),
\* though the WaitGroup is counted down by the workers themselves.
NoSendAfterClose == closed => In({"ready", "checking"}) = {}

\* A cycle leaves no goroutine behind for the next one.
NoneLeftBehind ==
  main \in {"idle", "returned"} => \A i \in Index : worker[i] \in {"none", "done"}

\* The inductive strengthening of these invariants: WaitGroup and semaphore
\* count the workers, and a result that was sent is in the channel or in place.
Busy == In({"ready", "checking", "sent", "released"})
Holding == In({"checking", "sent"})

Counted == wg = Cardinality(Busy) /\ sem = Cardinality(Holding)

Started == \A i \in Index : worker[i] = "none" <=> i > spawned

Phases ==
  /\ closed => closing /\ wg = 0
  /\ closing => main /= "spawn" /\ spawned = total
  /\ main \in {"spawn", "collect"} => ~closing <=> main = "spawn"
  /\ main = "returned" => spawned = total
  /\ main \in {"idle", "returned"} => spawned = 0 \/ closed

Delivered ==
  main /= "idle" =>
    /\ Len(results) = total
    /\ \A k \in 1..Len(ch) : ch[k].idx \in 1..total /\ ch[k].r = CheckOf(ch[k].idx)
    /\ \A i \in 1..total : worker[i] \in {"sent", "released", "done"} =>
         results[i] = CheckOf(i) \/ \E k \in 1..Len(ch) : ch[k].idx = i

Drained == main \in {"idle", "returned"} => ch = <<>>

CycleInv == TypeOK /\ Counted /\ Started /\ Phases /\ Delivered /\ Drained

\* Every cycle ends: the semaphore, the channel and the WaitGroup never block
\* the goroutines on each other.
CycleEnds == main = "spawn" ~> main = "returned"

================================================================================
