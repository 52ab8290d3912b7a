------------------------------- MODULE NodeSubmit -------------------------------
(***************************************************************************)
(* How a Go node hands its check results to the leader: SubmitResults and  *)
(* bufferResults of internal/node/node.go, the loop of cmd/node/main.go    *)
(* that calls them, the push listener that changes BufferSize meanwhile,   *)
(* and the answers of the leader's HandleSubmit.                           *)
(*                                                                         *)
(* Checks are numbered in the order in which they are measured.  The       *)
(* critical sections under Node.mu are one action each; the POST lies      *)
(* between them, and the request may outlive the node's patience with it.  *)
(***************************************************************************)
EXTENDS Integers, SequencesExt

CONSTANTS
  MaxCheck,  \* bound: the checks measured
  MaxCycle,  \* bound: the checks of one cycle
  MaxSize,   \* the largest buffer_size the leader pushes
  MaxLate    \* bound: the abandoned requests under way

ASSUME NodeAssumption ==
  /\ {MaxCheck, MaxCycle, MaxLate} \subseteq Nat
  /\ MaxSize \in Nat \ {0}

VARIABLES
  pc,            \* where the main loop is
  measured,      \* checks measured so far
  checks,        \* the results RunCheckCycle returned, then the payload
  resultBuffer,  \* Node.resultBuffer
  BufferSize,    \* Node.BufferSize
  request,       \* the POST: "none", "sent", or answered "ok" or "bad"
  late,          \* payloads of requests the node has given up
  received       \* the checks the leader has accepted, once or more often

\* History variables.
VARIABLES
  confirmed,  \* checks measured when the last 2xx answer arrived
  leastSize,  \* the smallest BufferSize since then
  mostSize,   \* the largest BufferSize ever
  shed        \* checks dropped for lack of space

node == <<pc, measured, checks, resultBuffer>>
history == <<confirmed, leastSize, mostSize, shed>>
vars == <<node, BufferSize, request, late, received, history>>

Numbers == 1..MaxCheck
Minimum(a, b) == IF a < b THEN a ELSE b
Maximum(a, b) == IF a > b THEN a ELSE b

\* All the node holds, oldest first.
Held == resultBuffer \o checks

--------------------------------------------------------------------------------
(* The two critical sections of a submit *)

\* Mutant: one place of the buffer is left unused.
PayloadTight ==
  IF resultBuffer = <<>>
    THEN checks
    ELSE LET space == BufferSize - Len(resultBuffer) - 1
         IN IF space > 0
              THEN resultBuffer \o SubSeq(checks, 1, Minimum(space, Len(checks)))
              ELSE resultBuffer

\* What SubmitResults sends: the buffer first, and as many new checks as fit.
Payload ==
  IF resultBuffer = <<>>
    THEN checks
    ELSE LET space == BufferSize - Len(resultBuffer)
         IN IF space > 0
              THEN resultBuffer \o SubSeq(checks, 1, Minimum(space, Len(checks)))
              ELSE resultBuffer

\* Mutants: no trimming; trimming to one less.
NewestAll(s) == s
NewestShort(s) == SubSeq(s, Maximum(1, Len(s) - BufferSize + 2), Len(s))

\* What bufferResults keeps: the newest BufferSize.
Newest(s) == SubSeq(s, Maximum(1, Len(s) - BufferSize + 1), Len(s))

Drop(before, after) == shed' = shed \cup (ToSet(before) \ ToSet(after))

--------------------------------------------------------------------------------
(* The main loop *)

\* RunCheckCycle returns the results of n targets, none if there are no peers.
CheckCycle(n) ==
  /\ pc = "cycle"
  /\ measured + n <= MaxCheck
  /\ measured' = measured + n
  /\ checks' = [i \in 1..n |-> measured + i]
  /\ pc' = "submit"
  /\ UNCHANGED <<resultBuffer, BufferSize, request, late, received, history>>

\* Mutants: the buffer is not emptied; the buffer is not sent.
PostKeeping ==
  /\ pc = "submit"
  /\ checks' = Payload
  /\ request' = "sent"
  /\ pc' = "posting"
  /\ UNCHANGED <<measured, resultBuffer, BufferSize, late, received, history>>
PostFresh ==
  /\ pc = "submit"
  /\ request' = "sent"
  /\ pc' = "posting"
  /\ UNCHANGED <<measured, checks, resultBuffer, BufferSize, late, received, history>>

\* SubmitResults up to the POST: merge under the lock, then send (encoding a
\* payload of results cannot fail).
Post ==
  /\ pc = "submit"
  /\ checks' = Payload
  /\ resultBuffer' = <<>>
  /\ Drop(Held, Payload)
  /\ request' = "sent"
  /\ pc' = "posting"
  /\ UNCHANGED <<measured, BufferSize, late, received, confirmed, leastSize, mostSize>>

\* A 2xx answer: nothing is buffered.
Submitted ==
  /\ request = "ok"
  /\ request' = "none"
  /\ checks' = <<>>
  /\ pc' = "cycle"
  /\ confirmed' = measured
  /\ leastSize' = BufferSize
  /\ UNCHANGED <<measured, resultBuffer, BufferSize, late, received, mostSize, shed>>

\* Any other answer.
Refused ==
  /\ request = "bad"
  /\ request' = "none"
  /\ pc' = "failed"
  /\ UNCHANGED <<measured, checks, resultBuffer, BufferSize, late, received, history>>

\* Mutant: a time-out counts as delivered.
PostErrorDelivered ==
  /\ pc = "posting"
  /\ request' = "none"
  /\ checks' = <<>>
  /\ pc' = "cycle"
  /\ UNCHANGED <<measured, resultBuffer, BufferSize, late, received, history>>

\* The POST fails: no connection, a lost answer, or the 10 second time-out,
\* which may leave the request under way.
PostError ==
  /\ pc = "posting"
  /\ request' = "none"
  /\ pc' = "failed"
  /\ \/ late' = late
     \/ /\ request = "sent"
        /\ Len(late) < MaxLate
        /\ late' = Append(late, checks)
  /\ UNCHANGED <<measured, checks, resultBuffer, BufferSize, received, history>>

\* bufferResults puts the payload back.
BufferResults ==
  /\ pc = "failed"
  /\ LET all == resultBuffer \o checks
         kept == IF BufferSize <= 0 THEN resultBuffer ELSE Newest(all)
     IN /\ resultBuffer' = kept
        /\ Drop(all, kept)
  /\ checks' = <<>>
  /\ pc' = "cycle"
  /\ UNCHANGED <<measured, BufferSize, request, late, received, confirmed, leastSize, mostSize>>

--------------------------------------------------------------------------------
(* The listener and the leader *)

\* Mutant: sizes below 1 are taken.
UpdateConfigAny(b) ==
  /\ BufferSize' = b
  /\ leastSize' = Minimum(leastSize, b)
  /\ mostSize' = Maximum(mostSize, b)
  /\ UNCHANGED <<node, request, late, received, confirmed, shed>>

\* UpdateConfig on a push; sizes below 1 are ignored.
UpdateConfig(b) ==
  /\ b > 0
  /\ BufferSize' = b
  /\ leastSize' = Minimum(leastSize, b)
  /\ mostSize' = Maximum(mostSize, b)
  /\ UNCHANGED <<node, request, late, received, confirmed, shed>>

\* HandleSubmit: Results.Add, or 400 without checks.
Accept(payload) ==
  received' = received \cup ToSet(payload)

HandleSubmit ==
  /\ request = "sent"
  /\ Accept(checks)
  /\ request' = IF checks = <<>> THEN "bad" ELSE "ok"
  /\ UNCHANGED <<node, BufferSize, late, history>>

\* A request the node has given up reaches the leader after all, or never.
HandleLate(i) ==
  /\ Accept(late[i]) \/ received' = received
  /\ late' = RemoveAt(late, i)
  /\ UNCHANGED <<node, BufferSize, request, history>>

--------------------------------------------------------------------------------
Init ==
  /\ pc = "cycle"
  /\ measured = 0
  /\ checks = <<>>
  /\ resultBuffer = <<>>
  /\ BufferSize \in 1..MaxSize
  /\ request = "none"
  /\ late = <<>>
  /\ received = {}
  /\ confirmed = 0
  /\ leastSize = BufferSize
  /\ mostSize = BufferSize
  /\ shed = {}

Next ==
  \/ \E n \in 0..MaxCycle : CheckCycle(n)
  \/ Post
  \/ Submitted
  \/ Refused
  \/ PostError
  \/ BufferResults
  \/ \E b \in 0..MaxSize : UpdateConfig(b)
  \/ HandleSubmit
  \/ \E i \in DOMAIN late : HandleLate(i)

Spec == Init /\ [][Next]_vars

\* The loop never blocks for good (the client's time-out bounds the POST), and
\* a leader that a POST keeps being sent to handles one in the end.
Fairness ==
  /\ WF_vars(\E n \in 0..MaxCycle : CheckCycle(n))
  /\ WF_vars(Post)
  /\ WF_vars(Submitted \/ Refused \/ PostError)
  /\ WF_vars(BufferResults)
  /\ SF_vars(HandleSubmit)

FairSpec == Spec /\ Fairness

--------------------------------------------------------------------------------
(* Properties *)

TypeOK ==
  /\ pc \in {"cycle", "submit", "posting", "failed"}
  /\ measured \in 0..MaxCheck
  /\ checks \in Seq(Numbers)
  /\ resultBuffer \in Seq(Numbers)
  /\ BufferSize \in 1..MaxSize
  /\ request \in {"none", "sent", "ok", "bad"}
  /\ late \in Seq(Seq(Numbers))
  /\ received \subseteq Numbers
  /\ confirmed \in 0..measured
  /\ leastSize \in 1..MaxSize
  /\ mostSize \in 1..MaxSize
  /\ shed \subseteq Numbers

\* Merging, re-buffering and trimming keep the checks in the order of
\* measurement and never double one, whatever fails in between.
HeldInOrder ==
  \A i, j \in 1..Len(Held) : i < j => Held[i] < Held[j]

\* An outage during which no more checks are measured than the smallest buffer
\* size of that time loses none of them: since the last 2xx answer the node
\* holds every check it has measured.
ShortOutageLosesNothing ==
  measured - confirmed <= leastSize
    => \A c \in confirmed + 1 .. measured : c \in ToSet(Held)

\* A check the node no longer holds was accepted by the leader or did not fit:
\* a time-out, an error answer or a lost answer never drops one.
ForgottenIsDelivered ==
  \A c \in 1..measured : c \in ToSet(Held) \/ c \in received \/ c \in shed

\* Whatever is pushed while a POST is under way, the buffer between two cycles
\* never holds more than some configured size.
BufferBounded ==
  pc = "cycle" => Len(resultBuffer) <= mostSize

\* Every check that fits reaches the leader, if the leader keeps being there.
EventuallyDelivered ==
  \A c \in Numbers : (c <= measured) ~> (c \in received \/ c \in shed)

\* The inductive invariant.

\* A critical section has always moved everything to one place: nothing is left
\* in the buffer while a payload is posted, and none of the checks of a cycle
\* is left over for the next one.
PhaseOK ==
  /\ pc = "cycle" => checks = <<>>
  /\ pc \in {"posting", "failed"} => resultBuffer = <<>>
  /\ request /= "none" => pc = "posting"
  /\ request = "ok" => ToSet(checks) \subseteq received

\* The i-th check held was measured after the last 2xx answer and i - 1 others.
HeldIsRecent ==
  \A i \in 1..Len(Held) : Held[i] \in confirmed + i .. measured

\* The leader is sent nothing but measured checks, and late ones stay so.
SentIsMeasured ==
  /\ received \subseteq 1..measured
  /\ \A payload \in ToSet(late) : ToSet(payload) \subseteq 1..measured

SizesOK ==
  /\ leastSize <= BufferSize
  /\ BufferSize <= mostSize
  /\ Len(resultBuffer) <= mostSize

SubmitInv ==
  /\ TypeOK
  /\ PhaseOK
  /\ SizesOK
  /\ HeldInOrder
  /\ HeldIsRecent
  /\ SentIsMeasured
  /\ ForgottenIsDelivered
  /\ ShortOutageLosesNothing

\* The node keeps the promise of Outbox.
Promise == INSTANCE Outbox
  WITH made <- measured, held <- Held, received <- received, size <- BufferSize

ImplementsOutbox == Promise!Spec

================================================================================
