--------------------------------- MODULE Outbox ---------------------------------
(***************************************************************************)
(* What a node promises about the checks it has measured, without buffers, *)
(* requests or time-outs: it holds them in the order of measurement, lets  *)
(* go of them only once the leader has received them all, and sheds some   *)
(* only when it holds more than its buffer may.                            *)
(***************************************************************************)
EXTENDS Integers, SequencesExt

CONSTANTS MaxCheck,  \* bound: checks are numbered 1 to MaxCheck
          MaxSize    \* the largest buffer size

VARIABLES
  made,      \* checks measured so far
  held,      \* the checks the node holds, oldest first
  received,  \* the checks the leader has received, at least once
  size       \* the buffer size

vars == <<made, held, received, size>>

IsSubsequence(s, t) ==
  /\ ToSet(s) \subseteq ToSet(t)
  /\ \A i, j \in 1..Len(s) : i < j => s[i] < s[j]

Init == /\ made = 0
        /\ held = <<>>
        /\ received = {}
        /\ size \in 1..MaxSize

\* A check cycle appends newer checks.
Measure ==
  \E n \in 1 .. MaxCheck - made :
    /\ made' = made + n
    /\ held' = held \o [i \in 1..n |-> made + i]
    /\ UNCHANGED <<received, size>>

\* The leader receives some of the checks, now or from a late request.
Receive ==
  /\ received \subseteq received'
  /\ received' \subseteq 1..made
  /\ UNCHANGED <<made, held, size>>

\* The node lets go of everything, all of it received.
Release ==
  /\ ToSet(held) \subseteq received
  /\ held' = <<>>
  /\ UNCHANGED <<made, received, size>>

\* An overfull node sheds down to its buffer size, or keeps what was buffered
\* when the size shrank.
Shed ==
  /\ Len(held) > size
  /\ IsSubsequence(held', held)
  /\ Len(held') >= size
  /\ UNCHANGED <<made, received, size>>

Resize == /\ size' \in 1..MaxSize
          /\ UNCHANGED <<made, held, received>>

Next == Measure \/ Receive \/ Release \/ Shed \/ Resize

Spec == Init /\ [][Next]_vars

================================================================================
