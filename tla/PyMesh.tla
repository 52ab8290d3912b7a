--------------------------------- MODULE PyMesh ----------------------------------
(***************************************************************************)
(* The Python node and the Python leader's store, the predecessors of the  *)
(* Go programs (node.py, mesh_status/leader.py,                            *)
(* mesh_status/persistence.py): one node with its deque of cycles, and a   *)
(* leader that flushes everything it holds and may be killed.              *)
(*                                                                         *)
(* A coroutine runs on its own from one await to the next, and neither     *)
(* store nor files are touched across one, so each handler is a step.  The *)
(* store is kept as sets: copies of a check are not counted, and all are   *)
(* of one pair.  The node is registered as the model begins; the peers of  *)
(* its mesh are the node itself.                                           *)
(***************************************************************************)
EXTENDS Integers, SequencesExt

CONSTANTS
  BufferSize,     \* config.BUFFER_SIZE at the start of the node, in cycles
  Window,         \* 90 hours
  Retention,      \* 90 days
  DayLength,      \* one day file
  FlushInterval,  \* the sleep of flush_loop
  Boot,           \* the time at which the model begins
  MaxCheck,       \* bound: checks are numbered in order of measurement
  MaxTime,        \* bound: the clock stops here
  MaxStarts       \* bound: leaders started

ASSUME PyAssumption ==
  /\ {BufferSize, DayLength, FlushInterval, Boot, MaxStarts} \subseteq Nat \ {0}
  /\ {Window, Retention, MaxCheck, MaxTime} \subseteq Nat
  /\ Window <= Retention /\ Boot <= MaxTime

VARIABLES
  now,
  \* the node: where run() is, its peers, the deque, the cycle at hand, its stamps
  WithURL, at, peers, result_buffer, results, stamp,
  \* the leader: a process runs, it knows the node, its store, flush_loop
  up, registered, raw, day_aggregates, loop, timer, files,
  starts

\* History variables: the last BufferSize cycles, the checks answered 202, those
\* of them that no flush has written, and those lost with their process.
VARIABLES recent, acked, fresh, lost

node == <<WithURL, at, peers, result_buffer, results, stamp, recent>>
store == <<raw, day_aggregates, files>>
leader == <<up, registered, store, loop, timer, starts, fresh, lost>>
vars == <<now, node, leader, acked>>

Check == 1..MaxCheck
Measured == {c \in Check : stamp[c] /= 0}
Day(t) == t \div DayLength
Checks(cycles) == UNION {ToSet(cycles[i]) : i \in DOMAIN cycles}

--------------------------------------------------------------------------------
(* The node: run() *)

\* Mutants: a deque without maxlen; a full buffer does not take the cycle.
PushedAll(buffer, cycle) == Append(buffer, cycle)
PushedFull(buffer, cycle) == IF Len(buffer) < BufferSize THEN Append(buffer, cycle) ELSE buffer

\* deque(maxlen): the oldest cycle is pushed out.
Pushed(buffer, cycle) ==
  LET all == Append(buffer, cycle)
  IN  IF Len(all) > BufferSize THEN Tail(all) ELSE all

\* The node list is there, or an HTTP status that leaves the peers; a GET that
\* raises ends the iteration before anything is checked.
FetchPeers ==
  /\ at = "sleep"
  /\ \/ up /\ peers' = registered
     \/ peers' = peers
  /\ at' = "check"
  /\ UNCHANGED <<now, WithURL, result_buffer, results, stamp, recent, leader, acked>>

\* run_check_cycle; a check that raises leaves no result.
RunCheckCycle ==
  /\ at = "check"
  /\ \/ LET c == Cardinality(Measured) + 1
        IN  /\ peers /\ c <= MaxCheck
            /\ results' = <<c>>
            /\ stamp' = [stamp EXCEPT ![c] = now]
     \/ results' = <<>> /\ stamp' = stamp
  /\ recent' = LET all == Append(recent, results')
               IN  IF Len(all) > BufferSize THEN Tail(all) ELSE all
  /\ at' = "submit"
  /\ UNCHANGED <<now, WithURL, peers, result_buffer, leader, acked>>

combined == Checks(result_buffer) \cup ToSet(results)

\* submit_results of the leader: an unknown node with a URL is registered.
Accepted ==
  /\ up
  /\ combined /= {}
  /\ raw' = raw \cup combined
  /\ acked' = acked \cup combined
  /\ fresh' = fresh \cup (combined \ acked)
  /\ registered' = (registered \/ WithURL)
  /\ UNCHANGED <<up, day_aggregates, files, loop, timer, starts, lost>>

Submit ==
  /\ at = "submit"
  /\ Accepted
  /\ result_buffer' = <<>>
  /\ results' = <<>>
  /\ at' = "sleep"
  /\ UNCHANGED <<now, WithURL, peers, stamp, recent>>

\* No answer, a 400 for an empty payload, or an answer that is lost: the cycle is
\* buffered, an empty one too.
SubmitFailed ==
  /\ at = "submit"
  /\ Accepted \/ UNCHANGED <<leader, acked>>
  /\ result_buffer' = Pushed(result_buffer, results)
  /\ results' = <<>>
  /\ at' = "sleep"
  /\ UNCHANGED <<now, WithURL, peers, stamp, recent>>

\* handle_update_peers: the leader has told its nodes of a change.
UpdatePeers ==
  /\ up /\ registered
  /\ ~peers
  /\ peers' = TRUE
  /\ UNCHANGED <<now, WithURL, at, result_buffer, results, stamp, recent, leader, acked>>

--------------------------------------------------------------------------------
(* The leader: load_into_memory, flush_loop *)

Recent(c) == stamp[c] >= now - Window

\* Mutant: the file of today is not read.
ReadBeforeToday == {c \in files : Day(now - Retention) <= Day(stamp[c]) /\ Day(stamp[c]) < Day(now)}

\* _read_results from the day of the cutoff to today.
_read_results == {c \in files : Day(now - Retention) <= Day(stamp[c]) /\ Day(stamp[c]) <= Day(now)}

\* _move_old_to_aggregates of the checks in memory.
Move(all) ==
  /\ raw' = {c \in all : Recent(c)}
  /\ day_aggregates' = day_aggregates \cup {c \in all : ~Recent(c)}

NewLeader ==
  /\ ~up
  /\ starts < MaxStarts
  /\ starts' = starts + 1
  /\ up' = TRUE
  /\ Move(_read_results)
  /\ loop' = TRUE
  /\ timer' = now + FlushInterval
  /\ UNCHANGED <<now, node, registered, files, fresh, lost, acked>>

FlushDue == up /\ loop /\ now >= timer

\* Everything in memory is written, whether or not it was before.
Flush ==
  /\ FlushDue
  /\ files' = files \cup raw
  /\ Move(raw)
  /\ fresh' = {}
  /\ timer' = now + FlushInterval
  /\ UNCHANGED <<now, node, up, registered, loop, starts, lost, acked>>

\* A write raises after the lines W; nobody awaits the task, and it ends.
FlushRaises(W) ==
  /\ FlushDue
  /\ raw /= {}
  /\ files' = files \cup W
  /\ fresh' = fresh \ W
  /\ loop' = FALSE
  /\ UNCHANGED <<now, node, up, registered, raw, day_aggregates, timer, starts, lost, acked>>

\* The process ends, on SIGTERM too without a flush; the one under way has
\* written W.
Exit(W) ==
  /\ up
  /\ W = {} \/ FlushDue
  /\ up' = FALSE
  /\ registered' = FALSE
  /\ raw' = {} /\ day_aggregates' = {}
  /\ files' = files \cup W
  /\ fresh' = {}
  /\ lost' = lost \cup (fresh \ W)
  /\ loop' = FALSE
  /\ UNCHANGED <<now, node, timer, starts, acked>>

Tick ==
  /\ now < MaxTime
  /\ ~FlushDue
  /\ now' = now + 1
  /\ UNCHANGED <<node, leader, acked>>

--------------------------------------------------------------------------------
Init ==
  /\ now = Boot
  /\ WithURL \in BOOLEAN
  /\ at = "sleep"
  /\ peers = TRUE
  /\ result_buffer = <<>> /\ results = <<>> /\ recent = <<>>
  /\ stamp = [c \in Check |-> 0]
  /\ up = TRUE /\ registered = TRUE
  /\ raw = {} /\ day_aggregates = {} /\ files = {}
  /\ loop = TRUE
  /\ timer = Boot + FlushInterval
  /\ starts = 1
  /\ acked = {} /\ fresh = {} /\ lost = {}

Next ==
  \/ FetchPeers \/ RunCheckCycle \/ Submit \/ SubmitFailed \/ UpdatePeers
  \/ NewLeader \/ Flush
  \/ \E W \in SUBSET raw : FlushRaises(W) \/ Exit(W)
  \/ Tick

Spec == Init /\ [][Next]_vars

--------------------------------------------------------------------------------
(* Properties *)

TypeOK ==
  /\ now \in Boot..MaxTime /\ starts \in 1..MaxStarts
  /\ {WithURL, peers, up, registered, loop} \subseteq BOOLEAN
  /\ at \in {"sleep", "check", "submit"}
  /\ Len(result_buffer) <= BufferSize /\ Len(recent) <= BufferSize
  /\ combined \subseteq Measured
  /\ stamp \in [Check -> {0} \cup Boot..now]
  /\ raw \cup day_aggregates \cup files \subseteq acked
  /\ acked \subseteq Measured /\ fresh \cup lost \subseteq acked
  /\ loop => up /\ timer \in now..MaxTime + FlushInterval

\* The last BufferSize cycles are safe: over outages, lost answers and empty
\* cycles, each of their checks is in the node's hands or was accepted.
NewestKept == Checks(recent) \subseteq combined \cup acked

\* The 90-day answer for a day: its aggregates, or else what is raw; raw checks
\* of a day that has aggregates are left out.
DayShown(d) ==
  LET aggregated == {c \in day_aggregates : Day(stamp[c]) = d}
  IN  IF d * DayLength < now - Retention THEN {}
      ELSE IF aggregated /= {} THEN aggregated
      ELSE {c \in raw : Day(stamp[c]) = d}

\* No day is missing: whichever process is asked, and after flushes that fail in
\* the middle and processes that die in one, the 90-day answer has an entry for
\* each whole day of which a check was accepted and not lost with its process.
DaysShown ==
  up => \A c \in acked \ lost :
          Day(stamp[c]) * DayLength >= now - Retention => DayShown(Day(stamp[c])) /= {}

\* The inductive invariant.

\* The cycles in the node's hands: the deque, and the one that is submitted.
Pending == IF at = "submit" THEN Append(result_buffer, results) ELSE result_buffer

SequencesOK ==
  /\ {result_buffer, recent} \subseteq Seq(Seq(Check))
  /\ results \in Seq(Check)
  /\ at /= "submit" => results = <<>>

\* Counted from their ends, the last cycles and those in the node's hands are the
\* same, and what was pushed out of no deque but let go was accepted.
RecentOK ==
  \A i \in 1..Len(recent) :
    LET j == i + Len(Pending) - Len(recent)
    IN  IF j >= 1 THEN recent[i] = Pending[j] ELSE ToSet(recent[i]) \subseteq acked

\* Checks are numbered as they are measured.
NumberedInOrder == \E k \in 0..MaxCheck : Measured = 1..k

\* What is not lost is in memory or in a file, in a file before its process ends;
\* and a process that runs has all of the days it may be asked about.
LeaderOK ==
  /\ fresh \subseteq raw
  /\ acked \ lost \subseteq fresh \cup files
  /\ ~up => raw = {}
  /\ up => \A c \in acked \ lost :
             Day(stamp[c]) * DayLength >= now - Retention => c \in raw \cup day_aggregates

PyInv == TypeOK /\ SequencesOK /\ RecentOK /\ NumberedInOrder /\ LeaderOK

================================================================================
