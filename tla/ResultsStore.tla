------------------------------ MODULE ResultsStore ------------------------------
(***************************************************************************)
(* The Go leader's result store and its persistence                        *)
(* (internal/leader/results.go, internal/leader/persistence.go, and the    *)
(* start and stop paths of internal/leader/handlers.go).                   *)
(*                                                                         *)
(* A check is one measured CheckResult.  The maps of the code are kept as  *)
(* counts per check: how many copies the raw store holds, how many times   *)
(* the day aggregates have counted it, how many lines of the day files     *)
(* carry it.  ResultsStore.mu is held for the whole of Add, flushOnce and  *)
(* LoadIntoMemory, so each of them is one action.  Time is in whole        *)
(* seconds (time.Now().Unix()) scaled down to ticks.                       *)
(***************************************************************************)
EXTENDS Integers

CONSTANTS
  Check,          \* the checks the nodes measure
  Extra,          \* those measured against NODE_EXTRA_TARGETS (IsExtra)
  Window,         \* the 90 hours raw results are kept in memory
  PairWindow,     \* the 90 minutes that count for a pair status
  Retention,      \* the 90 days that are loaded and queried
  DayLength,      \* one day file
  FlushInterval,  \* the period of FlushLoop
  Skew,           \* how far a node's clock may run ahead of the leader's
  Boot,           \* the time at which the system is switched on
  MaxTime,        \* bound: the clock stops here
  MaxDeliveries,  \* bound: how often one check may be submitted
  MaxStarts       \* bound: how often the leader is started

ASSUME StoreAssumption ==
  /\ Extra \subseteq Check
  /\ {Window, PairWindow, Retention, Skew} \subseteq Nat
  /\ {MaxTime, MaxDeliveries, MaxStarts} \subseteq Nat
  /\ {DayLength, FlushInterval, Boot} \subseteq Nat \ {0}
  /\ FlushInterval <= Window
  /\ Window <= Retention

VARIABLES
  now,                 \* the leader's clock
  phase,               \* "down", "up", or "stopping": Stop has run, main not yet returned
  starts,              \* how many processes there have been
  timer,               \* when FlushLoop's timer fires next
  stamp,               \* CheckResult.Timestamp; 0 until the check is measured
  results,             \* ResultsStore.results: copies of a check, by their IsExtra flag
  dayAggregates,       \* ResultsStore.dayAggregates: times a check has been counted
  lastFlushTimestamp,  \* the process-wide variable of the same name
  disk                 \* lines of the day files: copies of a check, by their is_extra flag

\* History variables: what the properties compare the state with.
VARIABLES
  acked,    \* times a submit holding the check was answered 202, ever
  base,     \* copies this process loaded or accepted
  written,  \* lines this process wrote
  fresh,    \* accepted by this process, no flushOnce since
  overdue,  \* accepted too late for the next flush to pick up
  failed,   \* a flush of it met a write error
  lost      \* accepted, and its process ended before the next flush

store == <<results, dayAggregates, lastFlushTimestamp, disk>>
history == <<acked, base, written, fresh, overdue, failed, lost>>
vars == <<now, phase, starts, timer, stamp, store, history>>

Phase == {"down", "up", "stopping"}
\* CheckResult.IsExtra
Flag == {"plain", "extra"}
FlagOf(c) == IF c \in Extra THEN "extra" ELSE "plain"

Bag == [Check -> [Flag -> Nat]]
NoCopies == [x \in Flag |-> 0]
Empty == [c \in Check |-> NoCopies]
Zero == [c \in Check |-> 0]
Never == 0

Copies(bag, c) == bag[c]["plain"] + bag[c]["extra"]

Measured == {c \in Check : stamp[c] /= Never}

--------------------------------------------------------------------------------
(* Windows and files *)

Day(t) == t \div DayLength

\* Mutant: the cutoff of the pair status for that of the raw results.
RecentPair(c) == stamp[c] >= now - PairWindow

\* Timestamp >= cutoff90h
Recent(c) == stamp[c] >= now - Window

\* Mutant: the file of today is not opened.
OnFileBeforeToday(c) == /\ Day(now - Retention) <= Day(stamp[c])
                        /\ Day(stamp[c]) < Day(now)

\* The files ReadResults opens: one per day from the retention cutoff to today.
OnFile(c) == /\ Day(now - Retention) <= Day(stamp[c])
             /\ Day(stamp[c]) <= Day(now)

\* Mutants: the cutoff is exclusive; the time of the last flush is not looked at.
BatchOpen == {c \in Check : /\ Copies(results, c) > 0
                            /\ stamp[c] > lastFlushTimestamp
                            /\ stamp[c] > now - Window}
BatchEveryTime == {c \in Check : Copies(results, c) > 0 /\ Recent(c)}

\* What a flush writes: newer than the last flush and not yet aged out.
Batch == {c \in Check : /\ Copies(results, c) > 0
                        /\ stamp[c] > lastFlushTimestamp
                        /\ Recent(c)}

\* Mutant: one line per check, however many copies are held.
AppendOneLine(W) ==
  disk' = [c \in Check |-> IF c \in W
                             THEN [disk[c] EXCEPT ![FlagOf(c)] = @ + 1]
                             ELSE disk[c]]

\* Append one line per copy held in memory, keeping its flag.
AppendResults(W) ==
  disk' = [c \in Check |-> IF c \in W
                             THEN [x \in Flag |-> disk[c][x] + results[c][x]]
                             ELSE disk[c]]

--------------------------------------------------------------------------------
(* flushOnce; the lines of the checks in F meet a write error, which is only *)
(* logged.                                                                   *)

\* Mutants: old results are counted, not removed; removed, and counted down.
MoveOldKeeping ==
  /\ results' = results
  /\ dayAggregates' = [c \in Check |->
       IF Recent(c) THEN dayAggregates[c] ELSE dayAggregates[c] + Copies(results, c)]
MoveOldDown ==
  /\ results' = [c \in Check |-> IF Recent(c) THEN results[c] ELSE NoCopies]
  /\ dayAggregates' = [c \in Check |->
       IF Recent(c) THEN dayAggregates[c] ELSE dayAggregates[c] - Copies(results, c)]

\* Old results leave the raw store for the day aggregates.
MoveOld ==
  /\ results' = [c \in Check |-> IF Recent(c) THEN results[c] ELSE NoCopies]
  /\ dayAggregates' = [c \in Check |->
       IF Recent(c) THEN dayAggregates[c] ELSE dayAggregates[c] + Copies(results, c)]

FlushOnce(F) ==
  /\ \/ /\ results = Empty
        /\ UNCHANGED store
     \/ /\ results /= Empty
        /\ MoveOld
        /\ AppendResults(Batch \ F)
        /\ lastFlushTimestamp' = now
  /\ written' = [c \in Check |->
       IF c \in Batch \ F THEN written[c] + Copies(results, c) ELSE written[c]]
  /\ failed' = failed \cup F
  /\ fresh' = {}
  /\ UNCHANGED <<acked, base, overdue, lost>>

--------------------------------------------------------------------------------
(* Start and load *)

\* Mutant: what is loaded counts as extra.
LoadAsExtra ==
  /\ results' = [c \in Check |-> [x \in Flag |->
       IF x = "extra" /\ OnFile(c) /\ Recent(c) THEN Copies(disk, c) ELSE 0]]
  /\ dayAggregates' = [c \in Check |->
       IF OnFile(c) /\ ~Recent(c) THEN Copies(disk, c) ELSE 0]
  /\ lastFlushTimestamp' = Never

\* LoadIntoMemory: lines of the last 90 days; the flag is not copied, and
\* lastFlushTimestamp keeps its zero value.
LoadIntoMemory ==
  /\ results' = [c \in Check |-> [x \in Flag |->
       IF x = "plain" /\ OnFile(c) /\ Recent(c) THEN Copies(disk, c) ELSE 0]]
  /\ dayAggregates' = [c \in Check |->
       IF OnFile(c) /\ ~Recent(c) THEN Copies(disk, c) ELSE 0]
  /\ lastFlushTimestamp' = Never

\* NewLeader: load, start the flush loop, serve.
NewLeader ==
  /\ phase = "down"
  /\ starts < MaxStarts
  /\ starts' = starts + 1
  /\ phase' = "up"
  /\ LoadIntoMemory
  /\ timer' = now + FlushInterval
  /\ base' = [c \in Check |-> IF OnFile(c) THEN Copies(disk, c) ELSE 0]
  /\ written' = Zero
  /\ UNCHANGED <<now, stamp, disk, acked, fresh, overdue, failed, lost>>

--------------------------------------------------------------------------------
(* The nodes *)

\* A node starts a check cycle that measures c; its clock may run ahead.
Measure(c) ==
  /\ stamp[c] = Never
  /\ \E s \in 0..Skew : stamp' = [stamp EXCEPT ![c] = now + s]
  /\ UNCHANGED <<now, phase, starts, timer, store, history>>

\* HandleSubmit with the checks S, fresh ones and ones a node had buffered or
\* sends again because the answer was lost.  Handlers run until main returns.
Submit(S) ==
  /\ phase /= "down"
  /\ S /= {}
  /\ \A c \in S : acked[c] < MaxDeliveries
  /\ results' = [c \in Check |->
       IF c \in S THEN [results[c] EXCEPT ![FlagOf(c)] = @ + 1] ELSE results[c]]
  /\ acked' = [c \in Check |-> IF c \in S THEN acked[c] + 1 ELSE acked[c]]
  /\ base' = [c \in Check |-> IF c \in S THEN base[c] + 1 ELSE base[c]]
  /\ fresh' = fresh \cup S
  /\ overdue' = overdue \cup {c \in S : \/ stamp[c] <= lastFlushTimestamp
                                       \/ stamp[c] + Window < now + FlushInterval}
  /\ UNCHANGED <<now, phase, starts, timer, stamp, dayAggregates, lastFlushTimestamp, disk,
                 written, failed, lost>>

--------------------------------------------------------------------------------
(* The flush loop, stopping and crashing *)

\* FlushLoop: the timer has fired, flush and reset it.
FlushTick(F) ==
  /\ phase /= "down"
  /\ now >= timer
  /\ FlushOnce(F)
  /\ timer' = now + FlushInterval
  /\ UNCHANGED <<now, phase, starts, stamp>>

\* Stop on SIGTERM: one last flushOnce, while the listener still accepts.
Stop(F) ==
  /\ phase = "up"
  /\ phase' = "stopping"
  /\ FlushOnce(F)
  /\ UNCHANGED <<now, starts, timer, stamp>>

\* The process is gone and with it everything in memory.
Forget(W) ==
  /\ phase' = "down"
  /\ results' = Empty
  /\ dayAggregates' = Zero
  /\ lastFlushTimestamp' = Never
  /\ AppendResults(W)
  /\ base' = Zero
  /\ written' = Zero
  /\ fresh' = {}
  /\ lost' = lost \cup (fresh \ W)
  /\ UNCHANGED <<now, starts, timer, stamp, acked, overdue, failed>>

\* Shutdown makes ListenAndServe return, and main with it.
Exit == phase = "stopping" /\ Forget({})

\* The process is killed, or it is killed inside a flush that had written W.
Crash(W) ==
  /\ phase /= "down"
  /\ W = {} \/ phase = "up" \/ now >= timer
  /\ Forget(W)

\* The timer is served within its second; Stop to exit takes less than one.
Tick ==
  /\ now < MaxTime
  /\ phase = "up" => now < timer
  /\ phase /= "stopping"
  /\ now' = now + 1
  /\ UNCHANGED <<phase, starts, timer, stamp, store, history>>

--------------------------------------------------------------------------------
Init ==
  /\ now = Boot
  /\ phase = "down"
  /\ starts = 0
  /\ timer = Boot
  /\ stamp = [c \in Check |-> Never]
  /\ results = Empty
  /\ dayAggregates = Zero
  /\ lastFlushTimestamp = Never
  /\ disk = Empty
  /\ acked = Zero
  /\ base = Zero
  /\ written = Zero
  /\ fresh = {}
  /\ overdue = {}
  /\ failed = {}
  /\ lost = {}

Next ==
  \/ Tick
  \/ NewLeader
  \/ Exit
  \/ \E c \in Check : Measure(c)
  \/ \E S \in SUBSET Measured : Submit(S)
  \/ \E F \in SUBSET Batch : FlushTick(F) \/ Stop(F) \/ Crash(F)

Spec == Init /\ [][Next]_vars

--------------------------------------------------------------------------------
(* Queries *)

\* Query90d: the aggregates, with no cutoff, plus the raw results of 90 days.
Query90d(c) ==
  dayAggregates[c] + (IF stamp[c] >= now - Retention THEN Copies(results, c) ELSE 0)

\* Query90h: the raw results of 90 hours.
Query90h(c) == IF stamp[c] >= now - Window THEN Copies(results, c) ELSE 0

\* What checkPairStatus looks at: recent results that are not extra.
PairEvidence == {c \in Check : results[c]["plain"] > 0 /\ stamp[c] >= now - PairWindow}

--------------------------------------------------------------------------------
(* Properties *)

TypeOK ==
  /\ now \in Nat
  /\ phase \in Phase
  /\ starts \in Nat
  /\ timer \in Nat
  /\ stamp \in [Check -> Nat]
  /\ results \in Bag
  /\ dayAggregates \in [Check -> Nat]
  /\ lastFlushTimestamp \in Nat
  /\ disk \in Bag
  /\ acked \in [Check -> Nat]
  /\ base \in [Check -> Nat]
  /\ written \in [Check -> Nat]
  /\ fresh \subseteq Check /\ overdue \subseteq Check
  /\ failed \subseteq Check /\ lost \subseteq Check

Excused == overdue \cup failed \cup lost

\* While a process runs, every copy it loaded or accepted is counted exactly
\* once by the 90-day view, wherever flushOnce has moved it meanwhile
\* (flushOnce, LoadIntoMemory and Query90d must agree on where a copy is).
CountedOnce ==
  phase /= "down" =>
    \A c \in Check : stamp[c] >= now - Retention => Query90d(c) = base[c]

\* The 90-hour view misses nothing: flushOnce and LoadIntoMemory never move a
\* result to the aggregates while Query90h would still report it.
RecentStaysRaw ==
  phase /= "down" =>
    \A c \in Check : stamp[c] >= now - Window => Query90h(c) = base[c]

\* A check answered 202 is on disk as soon as one flush has run, and stays
\* there across every crash and restart; excused are only checks accepted too
\* late for the flush window, those whose write failed, and those whose process
\* ended before its next flush.
Durable ==
  \A c \in Check : acked[c] > 0 /\ c \notin Excused \cup fresh
                     => Copies(disk, c) > 0

\* A check answered 202 that is not excused is reported by every later 90-day
\* query within its retention, also by processes started after the one that
\* accepted it.
Visible ==
  phase /= "down" =>
    \A c \in Check : /\ acked[c] > 0
                     /\ c \notin Excused
                     /\ stamp[c] >= now - Retention
                     => Query90d(c) > 0

\* One process never writes a copy to disk twice, however often the loop fires.
WrittenOnce ==
  \A c \in Check : written[c] <= base[c]

\* The state as Ledger sees it.
Counted == [c \in Check |-> Copies(results, c) + dayAggregates[c]]
Logged == [c \in Check |-> Copies(disk, c)]
Owed == fresh \ overdue
Saved == {c \in Check : written[c] > 0}

Promise == INSTANCE Ledger WITH
  running <- phase /= "down", memory <- Counted, log <- Logged, owed <- Owed, saved <- Saved

\* The leader keeps the promise of Ledger: whatever flushOnce moves and however
\* the windows slide, a process loses and doubles no copy it counts, each flush
\* writes all copies of every check it owes, and no check is written by two
\* flushes of a process.
ImplementsLedger == Promise!Spec

--------------------------------------------------------------------------------
(* The inductive strengthening of these invariants *)

Unmeasured ==
  \A c \in Check : stamp[c] = Never =>
    /\ acked[c] = 0
    /\ c \notin fresh
    /\ Copies(results, c) = 0 /\ dayAggregates[c] = 0 /\ Copies(disk, c) = 0

MemoryConserved ==
  phase /= "down" =>
    \A c \in Check : Copies(results, c) + dayAggregates[c] = base[c]

OnlyOldAggregated ==
  phase /= "down" =>
    \A c \in Check : dayAggregates[c] > 0 => stamp[c] < now - Window

FlushOnTime ==
  /\ phase /= "down" => /\ lastFlushTimestamp <= now
                        /\ now <= timer
                        /\ timer <= now + FlushInterval
  /\ phase = "down" => fresh = {}

\* An accepted check is on disk, or the coming flush will find it in time.
PendingOrDurable ==
  \A c \in Check :
    /\ acked[c] > 0
    /\ c \notin Excused
    => \/ Copies(disk, c) > 0
       \/ /\ c \in fresh
          /\ Copies(results, c) > 0
          /\ stamp[c] > lastFlushTimestamp
          /\ stamp[c] + Window >= timer

NoFutureStamps == \A c \in Check : stamp[c] <= now

\* What a running process owes its 90-day view, it holds.
DurableIsLoaded ==
  phase /= "down" =>
    \A c \in Check : /\ acked[c] > 0
                     /\ c \notin Excused
                     /\ stamp[c] >= now - Retention
                     => base[c] > 0

\* Copies already written and copies the next flush may write add up.
WriteBudget ==
  \A c \in Check :
    written[c] + (IF stamp[c] > lastFlushTimestamp THEN Copies(results, c) ELSE 0) <= base[c]

\* The coming flush will find what the process owes, a new one has saved nothing.
OwedIsPending ==
  /\ \A c \in Owed : /\ Copies(results, c) > 0
                     /\ stamp[c] > lastFlushTimestamp
                     /\ stamp[c] + Window >= timer
  /\ phase = "down" => Saved = {}

\* Only a submit can mark a copy as extra: LoadIntoMemory drops the flag.
FlagsKept == \A c \in Check \ Extra : results[c]["extra"] = 0

StoreInv ==
  /\ TypeOK
  /\ Unmeasured
  /\ MemoryConserved
  /\ OnlyOldAggregated
  /\ FlushOnTime
  /\ PendingOrDurable

\* The part that needs the nodes' clocks not to run ahead.
SyncedInv ==
  /\ NoFutureStamps
  /\ DurableIsLoaded
  /\ WriteBudget

================================================================================
