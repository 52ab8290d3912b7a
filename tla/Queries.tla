--------------------------------- MODULE Queries ---------------------------------
(***************************************************************************)
(* What GET /data answers from the result store: HandleData                *)
(* (internal/leader/handlers.go) with Query90m, Query90h and Query90d      *)
(* (internal/leader/results.go).  ResultsStore says how often each query   *)
(* counts a check; here the counts are grouped by pair, hour and day, and  *)
(* become statuses and percentages.  The order of the entries is left out. *)
(***************************************************************************)
EXTENDS ResultsStore, FiniteSetsExt, Functions

CONSTANTS
  Src, Dst,        \* of each check: the node that measured it, and its target
  PingOK, HTTPOK,  \* the checks whose ping, whose HTTP request succeeded
  HourLength       \* one hour

ASSUME QueriesAssumption ==
  /\ IsFiniteSet(Check)
  /\ PingOK \subseteq Check /\ HTTPOK \subseteq Check
  /\ HourLength \in Nat \ {0}
  /\ DayLength % HourLength = 0
  /\ PairWindow <= Window

--------------------------------------------------------------------------------
(* Grouping *)

Of(src, dst) == {c \in Check : Src[c] = src /\ Dst[c] = dst}

\* ConnectionStats of the checks S, each counted as often as the bag says.
Stats(count, S) ==
  [TotalChecks |-> SumFunctionOnSet(count, S),
   PingOK      |-> SumFunctionOnSet(count, S \cap PingOK),
   HTTPOK      |-> SumFunctionOnSet(count, S \cap HTTPOK)]

Hour(t) == t \div HourLength

\* An entry of the 90-hour answer, and of the 90-day answer.
InHour(src, dst, h) ==
  Stats([c \in Check |-> Query90h(c)], {c \in Of(src, dst) : Hour(stamp[c]) = h})
InDay(src, dst, d) ==
  Stats([c \in Check |-> Query90d(c)], {c \in Of(src, dst) : Day(stamp[c]) = d})

HoursOf(d) == LET n == DayLength \div HourLength IN d * n .. (d + 1) * n - 1

--------------------------------------------------------------------------------
(* The last 90 minutes *)

\* The checks Query90m lists, extra ones included.
Query90m(c) == IF stamp[c] >= now - PairWindow THEN Copies(results, c) ELSE 0

\* checkPairStatus: one recent success that is not of an extra target.
checkPairStatus(src, dst, good) == Of(src, dst) \cap good \cap PairEvidence /= {}

\* Query90m has a status for each two nodes of the registry.
Statuses(registered) ==
  {s \in registered \X registered \X {PingOK, HTTPOK} :
     s[1] /= s[2] /\ checkPairStatus(s[1], s[2], s[3])}

--------------------------------------------------------------------------------
(* Percentages *)

\* Mutant: rounded up.
safePctUp(ok, total) == IF total = 0 THEN 0 ELSE (1000 * ok + total - 1) \div total

\* In tenths of a percent, rounded to the nearest (math.Round).
safePct(ok, total) == IF total = 0 THEN 0 ELSE (2000 * ok + total) \div (2 * total)

--------------------------------------------------------------------------------
(* Properties *)

\* The 90-hour and the 90-day answer agree: for a day that lies in the window of
\* both, the hours of a pair add up to its day, whatever flushOnce has moved
\* from one map to the other and LoadIntoMemory has put into which.
HoursAddUp ==
  phase /= "down" =>
    \A p \in {<<Src[c], Dst[c]>> : c \in Check} :
      \A d \in {Day(stamp[c]) : c \in Measured} :
        d * DayLength >= now - Window =>
          LET hours(h) == InHour(p[1], p[2], h)
          IN  InDay(p[1], p[2], d) =
                [f \in {"TotalChecks", "PingOK", "HTTPOK"} |->
                   SumFunction([h \in HoursOf(d) |-> hours(h)[f]])]

\* The answer for 90 minutes survives restarts: a check that succeeded in that
\* time, was answered 202 and is not excused is listed, and makes the status of
\* its pair good once both are registered, whichever process is asked.
StatusSurvives ==
  phase /= "down" =>
    \A c \in Check \ Extra : \A good \in {PingOK, HTTPOK} :
      /\ Src[c] /= Dst[c]
      /\ c \in good
      /\ acked[c] > 0 /\ c \notin Excused
      /\ stamp[c] >= now - PairWindow
      => /\ Query90m(c) > 0
         /\ <<Src[c], Dst[c], good>> \in Statuses({Src[c], Dst[c]})

\* The sizes of bucket in which rounding hides a failure, or a success.
Hiding(sizes) == {n \in sizes : safePct(n - 1, n) = 1000 \/ safePct(1, n) = 0}
HidingBelow2000 == Hiding(1..1999)

\* Rounding hides nothing in a bucket of fewer than 2000 checks (5.5 hours at
\* the default interval): 100 % is shown only without a failure, 0 % only
\* without a success.
FailureShows == phase /= "down" => HidingBelow2000 = {}

================================================================================
