----------------------------- MODULE MCResultsStore -----------------------------
(* Instances of ResultsStore, with its queries and its files, for TLC. *)
EXTENDS Queries, DayFile

\* All checks are of one pair, the extra ones too.
OneNode == [c \in Check |-> "src"]
OneTarget == [c \in Check |-> "dst"]

\* What a process that has started read from the files below the model's lines.

\* A write that is cut short costs the record it wrote and at most the next one;
\* all other records of its file are read.
TornWriteCost == phase /= "down" => LosingMore = {}

\* From any time of day, ReadResults opens each day from start to end once; it
\* misses only a day shorter than its step, and reads, so counts, twice only a
\* day longer than it.
DaysReadOnce == phase /= "down" => Unexplained = {}

\* Read against the documents and tests: what the code does not do.

\* .planning/milestones/v0.1-phases/03-CONTEXT.md:25, "What gets flushed: All
\* _results entries since last flush": a check that was accepted before the
\* last flush, and whose write met no error, is on disk.
FlushedSinceLast ==
  phase = "up" =>
    \A c \in Check : /\ Copies(results, c) > 0
                     /\ c \notin fresh \cup failed
                     => Copies(disk, c) > 0

\* spec/test_integration.py:230: as many checks after a restart as before it.
\* Memory never holds more copies of a check than submits brought.
NoPhantomCopies ==
  \A c \in Check : Copies(results, c) + dayAggregates[c] <= acked[c]

================================================================================
