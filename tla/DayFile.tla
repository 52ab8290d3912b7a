--------------------------------- MODULE DayFile ---------------------------------
(***************************************************************************)
(* The day files below the lines of ResultsStore                           *)
(* (internal/leader/persistence.go): what ReadResults makes of a file in   *)
(* which some writes of AppendResults were cut short by a crash or a full  *)
(* disk, and which files it opens when days are not all 24 hours long.     *)
(* Pure functions of the file and of the calendar.                         *)
(***************************************************************************)
EXTENDS Integers, Sequences, FiniteSets, SequencesExt

CONSTANTS
  MaxWrites,  \* bound: writes to one file
  MaxDays     \* bound: days read

ASSUME DayFileAssumption == MaxWrites \in Nat /\ MaxDays \in Nat \ {0}

--------------------------------------------------------------------------------
(* One file *)

\* What one Encode leaves: the record and its newline, part of the record, or
\* all of it but the newline.  The next one goes on where it ends.
Piece == {"line", "torn", "bare"}
File == BoundedSeq(Piece, MaxWrites)

\* The scanner's line that piece i is part of holds nothing else.
Alone(file, i) ==
  /\ i = 1 \/ file[i - 1] = "line"
  /\ i = Len(file) \/ file[i] = "line"

\* Mutant: reading ends at a malformed line.
ReadToMalformed(file) ==
  {i \in DOMAIN file : \A j \in 1..i : Alone(file, j) /\ file[j] /= "torn"}

\* ReadResults: malformed lines are skipped, and a last line may lack its newline.
ReadFile(file) == {i \in DOMAIN file : Alone(file, i) /\ file[i] /= "torn"}

\* Whole records lost from a file, and writes to it that were cut short.
Lost(file) == {i \in DOMAIN file : file[i] = "line"} \ ReadFile(file)
CutShort(file) == {i \in DOMAIN file : file[i] /= "line"}

LosingMore == {file \in File : Cardinality(Lost(file)) > Cardinality(CutShort(file))}

--------------------------------------------------------------------------------
(* The files of a window *)

Step == 24

\* A calendar gives each day its hours; daylight saving takes or adds one.
Calendar == [0..MaxDays -> {Step - 1, Step, Step + 1}]

\* The hour at which day d begins.
Midnight(cal, d) ==
  LET m[i \in 0..d] == IF i = 0 THEN 0 ELSE m[i - 1] + cal[i - 1] IN m[d]

On(cal, d, t) == Midnight(cal, d) <= t /\ t < Midnight(cal, d + 1)

\* Mutant: the end is exclusive.
StepsBefore(start, end) == {t \in start..(end - 1) : (t - start) % Step = 0}

\* The instants ReadResults steps through, from start to end.
Steps(start, end) == {t \in start..end : (t - start) % Step = 0}

TimesOpened(cal, d, start, end) == Cardinality({t \in Steps(start, end) : On(cal, d, t)})

\* A read of MaxDays days from start: day d has another number of hours than
\* the step if it is not opened once.
Explained(cal, start) ==
  LET end == start + (MaxDays - 1) * Step
  IN  \A d \in {x \in 0..MaxDays : Midnight(cal, x) <= end} :
        LET n == TimesOpened(cal, d, start, end)
        IN  /\ n = 0 => cal[d] < Step
            /\ n > 1 => cal[d] > Step

\* Times of day at which a start reads a day once too often or too seldom.
Unexplained == UNION {{start \in 0..(cal[0] - 1) : ~Explained(cal, start)} : cal \in Calendar}

================================================================================
