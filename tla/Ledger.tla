--------------------------------- MODULE Ledger ----------------------------------
(***************************************************************************)
(* What the leader promises about the checks it answered 202, without      *)
(* windows, day files, aggregates, flags or clocks: while it runs it       *)
(* forgets none and counts none twice; every save writes all it owes but   *)
(* what meets a write error, each check with all its copies and once in    *)
(* the life of a process; and the log only grows.                          *)
(***************************************************************************)
EXTENDS Integers

CONSTANT Check

VARIABLES
  running,  \* there is a process
  memory,   \* of each check: the copies the process counts
  log,      \* of each check: the copies that outlive it
  owed,     \* checks accepted in time for the next save
  saved,    \* checks this process has written
  failed    \* checks a save of which met an error

vars == <<running, memory, log, owed, saved, failed>>

Nothing == [c \in Check |-> 0]

Init ==
  /\ running = FALSE
  /\ memory = Nothing /\ log = Nothing
  /\ owed = {} /\ saved = {} /\ failed = {}

Write(W) == log' = [c \in Check |-> IF c \in W THEN log[c] + memory[c] ELSE log[c]]

\* A process takes up the checks K of the log, each with all its copies.
Start(K) ==
  /\ ~running
  /\ running' = TRUE
  /\ memory' = [c \in Check |-> IF c \in K THEN log[c] ELSE 0]
  /\ UNCHANGED <<log, owed, saved, failed>>

\* It accepts the checks S; some are too late for the next save.
Accept(S) ==
  /\ running
  /\ memory' = [c \in Check |-> IF c \in S THEN memory[c] + 1 ELSE memory[c]]
  /\ owed \ S \subseteq owed'
  /\ owed' \subseteq owed \cup S
  /\ UNCHANGED <<running, log, saved, failed>>

\* It writes the checks W; those in F meet an error.
Save(W, F) ==
  /\ running
  /\ owed \subseteq W \cup F
  /\ W \cap (saved \cup F) = {}
  /\ Write(W)
  /\ owed' = {}
  /\ saved' = saved \cup W
  /\ failed' = failed \cup F
  /\ UNCHANGED <<running, memory>>

\* It ends, perhaps in the middle of a save that has written W.
End(W) ==
  /\ running
  /\ W \cap saved = {}
  /\ running' = FALSE
  /\ memory' = Nothing
  /\ Write(W)
  /\ owed' = {} /\ saved' = {}
  /\ UNCHANGED failed

Next ==
  \E W \in SUBSET Check :
    \/ Start(W) \/ Accept(W) \/ End(W)
    \/ \E F \in SUBSET Check : Save(W, F)

Spec == Init /\ [][Next]_vars

================================================================================
