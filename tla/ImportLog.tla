------------------------------ MODULE ImportLog ------------------------------
(***************************************************************************)
(* What the panel promises about the backup history of its configs, as a   *)
(* reader of the database sees it.  Rows are only ever appended, at most   *)
(* one per config in a transaction.  A row is that of a manual run or of a *)
(* scheduled run that has reported; and unless two syncs have worked on    *)
(* the config's server at a time, a scheduled run follows those that have  *)
(* a row already, or is the latest of them again after a manual run.       *)
(* ScheduledSync is shown to implement this module.                        *)
(***************************************************************************)
EXTENDS Naturals, Sequences

CONSTANTS
  Configs,  \* backup configs
  MaxRuns   \* bound: scheduled runs of a config

VARIABLES
  reported,  \* reported[c]: the number of c's latest run
  log,       \* log[c]: the rows of c by id: the number of a run, or 0
  contested  \* configs whose server two syncs have worked on at a time

vars == <<reported, log, contested>>

Init ==
  /\ reported = [c \in Configs |-> 0]
  /\ log = [c \in Configs |-> <<>>]
  /\ contested = {}

Report(c) ==
  /\ reported' = [reported EXCEPT ![c] = @ + 1]
  /\ UNCHANGED <<log, contested>>

Manual(c) ==
  /\ log' = [log EXCEPT ![c] = Append(@, 0)]
  /\ UNCHANGED <<reported, contested>>

Contest(S) ==
  /\ contested' = contested \union S
  /\ UNCHANGED <<reported, log>>

\* Every row of q is of an earlier run, or of this one and hidden by a manual row.
Fresh(q, run) ==
  \A i \in DOMAIN q : q[i] # 0 => q[i] < run \/ (q[i] = run /\ \E k \in i..Len(q) : q[k] = 0)

\* One transaction; rows[c] is the run it gives a row, 0 if none of c's.
Import(rows) ==
  /\ \A c \in Configs : rows[c] # 0 =>
       rows[c] <= reported[c] /\ (c \in contested \/ Fresh(log[c], rows[c]))
  /\ log' = [c \in Configs |-> IF rows[c] = 0 THEN log[c] ELSE Append(log[c], rows[c])]
  /\ UNCHANGED <<reported, contested>>

Next ==
  \/ \E c \in Configs : Report(c) \/ Manual(c)
  \/ \E S \in SUBSET Configs : Contest(S)
  \/ \E rows \in [Configs -> 0..MaxRuns] : Import(rows)

Spec == Init /\ [][Next]_vars

=============================================================================
