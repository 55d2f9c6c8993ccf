----------------------------- MODULE JobLedger ------------------------------
(***************************************************************************)
(* What the panel promises about a history row (install_history,           *)
(* recovery_history, backup_history), as a user who reloads the page sees  *)
(* it.  A row is created pending, starts running once and gets one         *)
(* verdict, "partial" only for a backup.  The only correction a verdict    *)
(* may undergo is to become "failed", and a success undergoes it only if   *)
(* it is an install's.  Only a backup's row is ever deleted; a failed row  *)
(* does not change otherwise.  JobRuns is shown to implement this module.  *)
(***************************************************************************)

CONSTANTS
  Jobs,     \* the history rows the panel may ever create
  Install,  \* those of OS installs
  Backup    \* those of manual backup runs

VARIABLE status         \* status[j]: what a reader of the database sees

Terminal == {"success", "partial", "failed"}

Statuses == {"absent", "pending", "running", "deleted"} \union Terminal

Init == status = [j \in Jobs |-> "absent"]

Create(j) ==
  /\ status[j] = "absent"
  /\ status' = [status EXCEPT ![j] = "pending"]

Begin(j) ==
  /\ status[j] = "pending"
  /\ status' = [status EXCEPT ![j] = "running"]

Decide(j) ==
  /\ status[j] = "running"
  /\ \E v \in Terminal :
       /\ v = "partial" => j \in Backup
       /\ status' = [status EXCEPT ![j] = v]

\* An unfinished run is given up, or a verdict is overturned.
GiveUp(j) ==
  /\ \/ status[j] \in {"pending", "running", "partial"}
     \/ status[j] = "success" /\ j \in Install
  /\ status' = [status EXCEPT ![j] = "failed"]

\* Every run a restart interrupted fails at once.
Interrupt ==
  status' = [j \in Jobs |-> IF status[j] = "running" THEN "failed" ELSE status[j]]

Delete(j) ==
  /\ j \in Backup
  /\ status[j] \in {"pending", "running"} \union Terminal
  /\ status' = [status EXCEPT ![j] = "deleted"]

Next ==
  \/ Interrupt
  \/ \E j \in Jobs : Create(j) \/ Begin(j) \/ Decide(j) \/ GiveUp(j) \/ Delete(j)

Spec == Init /\ [][Next]_status

=============================================================================
