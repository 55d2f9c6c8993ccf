------------------------------ MODULE JobRuns -------------------------------
(***************************************************************************)
(* The life of an install, a recovery and a manual backup inside the panel *)
(* process: the HTTP handler that admits it and inserts its history row,   *)
(* the supervised asyncio task that executes it, the restart sweep.        *)
(*                                                                         *)
(* A step of this module is what happens between two awaits that matter: a *)
(* database commit (each one can fail), a hand-over from a handler to its  *)
(* task, a crash of the process.  What a worker does on the remote machine *)
(* is abstracted to its outcome: it returns a verdict or raises.           *)
(***************************************************************************)
EXTENDS Naturals, FiniteSets

CONSTANTS
  Jobs,        \* history rows that may be created, one per click on "start"
  Servers,     \* servers of the panel
  Install,     \* the jobs that are OS installs
  Recovery,    \* the jobs that are recoveries
  Backup,      \* the jobs that are manual backup runs
  ServerOf,    \* ServerOf[j]: the server the job is about
  MaxStarts,   \* bound: clicks on "start"
  MaxFaults,   \* bound: database commits or reads that fail
  MaxCrashes   \* bound: deaths of the panel process

ASSUME KindsAssumption ==
  /\ Jobs = Install \union Recovery \union Backup
  /\ Install \intersect Recovery = {}
  /\ Install \intersect Backup = {}
  /\ Recovery \intersect Backup = {}

ASSUME ServerAssumption == ServerOf \in [Jobs -> Servers]

ASSUME BoundsAssumption ==
  MaxStarts \in Nat /\ MaxFaults \in Nat /\ MaxCrashes \in Nat

VARIABLES
  row,      \* row[j]: the history row; "flushed" is an uncommitted INSERT
  req,      \* req[j]: where the HTTP handler that starts j is
  task,     \* task[j]: where the supervised task of j is
  panel,    \* the process: "down", "booting" (lifespan startup), "up"
  faults,   \* commits that have failed so far
  crashes   \* crashes so far

vars == <<row, req, task, panel, faults, crashes>>

Terminal  == {"success", "partial", "failed"}
Committed == {"pending", "running"} \union Terminal

\* A task that still has steps to take, and one that is over: "ended" left
\* _runner by its last commit or its early return, "lost" could not reach or
\* write the database, "killed" died with the process.
Live == {"spawned", "loaded", "body", "closing", "handling", "reporting"}
Over == {"ended", "lost", "killed"}

InHandler == {"admitted", "inserted", "committed"}

TypeOK ==
  /\ row \in [Jobs -> {"absent", "flushed", "deleted"} \union Committed]
  /\ req \in [Jobs -> {"idle", "answered", "refused"} \union InHandler]
  /\ task \in [Jobs -> {"none"} \union Live \union Over]
  /\ panel \in {"down", "booting", "up"}
  /\ faults \in 0..MaxFaults
  /\ crashes \in 0..MaxCrashes

Init ==
  /\ row = [j \in Jobs |-> "absent"]
  /\ req = [j \in Jobs |-> "idle"]
  /\ task = [j \in Jobs |-> "none"]
  /\ panel = "up"
  /\ faults = 0
  /\ crashes = 0

-----------------------------------------------------------------------------
(***************************************************************************)
(* The HTTP handlers                                                       *)
(***************************************************************************)

SameGuard(j) ==
  {k \in Jobs : /\ ServerOf[k] = ServerOf[j]
                /\ \/ j \in Install /\ k \in Install
                   \/ j \in Recovery /\ k \in Recovery}

\* get_running_for_server: only a row whose status is "running" refuses.
RunningForServer(j) == \E k \in SameGuard(j) : row[k] = "running"

\* The guard is read before the handler awaits the form.
Admit(j) ==
  /\ panel = "up"
  /\ req[j] = "idle"
  /\ Cardinality({k \in Jobs : req[k] # "idle"}) < MaxStarts
  /\ req' = [req EXCEPT ![j] = IF RunningForServer(j) THEN "refused" ELSE "admitted"]
  /\ UNCHANGED <<row, task, panel, faults, crashes>>

\* The form is invalid: unknown image, scenario or storage.
RefuseForm(j) ==
  /\ j \in Install \union Recovery
  /\ req[j] = "admitted"
  /\ req' = [req EXCEPT ![j] = "refused"]
  /\ UNCHANGED <<row, task, panel, faults, crashes>>

\* Mutant of Insert: every handler spawns its task before it commits the row.
InsertAndSpawn(j) ==
  /\ req[j] = "admitted"
  /\ req' = [req EXCEPT ![j] = "inserted"]
  /\ row' = [row EXCEPT ![j] = "flushed"]
  /\ task' = [task EXCEPT ![j] = "spawned"]
  /\ UNCHANGED <<panel, faults, crashes>>

\* add + flush.  start_install has no await between its flush and
\* run_supervised: its task exists before the row is committed.
Insert(j) ==
  /\ req[j] = "admitted"
  /\ req' = [req EXCEPT ![j] = "inserted"]
  /\ row' = [row EXCEPT ![j] = "flushed"]
  /\ task' = IF j \in Install THEN [task EXCEPT ![j] = "spawned"] ELSE task
  /\ UNCHANGED <<panel, faults, crashes>>

\* Explicit in run_backup and recovery_start; left to get_db by start_install.
CommitRow(j) ==
  /\ req[j] = "inserted"
  /\ req' = [req EXCEPT ![j] = IF j \in Install THEN "answered" ELSE "committed"]
  /\ row' = [row EXCEPT ![j] = "pending"]
  /\ UNCHANGED <<task, panel, faults, crashes>>

CommitRowFails(j) ==
  /\ req[j] = "inserted"
  /\ faults < MaxFaults
  /\ faults' = faults + 1
  /\ req' = [req EXCEPT ![j] = "refused"]
  /\ row' = [row EXCEPT ![j] = "absent"]
  /\ UNCHANGED <<task, panel, crashes>>

Spawn(j) ==
  /\ req[j] = "committed"
  /\ req' = [req EXCEPT ![j] = "answered"]
  /\ task' = [task EXCEPT ![j] = "spawned"]
  /\ UNCHANGED <<row, panel, faults, crashes>>

\* delete_backup: the history of a backup config goes with it, whatever runs.
DeleteHistory(j) ==
  /\ panel = "up"
  /\ j \in Backup
  /\ row[j] \in Committed
  /\ row' = [row EXCEPT ![j] = "deleted"]
  /\ UNCHANGED <<req, task, panel, faults, crashes>>

Handler(j) ==
  RefuseForm(j) \/ Insert(j) \/ CommitRow(j) \/ CommitRowFails(j) \/ Spawn(j)

-----------------------------------------------------------------------------
(***************************************************************************)
(* The supervised task                                                     *)
(***************************************************************************)

\* _runner loads the row in a session of its own; an uncommitted or deleted
\* row is not found and the task returns.
Load(j) ==
  /\ task[j] = "spawned"
  /\ task' = [task EXCEPT ![j] = IF row[j] \in Committed THEN "loaded" ELSE "ended"]
  /\ UNCHANGED <<row, req, panel, faults, crashes>>

\* The load stands before _runner's try: nothing records its failure.
LoadFails(j) ==
  /\ task[j] = "spawned"
  /\ faults < MaxFaults
  /\ faults' = faults + 1
  /\ task' = [task EXCEPT ![j] = "lost"]
  /\ UNCHANGED <<row, req, panel, crashes>>

\* Mutant of Write: the row is merged, so a deleted one is inserted again.
WriteOrReinsert(j, status, next) ==
  /\ row' = [row EXCEPT ![j] = status]
  /\ task' = [task EXCEPT ![j] = next]
  /\ UNCHANGED <<req, panel, faults, crashes>>

\* A commit of the task: only an existing row can be updated.
Write(j, status, next) ==
  /\ row[j] # "deleted"
  /\ row' = [row EXCEPT ![j] = status]
  /\ task' = [task EXCEPT ![j] = next]
  /\ UNCHANGED <<req, panel, faults, crashes>>

Begin(j) == task[j] = "loaded" /\ Write(j, "running", "body")

\* Mutant of Verdicts: a destination's status becomes the row's.
VerdictsOfDestination(j) == (IF j \in Backup THEN Terminal ELSE {"success"}) \union {"skipped"}

\* The verdicts a worker can reach without raising.
Verdicts(j) == IF j \in Backup THEN Terminal ELSE {"success"}

\* After its verdict an install still commits the server's os_type and a last
\* log line, a backup its completion time; a recovery commits nothing more.
Finish(j) ==
  /\ task[j] = "body"
  /\ \E v \in Verdicts(j) : Write(j, v, IF j \in Recovery THEN "ended" ELSE "closing")

\* The remote work raises: the service's own except branch takes over.
Raise(j) ==
  /\ task[j] = "body"
  /\ task' = [task EXCEPT ![j] = "handling"]
  /\ UNCHANGED <<row, req, panel, faults, crashes>>

HandleFailure(j) ==
  /\ task[j] = "handling"
  /\ Write(j, "failed", IF j \in Install THEN "ended" ELSE "closing")

Close(j) == task[j] = "closing" /\ Write(j, row[j], "ended")

\* Where a failed commit leads.  Inside a service's try its except branch runs,
\* and may itself raise on the rolled-back session; elsewhere the exception
\* goes straight to the supervisor.
AfterFailedWrite(j) ==
  IF task[j] = "body" \/ (task[j] \in {"loaded", "closing"} /\ j \in Install)
    THEN {"handling", "reporting"}
    ELSE {"reporting"}

WriteFails(j) ==
  /\ task[j] \in {"loaded", "body", "closing", "handling"}
  /\ \/ row[j] = "deleted" /\ UNCHANGED faults
     \/ row[j] # "deleted" /\ faults < MaxFaults /\ faults' = faults + 1
  /\ \E next \in AfterFailedWrite(j) : task' = [task EXCEPT ![j] = next]
  /\ UNCHANGED <<row, req, panel, crashes>>

\* Mutant of Report: the supervisor does not look at the status.
ReportAlways(j) ==
  /\ task[j] = "reporting"
  /\ row' = IF row[j] = "deleted" THEN row ELSE [row EXCEPT ![j] = "failed"]
  /\ task' = [task EXCEPT ![j] = "ended"]
  /\ UNCHANGED <<req, panel, faults, crashes>>

\* Mutant of Report: a row that is already running is left to its worker.
ReportPendingOnly(j) ==
  /\ task[j] = "reporting"
  /\ row' = IF row[j] = "pending" THEN [row EXCEPT ![j] = "failed"] ELSE row
  /\ task' = [task EXCEPT ![j] = "ended"]
  /\ UNCHANGED <<req, panel, faults, crashes>>

\* The supervisor's except branch: it re-reads the row, leaves a success (and
\* a row that is gone) alone, marks anything else failed.
Report(j) ==
  /\ task[j] = "reporting"
  /\ row' = IF row[j] \in {"success", "deleted"} THEN row ELSE [row EXCEPT ![j] = "failed"]
  /\ task' = [task EXCEPT ![j] = "ended"]
  /\ UNCHANGED <<req, panel, faults, crashes>>

\* "final commit failed" is only logged.
ReportFails(j) ==
  /\ task[j] = "reporting"
  /\ faults < MaxFaults
  /\ faults' = faults + 1
  /\ task' = [task EXCEPT ![j] = "lost"]
  /\ UNCHANGED <<row, req, panel, crashes>>

Task(j) ==
  \/ Load(j) \/ LoadFails(j) \/ Begin(j) \/ Finish(j) \/ Raise(j) \/ HandleFailure(j)
  \/ Close(j) \/ WriteFails(j) \/ Report(j) \/ ReportFails(j)

-----------------------------------------------------------------------------
(***************************************************************************)
(* The process                                                             *)
(***************************************************************************)

\* Handlers, tasks and open transactions vanish; committed rows stay.
Crash ==
  /\ panel # "down"
  /\ crashes < MaxCrashes
  /\ crashes' = crashes + 1
  /\ panel' = "down"
  /\ req' = [j \in Jobs |-> IF req[j] \in InHandler THEN "refused" ELSE req[j]]
  /\ row' = [j \in Jobs |-> IF row[j] = "flushed" THEN "absent" ELSE row[j]]
  /\ task' = [j \in Jobs |-> IF task[j] \in Live THEN "killed" ELSE task[j]]
  /\ UNCHANGED faults

Boot ==
  /\ panel = "down"
  /\ panel' = "booting"
  /\ UNCHANGED <<row, req, task, faults, crashes>>

\* Mutant of CleanupStaleRuns: backup_history is not among the swept tables.
CleanupWithoutBackups ==
  /\ panel = "booting"
  /\ panel' = "up"
  /\ row' = [j \in Jobs |-> IF row[j] = "running" /\ j \notin Backup THEN "failed" ELSE row[j]]
  /\ UNCHANGED <<req, task, faults, crashes>>

\* cleanup_stale_runs, one transaction over the three tables, after which the
\* lifespan yields and requests are served.
CleanupStaleRuns ==
  /\ panel = "booting"
  /\ panel' = "up"
  /\ row' = [j \in Jobs |-> IF row[j] = "running" THEN "failed" ELSE row[j]]
  /\ UNCHANGED <<req, task, faults, crashes>>

Next ==
  \/ \E j \in Jobs : Admit(j) \/ DeleteHistory(j) \/ Handler(j) \/ Task(j)
  \/ Crash \/ Boot \/ CleanupStaleRuns

Spec == Init /\ [][Next]_vars

\* asyncio runs every ready task, a database call ends one way or the other, and
\* the service manager restarts the panel.  Nothing is due of a task in its
\* body: the remote calls there have no deadline (recv_exit_status, the polling
\* of execute_stream).  No click, no fault and no crash is ever due.
Fairness ==
  /\ \A j \in Jobs : WF_vars(task[j] # "body" /\ Task(j))
  /\ WF_vars(Boot) /\ WF_vars(CleanupStaleRuns)

FairSpec == Spec /\ Fairness

-----------------------------------------------------------------------------
(***************************************************************************)
(* Properties                                                              *)
(***************************************************************************)

\* A row a user sees as running has a task that is working on it, or one whose
\* last commit failed: no restart, refusal or failure leaves it orphaned, so
\* the "already running" guard never refuses on behalf of a dead run.
RunningHasTask ==
  \A j \in Jobs :
    panel = "up" /\ row[j] = "running"
      => task[j] \in {"body", "handling", "reporting", "lost"}

\* run_supervised's guaranteed failure reporting, for the handlers that commit
\* the row first: a task that is over and could write left a verdict behind.
EndedIsReported ==
  \A j \in Recovery \union Backup :
    task[j] = "ended" => row[j] \in Terminal \union {"deleted"}

\* A success already reported is never taken back, whatever commit fails or
\* crash follows it; only an install, which commits the server's os_type inside
\* the same try, can overturn its own.
SuccessKept ==
  [][\A j \in Recovery \union Backup :
       row[j] = "success" => row'[j] \in {"success", "deleted"}]_vars

\* At most one recovery works on a server at a time.
OneRecoveryPerServer ==
  \A j, k \in Recovery :
    j # k /\ ServerOf[j] = ServerOf[k] => ~(task[j] \in Live /\ task[k] \in Live)

\* What a session other than the handler's sees of the history tables.
Visible == [j \in Jobs |-> IF row[j] = "flushed" THEN "absent" ELSE row[j]]

Ledger == INSTANCE JobLedger WITH status <- Visible

\* Readers of the database see the life of a row that JobLedger promises:
\* through faults, crashes, sweeps and deletions no row runs twice, comes back
\* from a verdict or from deletion, or gets a good verdict before it runs, and
\* the success of a recovery or a backup is never taken back (SuccessKept).
LedgerSpec == Ledger!Spec

\* Once the remote work of a run is over - it returned, it raised, or the
\* process died under it - a row shown as running gets a verdict (or is deleted,
\* or its task could not write): whatever commits fail on the way to it, the
\* page is not stuck.  While the remote work lasts nothing bounds it.
RunningEnds ==
  \A j \in Jobs :
    row[j] = "running" /\ task[j] # "body"
      ~> row[j] \in Terminal \union {"deleted"} \/ task[j] = "lost"

=============================================================================
