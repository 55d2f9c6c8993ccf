------------------------------ MODULE Schedule ------------------------------
(***************************************************************************)
(* The nightly schedule of one backup config: its row in the panel, the    *)
(* task, wrapper, frozen plan and report on the server, the handlers that  *)
(* install and remove them over SSH while the operator edits, deletes and  *)
(* creates configs, and the nightly runs that the task fires.              *)
(*                                                                         *)
(* Everything on the server is named after the id of the row.  SQLite      *)
(* without AUTOINCREMENT gives the id of the last row, once deleted, to    *)
(* the next one: a generation counts the rows that have had the id.        *)
(*                                                                         *)
(* What the runs copy is in BackupScript, how reports are imported in      *)
(* ScheduledSync.                                                          *)
(***************************************************************************)
EXTENDS Naturals, FiniteSets

CONSTANTS
  Handlers,     \* requests the panel may be working on
  Runs,         \* nightly runs that may be under way
  MaxChanges,   \* bound: rows created or edited, keys rotated
  MaxRequests,  \* bound: install, uninstall and delete requests
  MaxFirings,   \* bound: nightly runs
  MaxTroubles   \* bound: commands that fail, crashes, lost messages

ASSUME BoundsAssumption ==
  MaxChanges \in Nat /\ MaxRequests \in Nat /\ MaxFirings \in Nat /\ MaxTroubles \in Nat

VARIABLES
  \* the panel
  now,       \* number of changes so far to what a plan is built from
  gen,       \* rows that have had the id
  exists,    \* the row is there
  schedule,  \* BackupConfig.schedule: "good", "refused" by schtasks, "empty"
  stored,    \* the StorageConfig of its destinations is there
  op,        \* op[h]: the request that handler h is working on
  \* the server
  task,      \* the scheduled task
  dir,       \* configs\<id> exists
  wrapper,   \* configs\<id>\trigger.cmd exists
  plan,      \* configs\<id>\plan.json
  report,    \* configs\<id>\last_report.json: the generation that wrote it
  run,       \* run[r]: a nightly run
  comma,     \* the server's locale writes decimals with a comma
  \* what the properties remember
  settled,   \* an undisturbed install has answered ok since the last change
  dirty,     \* a removal failed, or ran together with another request
  survivor,  \* a removal passed by a run that was under way
  requests, firings, troubles

vars == <<now, gen, exists, schedule, stored, op, task, dir, wrapper, plan,
          report, run, comma, settled, dirty, survivor, requests, firings, troubles>>
row == <<now, gen, exists, schedule, stored>>
files == <<dir, wrapper, plan, report>>
memory == <<settled, dirty, survivor>>
counts == <<requests, firings>>

NoPlan == [gen |-> 0, at |-> 0]
Plans == [gen : 0..MaxChanges, at : 0..MaxChanges]
NoTask == [limit |-> "none", at |-> 0, gen |-> 0]
Idle == [kind |-> "none", step |-> "none", plan |-> NoPlan, good |-> FALSE, alone |-> TRUE]
NotRunning == [step |-> "idle", gen |-> 0, attached |-> FALSE, plan |-> NoPlan,
               fresh |-> FALSE, told |-> FALSE, excuse |-> FALSE, killed |-> FALSE]

InstallSteps == {"connect", "plan", "wrapper", "create", "clamp", "validate"}
RemovalSteps == {"connect", "unregister", "remove"}

Requests ==
  [kind : {"none", "install", "uninstall", "delete"},
   step : {"none"} \union InstallSteps \union RemovalSteps,
   plan : Plans, good : BOOLEAN, alone : BOOLEAN]
Tasks ==
  [limit : {"none", "72 hours", "30 minutes"}, at : 0..MaxChanges, gen : 0..MaxChanges]
NightlyRuns ==
  [step : {"idle", "backup", "copy", "message", "watchdog"},
   gen : 0..MaxChanges, attached : BOOLEAN, plan : Plans,
   fresh : BOOLEAN, told : BOOLEAN, excuse : BOOLEAN, killed : BOOLEAN]

TypeOK ==
  /\ now \in 0..MaxChanges /\ gen \in 0..MaxChanges
  /\ exists \in BOOLEAN /\ stored \in BOOLEAN /\ comma \in BOOLEAN
  /\ schedule \in {"good", "refused", "empty"}
  /\ op \in [Handlers -> Requests]
  /\ task \in Tasks
  /\ dir \in BOOLEAN /\ wrapper \in BOOLEAN
  /\ plan \in Plans /\ report \in 0..MaxChanges
  /\ run \in [Runs -> NightlyRuns]
  /\ settled \in BOOLEAN /\ dirty \in BOOLEAN /\ survivor \in BOOLEAN
  /\ requests \in 0..MaxRequests /\ firings \in 0..MaxFirings
  /\ troubles \in 0..MaxTroubles

Init ==
  /\ now = 0 /\ gen = 0 /\ exists = FALSE /\ schedule = "empty" /\ stored = TRUE
  /\ op = [h \in Handlers |-> Idle]
  /\ task = NoTask
  /\ dir = FALSE /\ wrapper = FALSE /\ plan = NoPlan /\ report = 0
  /\ run = [r \in Runs |-> NotRunning]
  /\ comma \in BOOLEAN
  /\ settled = FALSE /\ dirty = FALSE /\ survivor = FALSE
  /\ requests = 0 /\ firings = 0 /\ troubles = 0

-----------------------------------------------------------------------------
(***************************************************************************)
(* Changes of the panel's rows                                             *)
(***************************************************************************)

\* Any edit of what a plan is built from leaves the frozen copy behind.
Changed ==
  /\ now < MaxChanges
  /\ now' = now + 1
  /\ settled' = FALSE
  /\ UNCHANGED <<op, task, files, run, comma, dirty, survivor, counts, troubles>>

CreateConfig ==
  /\ ~exists
  /\ exists' = TRUE /\ gen' = gen + 1
  /\ schedule' \in {"good", "refused", "empty"}
  /\ stored' = TRUE
  /\ Changed

\* Saving touches the row only: an emptied schedule leaves its task firing.
EditConfig ==
  /\ exists
  /\ schedule' \in {"good", "refused", "empty"}
  /\ stored' = TRUE
  /\ UNCHANGED <<gen, exists>>
  /\ Changed

\* The destinations name the storage by id and are not told that it is gone.
EditOrDeleteStorage ==
  /\ exists /\ stored
  /\ stored' \in BOOLEAN
  /\ UNCHANGED <<gen, exists, schedule>>
  /\ Changed

-----------------------------------------------------------------------------
(***************************************************************************)
(* Requests                                                                *)
(***************************************************************************)

Busy == {h \in Handlers : op[h].kind # "none"}
Goto(h, step) == op' = [op EXCEPT ![h].step = step]
Answer(h) == op' = [op EXCEPT ![h] = Idle]
Trouble == troubles < MaxTroubles /\ troubles' = troubles + 1

\* _build_remote_plan resolves the config and its storage's secrets at once.
\* An empty or garbled schedule, or a storage that is gone, ends an install
\* before anything was sent.
FrozenPlan == [gen |-> gen, at |-> now]
Installable == schedule # "empty" /\ stored

BeginRequest(h) ==
  /\ op[h].kind = "none" /\ exists
  /\ requests < MaxRequests
  /\ requests' = requests + 1
  /\ \E k \in {"install", "uninstall", "delete"} :
       /\ k = "install" => Installable
       /\ op' = [g \in Handlers |->
            IF g = h
            THEN [kind |-> k, step |-> "connect", plan |-> FrozenPlan,
                  good |-> schedule = "good", alone |-> Busy = {}]
            ELSE IF g \in Busy THEN [op[g] EXCEPT !.alone = FALSE] ELSE op[g]]
  /\ settled' = FALSE
  /\ UNCHANGED <<row, task, files, run, comma, dirty, survivor, firings, troubles>>

\* Scripts whose hash differs are sent again; then the directory is made.
Connect(h) ==
  /\ op[h].step = "connect"
  /\ IF op[h].kind = "install"
     THEN Goto(h, "plan") /\ dir' = TRUE
     ELSE Goto(h, "unregister") /\ UNCHANGED dir
  /\ UNCHANGED <<row, task, wrapper, plan, report, run, comma, memory, counts, troubles>>

PutPlan(h) ==
  /\ op[h].step = "plan" /\ dir
  /\ plan' = op[h].plan
  /\ Goto(h, "wrapper")
  /\ UNCHANGED <<row, task, dir, wrapper, report, run, comma, memory, counts, troubles>>

PutWrapper(h) ==
  /\ op[h].step = "wrapper" /\ dir
  /\ wrapper' = TRUE
  /\ Goto(h, "create")
  /\ UNCHANGED <<row, task, dir, plan, report, run, comma, memory, counts, troubles>>

\* schtasks /create /f: replaces the task, with the default limit of 72 hours.
CreateTask(h) ==
  /\ op[h].step = "create" /\ op[h].good
  /\ task' = [limit |-> "72 hours", at |-> op[h].plan.at, gen |-> op[h].plan.gen]
  /\ Goto(h, "clamp")
  /\ UNCHANGED <<row, files, run, comma, memory, counts, troubles>>

\* Mutant of ClampTask: the limit is taken away.
UnclampTask(h) ==
  /\ op[h].step = "clamp" /\ task.limit # "none"
  /\ task' = [task EXCEPT !.limit = "no limit"]
  /\ Goto(h, "validate")
  /\ UNCHANGED <<row, files, run, comma, memory, counts, troubles>>

\* Set-ScheduledTask may end with exit code 0 and have changed nothing.
ClampTask(h) ==
  /\ op[h].step = "clamp" /\ task.limit # "none"
  /\ \/ task' = [task EXCEPT !.limit = "30 minutes"] /\ UNCHANGED troubles
     \/ Trouble /\ UNCHANGED task
  /\ Goto(h, "validate")
  /\ UNCHANGED <<row, files, run, comma, memory, counts>>

\* Mutant of Validated: any task of that name will do.
TaskFound == task.limit # "none"

\* The XML of the task that is there now, whichever install made it.
Validated == task.limit = "30 minutes"

ValidateTask(h) ==
  /\ op[h].step = "validate" /\ Validated
  /\ settled' = (op[h].alone /\ op[h].plan.at = now)
  /\ Answer(h)
  /\ UNCHANGED <<row, task, files, run, comma, dirty, survivor, counts, troubles>>

\* Any error is shown as a toast; what was done until then stays done.
InstallFails(h) ==
  /\ op[h].kind = "install"
  /\ \/ Trouble
     \/ /\ UNCHANGED troubles
        /\ \/ op[h].step \in {"plan", "wrapper"} /\ ~dir
           \/ op[h].step = "create" /\ ~op[h].good
           \/ op[h].step = "clamp" /\ task.limit = "none"
           \/ op[h].step = "validate" /\ ~Validated
  /\ Answer(h)
  /\ UNCHANGED <<row, task, files, run, comma, memory, counts>>

RunsUnderWaySurvive ==
  survivor' = (survivor \/ \E r \in Runs : run[r].step # "idle")

\* Mutant of Unregister: only the files are removed.
SkipUnregister(h) ==
  /\ op[h].step = "unregister"
  /\ Goto(h, "remove")
  /\ UNCHANGED <<row, task, files, run, comma, memory, counts, troubles>>

\* Unregister-ScheduledTask -ErrorAction SilentlyContinue, its exit code not
\* looked at; an instance of the task that is running goes on.
Unregister(h) ==
  /\ op[h].step = "unregister"
  /\ \/ /\ task' = NoTask
        /\ run' = [r \in Runs |-> [run[r] EXCEPT !.attached = FALSE]]
        /\ RunsUnderWaySurvive
        /\ UNCHANGED <<dirty, troubles>>
     \/ Trouble /\ dirty' = TRUE /\ UNCHANGED <<task, run, survivor>>
  /\ Goto(h, "remove")
  /\ UNCHANGED <<row, files, comma, settled, counts>>

\* The row goes whether its schedule could be removed or not.
EndRemoval(h) ==
  /\ exists' = (exists /\ op[h].kind # "delete")
  /\ settled' = FALSE
  /\ Answer(h)

\* Mutant of RemoveFiles: the folder keeps its last report.
RemovePlanAndWrapper(h) ==
  /\ op[h].step = "remove"
  /\ wrapper' = FALSE /\ plan' = NoPlan
  /\ dirty' = (dirty \/ ~op[h].alone)
  /\ RunsUnderWaySurvive
  /\ EndRemoval(h)
  /\ UNCHANGED <<now, gen, schedule, stored, task, dir, report, run, comma,
                 counts, troubles>>

\* The folder goes under the feet of a run that is under way.
RemoveFiles(h) ==
  /\ op[h].step = "remove"
  /\ \/ /\ dir' = FALSE /\ wrapper' = FALSE /\ plan' = NoPlan /\ report' = 0
        /\ dirty' = (dirty \/ ~op[h].alone)
        /\ RunsUnderWaySurvive
        /\ UNCHANGED troubles
     \/ Trouble /\ dirty' = TRUE /\ UNCHANGED <<files, survivor>>
  /\ EndRemoval(h)
  /\ UNCHANGED <<now, gen, schedule, stored, task, run, comma, counts>>

RemovalFails(h) ==
  /\ op[h].kind \in {"uninstall", "delete"}
  /\ Trouble
  /\ dirty' = TRUE
  /\ EndRemoval(h)
  /\ UNCHANGED <<now, gen, schedule, stored, task, files, run, comma, survivor, counts>>

Install(h) ==
  \/ Connect(h) \/ PutPlan(h) \/ PutWrapper(h)
  \/ CreateTask(h) \/ ClampTask(h) \/ ValidateTask(h) \/ InstallFails(h)

Remove(h) == Unregister(h) \/ RemoveFiles(h) \/ RemovalFails(h)

-----------------------------------------------------------------------------
(***************************************************************************)
(* Nightly runs                                                            *)
(***************************************************************************)

Step(r, step) == run' = [run EXCEPT ![r].step = step]
Over(r, told) == run' = [run EXCEPT ![r] = [@ EXCEPT !.step = "idle", !.told = told]]
Excused(r) == run' = [run EXCEPT ![r] = [@ EXCEPT !.step = "idle", !.excuse = TRUE]]
Quiet == UNCHANGED <<row, op, task, comma, memory, requests>>

\* A second instance is not started while one of the same task runs.
Fire(r) ==
  /\ task.limit # "none" /\ wrapper
  /\ run[r].step = "idle"
  /\ \A s \in Runs : run[s].step = "idle" \/ ~run[s].attached
  /\ firings < MaxFirings
  /\ firings' = firings + 1
  /\ run' = [run EXCEPT ![r] = [NotRunning EXCEPT !.step = "backup", !.gen = task.gen,
                                               !.attached = TRUE]]
  /\ UNCHANGED <<files, troubles>> /\ Quiet

\* The file is younger than the start of every run that is under way.
\* Write-Utf8 makes the folder again if it is gone.
Report(r, step, by, sorry) ==
  /\ dir' = TRUE /\ report' = by
  /\ run' = [s \in Runs |->
       IF s = r THEN [run[s] EXCEPT !.step = step, !.fresh = TRUE, !.excuse = sorry \/ @]
       ELSE IF run[s].step # "idle" THEN [run[s] EXCEPT !.fresh = TRUE]
       ELSE run[s]]
  /\ UNCHANGED <<wrapper, plan, firings, troubles>>

ReadPlan(r) ==
  /\ run[r].step = "backup" /\ plan # NoPlan
  /\ run' = [run EXCEPT ![r] = [@ EXCEPT !.step = "copy", !.plan = plan]]
  /\ UNCHANGED <<files, firings, troubles>> /\ Quiet

\* A plan that cannot be read ends the run with a report and no message.
PlanUnreadable(r) ==
  /\ run[r].step = "backup" /\ plan = NoPlan
  /\ Report(r, "watchdog", run[r].gen, TRUE) /\ Quiet

WriteReport(r) ==
  /\ run[r].step = "copy"
  /\ Report(r, "message", run[r].plan.gen, FALSE) /\ Quiet

\* The message of a run; one that does not get through is only logged.
SendMessage(r) ==
  /\ run[r].step = "message"
  /\ \/ UNCHANGED troubles
        /\ run' = [run EXCEPT ![r] = [@ EXCEPT !.step = "watchdog", !.told = TRUE]]
     \/ Trouble
        /\ run' = [run EXCEPT ![r] = [@ EXCEPT !.step = "watchdog", !.excuse = TRUE]]
  /\ UNCHANGED <<files, firings>> /\ Quiet

\* backup.ps1 dies: the wrapper goes on to its last line.  Once the report
\* is written, nobody will send the message.
ScriptDies(r) ==
  /\ run[r].step \in {"backup", "copy", "message"}
  /\ Trouble
  /\ run' = [run EXCEPT ![r] = [run[r] EXCEPT !.step = "watchdog",
                                              !.excuse = run[r].excuse \/ run[r].step = "message"]]
  /\ UNCHANGED <<files, firings>> /\ Quiet

\* Mutant of FreshReport: the file need only be there.
AnyReport(r) == report # 0

\* last_report.json is younger than the start of the wrapper, whoever wrote it.
FreshReport(r) == report # 0 /\ run[r].fresh

\* cmd.exe reads its next line from trigger.cmd; with a comma in the start
\* time watchdog.ps1 lacks its mandatory argument.
Watchdog(r) ==
  /\ run[r].step = "watchdog"
  /\ \/ /\ ~wrapper \/ comma \/ FreshReport(r) \/ plan = NoPlan
        /\ Over(r, run[r].told)
        /\ UNCHANGED troubles
     \/ /\ wrapper /\ ~comma /\ ~FreshReport(r) /\ plan # NoPlan
        /\ \/ Over(r, TRUE) /\ UNCHANGED troubles
           \/ Trouble /\ Excused(r)
  /\ UNCHANGED <<files, firings>> /\ Quiet

\* The time limit is that of the task, so it ends trigger.cmd, and the
\* watchdog line in it is never reached.
TimeLimit(r) ==
  /\ run[r].step # "idle"
  /\ Trouble
  /\ run' = [run EXCEPT ![r] = [@ EXCEPT !.step = "idle", !.killed = TRUE]]
  /\ UNCHANGED <<files, firings>> /\ Quiet

Nightly(r) ==
  \/ Fire(r) \/ ReadPlan(r) \/ PlanUnreadable(r) \/ WriteReport(r) \/ SendMessage(r)
  \/ ScriptDies(r) \/ Watchdog(r) \/ TimeLimit(r)

-----------------------------------------------------------------------------
Next ==
  \/ CreateConfig \/ EditConfig \/ EditOrDeleteStorage
  \/ \E h \in Handlers : BeginRequest(h) \/ Install(h) \/ Remove(h)
  \/ \E r \in Runs : Nightly(r)

Spec == Init /\ [][Next]_vars

-----------------------------------------------------------------------------
(***************************************************************************)
(* Properties                                                              *)
(***************************************************************************)

\* When an install has answered ok, no request ran beside it or began since
\* and nothing has changed since it read the rows, then the server has the
\* task with its limit, the wrapper it calls and the plan of those rows.
SettledInstallIsLive ==
  settled =>
    /\ task.limit = "30 minutes" /\ task.at = now
    /\ dir /\ wrapper
    /\ plan = FrozenPlan

\* A task outlives the row it was made for only if a removal failed (which
\* is answered like one that worked) or another request ran beside it.
OrphanTaskExplained ==
  (task.limit # "none" /\ (~exists \/ task.gen # gen)) => dirty

\* The report that the panel would import for a row was written for that
\* row, unless a removal failed, ran beside another request, or passed by a
\* run that was under way and wrote its report all the same.
ForeignReportExplained ==
  (exists /\ report \notin {0, gen}) => dirty \/ survivor

\* A run that comes to its end and has told nobody lost its message, died
\* after its report, misses its wrapper or plan, runs where the watchdog
\* cannot start, or was taken for a run that survived a removal.  It is about
\* runs that end by themselves; KilledRunIsReported is about the others.
SilenceExplained ==
  [][\A r \in Runs :
       (run[r].step # "idle" /\ run'[r].step = "idle" /\ ~run'[r].killed) =>
         \/ run'[r].told
         \/ run'[r].excuse \/ ~wrapper \/ plan = NoPlan \/ comma \/ survivor]_vars

\* What the comments in backup_service.py and watchdog.ps1 say of the time
\* limit: a run that it kills before it has written a report is reported by
\* Telegram, here with an undisturbed install and a watchdog that can start.
KilledRunIsReported ==
  [][\A r \in Runs :
       (run[r].step \in {"backup", "copy"} /\ run'[r].killed
        /\ settled /\ ~comma /\ ~FreshReport(r)) => run'[r].told]_vars
=============================================================================
