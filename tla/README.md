# serverpanel in TLA+

serverpanel is a FastAPI application that installs, backs up and restores
Windows (and Linux) servers over SSH, through the Hetzner Robot API and a
Hetzner Storage Box. It is one process with one asyncio loop and a SQLite
database; a second program, `backup.ps1`, runs on the servers, started by the
panel or by their Task Scheduler. This directory models the parts of it whose
correctness depends on the order of things: history rows and the tasks behind
them, reports written by one program and judged by another, files that several
runs share, a sync that reads what it did not write, a server that several jobs
wipe and rebuild, a schedule that lives on after the row it was made for, and
rows that several writers insert.

Paths below are relative to `src/src/serverpanel/`.

## 1. Inventory

| Component | State | Operations | Interacts with |
|---|---|---|---|
| Supervised runs: `presentation/background.py`, `routers/{install,recovery,backups}.py`, `infrastructure/database/engine.py` | `install_history`, `recovery_history`, `backup_history`; one asyncio task per run | start, guard, insert, commit, spawn; load, begin, verdict, failure, report; delete; startup sweep | services (call), database (sessions of the request and of the task) |
| Backup script: `application/static/scripts/backup.ps1` | `$results`, staging, `report.json`, `progress.json`, Storage Box | read plan, per destination copy items, rotate, write report, Telegram | the panel through plan and report files |
| Manual runs: `BackupService.run` | `plan.json`, `report.json` of the server | upload, launch and stream, fetch report, apply report | backup.ps1, SSH client, supervised runs |
| Scheduled import: `sync_reports_from_server`, `main._backup_sync_loop`, `/sync` | `last_report.json` per config, `backup_history` | list, fetch, dedupe, insert, commit | two kinds of sessions on one SQLite file |
| Schedule lifecycle: `install_schedule`, `_validate_scheduled_task`, `uninstall_schedule`, `watchdog.ps1`, config and storage pages | config row, scheduled task, frozen plan, wrapper, `last_report.json` | create, edit, delete, install, validate, uninstall, trigger, watchdog | Task Scheduler, backup.ps1, SQLite's row ids |
| Recovery and install phases: `recovery_service.py`, `install_service.py`, `scripts/recovery/*` | rescue system, disk, status file on the Storage Box, pinned host key | 11 and 12 ordered phases, polling | Robot API, SSH, Storage Box, the operator's reset and rescue buttons |
| Live progress: `fetch_live_progress`, `domain/backup_progress.py`, the polling endpoint | `progress.json`, the bytes in the row | tick, heartbeat, poll, stall test | script, page |
| Rotation: `backup.ps1` 287-301, 499-526, 591-637, `domain/rotation.py` | date folders on disks and on the Storage Box | purge, copy, list, remove | all plans that share a base path |
| Fleet: `routers/{auth,servers,storages}.py`, the commands of `main.py`, `importers/hetzner_recovery.py` | `users`, `provider_configs`, `servers`, `storage_configs`, the encryption key | register, add, edit, rediscover, seed, import, repair, storage edits | Robot API between reading and writing; two processes on one SQLite file |
| SSH client: `infrastructure/ssh/client.py` | pinned host key | connect, execute, stream, put, fetch | all services |
| WebSocket rooms: `websocket.py`, `progress.py` | connected pages | broadcast of log lines and phases | services, browser |
| Login, rate limits, CSRF | sessions, buckets | local to a request or an address | |
| Dashboard and settings pages; self-backup; Robot and Storage Box adapters; crypto, migrations, config; catalogs, i18n | rows, static tables | reads, single columns, wrappers | |

What is hard, component by component, and what makes it correct:

* **Supervised runs.** Every commit can fail, a process can die between any
  two of them, a row can be deleted under its task. Correct means: a row shown
  as running has a task; a task that ended left a verdict; a reported success
  stands; once the remote work of a run is over its row ends.
* **Script and verdicts.** Two programs aggregate the same destinations.
  Correct means: neither claims more than happened, and they agree.
* **Manual runs.** Shared files, scripts that outlive their connection.
  Correct means: a run executes its own plan and is judged by its own report.
* **Scheduled import.** A cached, overwritten report, a dedupe against one row,
  sessions that hold the write lock across awaits. Correct means: imported rows
  follow the runs, none twice, and a report arrives.
* **Schedule.** Seven commands over SSH, any of which can fail, beside edits
  and deletions of the row they were built from, and an id that SQLite gives
  out again. Correct means: an ok stands for a task that runs the current plan
  within its limit; what is left on a server after its row is gone has a known
  cause; a nightly run that tells nobody anything has one too.
* **Recovery and install.** Nothing locks a machine: two jobs, the operator's
  buttons and a slow reset meet in one rescue activation. Correct means: a disk
  is written only by a job in its own rescue system, success is earned, a stale
  pinned key is explained, and a job ends unless a call of its own never returns.
* **Live progress.** Two writers of one file, a reader with another clock, a
  path that is another run's. Correct means: no false alarm, no invented
  bytes, the page shows its own run's, no dead run is shown as running for ever.
* **Rotation** (not modelled yet). Folders are removed by a date alone. Correct
  means: what a row calls a success is there as long as its plan keeps it, and
  what is due goes.
* **Fleet.** Nothing in the schema makes a machine's row unique and every writer
  waits or runs in another process between looking and writing. Correct means:
  rows stand for machines one for one, there is one first administrator,
  stored credentials were tried, and an edit loses no secret.

`PROJECT.json` lists every component with its status and every hazard at its
line, with the property that covers it or the reason none does.

## 2. Modules

| Module | What it is |
|---|---|
| `JobLedger` | abstract: what a reader of the database may see happen to a history row |
| `JobRuns` | detailed: handlers, supervised tasks, failing commits, crash, boot, sweep |
| `BackupScript` | one run of `backup.ps1`, its report and message, the panel's verdict |
| `ManualRuns` | several manual runs sharing a server's plan and report files |
| `ImportLog` | abstract: how the history of a config may grow |
| `ScheduledSync` | the sync loop and the sync button over several servers |
| `DiskClaim` | abstract: who may wipe a machine's disk and lay an OS on it |
| `ServerRebuild` | installs, recoveries and SSH sessions that share one machine |
| `Schedule` | one config's schedule, its requests and its nightly runs |
| `LiveProgress` | `progress.json` from the script's ticks to what the page shows |
| `Fleet` | users, providers, servers and storages and their writers |
| `JobRunsProofs`, `BackupScriptProofs`, `ManualRunsProofs`, `ScheduledSyncProofs`, `ServerRebuildProofs`, `ScheduleProofs`, `LiveProgressProofs`, `FleetProofs` | theorems about those, and that three of them implement their abstract module |
| `MC...` | the instances TLC checks |

A step of a module is what the code does between two points where another
actor can get in: an await, a commit, a file operation, a process boundary.
Operators introduced by a comment "Mutant of" are deliberately wrong
variants of the definition that follows them; no specification uses them. They
are there so that each property can be seen to fail when the code is changed.

### JobRuns

`row`, `req` and `task` say where the history row, the HTTP handler and the
asyncio task of each job are. `Admit` reads the guard before the form is
awaited; `Insert` is add and flush, and for an install the spawn too, because
`start_install` has no await between the two; `CommitRow` is the explicit commit
of `run_backup` and `recovery_start` and the implicit one of `get_db` for
installs. The task loads its row in its own session (`Load`), begins, reaches a
verdict or raises, and commits what its service commits after the verdict
(`Close`). `WriteFails` is any of those commits failing, by a database error or
because the row was deleted; `AfterFailedWrite` says which except branch the
exception reaches. A recovery's error log line after its failed status is folded
into the `Close` step. Progress and log commits between phases leave the status
alone and are not steps; their failure is `Raise`. `Report` and `ReportFails`
are the supervisor's except and finally branches. `Crash` ends every
handler, task and open transaction, `Boot` and `CleanupStaleRuns` are the lifespan
startup. The startup sweep is atomic, one transaction; a crash before it is a
crash while booting. A sweep that fails ends the startup, which is again `Crash`.

`JobLedger` is what another session sees of it (`Visible` hides rows that are
flushed and not committed): a row is created, begun and decided, the verdict of a
recovery or a backup that succeeded stands, an install's may be given up, only a
backup can end partial, and only a backup's row can be deleted.

### BackupScript

Of a destination only its kind and the set of its items' statuses matter.
`ItemStatus` says what a whole, short, failing or unsourced copy is recorded as,
by kind of destination and type of source. `DestStatus`, `Overall` (the message)
and `Aggregate` (the row) are the three aggregations; `Raises` is the TypeError
of joining a null error. A scheduled run's row comes from `Sync`, a manual
run's from `ReadReport` or `LoseConnection`. Retried synchronisation and
the dedupe are in `ScheduledSync`.

### ManualRuns

Runs of all configs of one server, since `plan.json` and `report.json` are the
server's. Opening a file for writing empties it first, so both files can be
found torn. `LoseConnection` is a stream that breaks and is told of it;
`FallSilent` is one that carries nothing any more while `execute_stream` goes on
polling it (`mute`). `overlapped` is a history variable: the runs during which another
run, or a script that outlived its connection, was busy.

### ScheduledSync

A syncer is the loop or the request of one click. `Judge` is the query for the
latest row, which first flushes the rows added so far and so takes SQLite's
write lock; `LockedOut` is the busy timeout expiring. `Hang` is
an SSH call that never returns (`hung`): `execute` and the SFTP reads wait
where no timeout reaches them. The exceptions' paths are
those of the code: the loop goes on to the next server with the same session,
the button's handler swallows the exception and `get_db` commits. A run is
named by a number per config that grows with time, as run ids (timestamps) do.
`raced` is a history variable: servers that two sessions worked on at a time.

`ImportLog` forgets the sessions, the lock and the reports: a transaction adds at
most one row per config, of a run that has reported, and in the order of the
runs unless two syncs contest the server. `Log` maps to it.

### ServerRebuild

Each job has a phase `pc`, its session `sess` and `copy`, the pinned key it loaded
with its row; one phase is one step, from the Robot's rescue activation to the
login into the new OS or to the status file. The machine is four variables:
what is on its `disk`, what it is `running`, for whom `rescue` is activated, and
a reset that is accepted and still to come (`ShutDown`, `BootUp`). A login
compares what answers with what the job expects: the rescue password
(`RescueAccepts`), the image's own (`InstalledOsAccepts`), the panel's key
and the pin (`LetsIn`). Starting a rescue system or an OS cuts the sessions of
the one before, which shows in the next command. A command under way when its machine
goes down may never return (`Cut`), and one on a machine that is up may stall
(`Stall`, `stalled`). An install writes its verdict after it has closed its last
session (`PostInstall`, then `FinishInstall`), and a recovery writes the last files
into the new Windows before it deactivates the rescue system (`LayDownWindows`);
neither looks at the machine again. `ClickReset`, `ClickRescue` and
`ToggleRescue` are the operator's buttons; the rescue button reads the status and
writes later. A visit is any backup operation that connects. Commands whose exit
codes decide nothing are folded into their phase. `booted` is a history variable: the
OSes the machine has run.

`DiskClaim` keeps the disk, what the machine runs and who is inside. It has no
phases and no lock: a job that wipes the disk is alone in its own rescue system,
and the OS it lays down comes onto a disk it wiped in the session it still has.
`Claim` maps to it.

### Schedule

One config row (`exists`, `gen`, `schedule`), what is on the server under its
id, and requests in `op`, each a list of steps with an SSH command between
any two. `now` counts what a plan is built from, `gen` the rows that had the id:
SQLite gives the id of a deleted last row to the next one. `FrozenPlan` is what an
install read. `ValidateTask` reads the task's XML back; `ClampTask` is the
`Set-ScheduledTask` whose failure nobody sees. A nightly run reads its plan, writes
its report, sends its message; then the wrapper starts the watchdog, which speaks
when the report is not fresh. `TimeLimit` ends script and wrapper, and with the
wrapper the line that would start the watchdog (`killed`). `settled`,
`dirty` and `survivor` are history variables.

### LiveProgress

The nightly script writes ticks from its main thread while its heartbeat job reads
the file and writes it back with a new stamp in a second step
(`HeartbeatReads`, `HeartbeatWrites`). It ticks when a storage begins, before each
source and after it. A manual run's own file lies elsewhere, so a
poll of its page finds the nightly one's or none (`PolledPath`). A poll is asked,
fetched and answered in three steps, the last of which stores the bytes and
judges the age of the stamp; it may fail or hang at the fetch (`PollFails`, `PollHangs`). `Pass` is time, in units of which the constants give
the period, the threshold, the clocks' difference and the delay of a request.
`reached` is a history variable.

### Fleet

The tables are sequences of rows. A web request begins (reads, tries the
credentials against the Robot), waits and writes; `Rediscover` reads its rows
before and after. A command of the command line is one step, since it holds
SQLite's write lock from its first write on, and what a request of the panel
writes between its first read and that write is the same as before the command;
the requests it comes between are `raced`. That holds for `SyncFromRobot` too, which
waits for the Robot between reading a row and writing it: it reads the row's
address and writes the number of that address, and no writer gives a row
another address or a numbered row another machine's, so what comes in between
changes nothing it writes. `PutProvider` and `PutStorage` are the importer's upserts, `Unnumbered` the
rows an import may find by address only. `raced`, `careless`, `nameless` and
`blind` are history variables: each is the circumstance that a property names.

## 3. Runs

| Run | Checks | Instance |
|---|---|---|
| `MCJobRuns` | `TypeOK`, `RunningHasTask`, `EndedIsReported`, `LedgerSpec`, `RunningEnds` | 5 jobs of the three kinds, 2 servers, 2 starts, 2 failed commits, 1 crash |
| `MCJobRunsGuard` | `OneRecoveryPerServer` is violated | same |
| `MCBackupScript` | `TypeOK`, `AlertNotTooGood`, `RowNotTooGood`, `VerdictMatchesAlert`, `Imported` | up to 4 destinations |
| `MCManualRuns` | `TypeOK`, `VerdictIsOwn`, `ExecutesOwnPlan`, `ScriptEndEndsRun` | 3 runs, 1 silent stream |
| `MCScheduledSync` | `TypeOK`, `HistoryFollowsRuns`, `ImportSpec`, `LockReleased`, `Arrives` | 3 configs on 2 servers, loop and 1 click, 2 scheduled and 1 manual run, 1 SSH call that fails or hangs |
| `MCScheduledSyncDup` | `NoDuplicateImport` is violated | same, no click, no SSH error |
| `MCServerRebuild` | `TypeOK`, `InstallTruth`, `RecoveryTruth`, `SuccessNeedsBothSecrets`, `StalePinHasACause`, `DiskClaimSpec`, `JobsEnd` | 2 jobs of any kind, 1 trouble |
| `MCSchedule` | `TypeOK`, `SettledInstallIsLive`, `OrphanTaskExplained`, `ForeignReportExplained`, `SilenceExplained` | 2 handlers, 2 runs, 2 changes, 3 requests, 2 firings, 1 trouble |
| `MCScheduleKill` | `KilledRunIsReported` is violated | same |
| `MCLiveProgress` | `TypeOK`, `NoFalseStall`, `BytesWereSent`, `PageMovesOn` | 2 polls, 1 byte, period 1, delay 1, threshold 2, 1 trouble |
| `MCLiveProgressOwn` | `BytesAreOwn` is violated | same |
| `MCFleet` | `TypeOK`, `RowsFitMachines`, `SecondAdminExplained`, `BadCredsExplained`, `SecretKept` | 2 users, 2 machines of which one has no address, 2 handlers, at most 2 providers, 3 servers and 2 storages, 4 acts |

Why the bounds are enough to see the interesting cases. *JobRuns*: jobs
interact only through the guard (two starts on one server), and a verdict can be
overturned by one failed commit, with a second one in the handler of the first;
one crash meets every combination of places two jobs can be in. The theorems
below remove the bounds for safety. *BackupScript*: the join of errors looks at
the first three failed destinations, so a fourth is the first one it leaves out.
*ManualRuns*: a victim, a run whose files it inherits, and a third one that
interferes; a silent stream concerns no run but its own, so one is enough. *ScheduledSync*: two configs on one server for the flush of the
first row by the query for the second, a second server for what a failed sync
leaves in the session.

*ServerRebuild*: the shared things hold one value each, so what a job meets is the
last writer's; two jobs give every pair of kinds in every overlap, and one
trouble lets either of them stop anywhere. *Schedule*: two requests that overlap
and a third that follows, two generations of a row, two runs of which one
outlives a removal. *LiveProgress*: one byte more or less is what the count can be
wrong by; the threshold is the least that the assumption allows. *Fleet*: two
machines for a number at the wrong address, two users for two administrators,
and four acts for a row that is stored by half, completed, imported again and
rediscovered.

`VerdictMatchesAlert` says exactly where message and row part on a run the panel saw
through; `LedgerSpec`, `ImportSpec` and `DiskClaimSpec` are the abstract
specifications, checked as properties of the detailed ones.

The safety properties of every passing run are proved below without these bounds.
Symmetry is used where the properties are safety ones only (`MCSchedule`,
`MCFleet`).

Deadlock checking is off except in `MCLiveProgress`, where a script can always run
again: elsewhere jobs, clicks, runs and acts are finitely many, so every
instance ends.

### Findings

* `MCJobRunsGuard`: the guard "already running" looks at rows with status
  `running`; a row is `pending` until its task begins, so two quick clicks start
  two recoveries of one server, against `engine.py` 81-82.
* `MCScheduledSyncDup`: the dedupe looks at the latest row only; a manual run
  makes an imported report look new, against the docstring of
  `sync_reports_from_server` and `docs/OPERATIONS.md` 163.
* `MCScheduleKill`: the time limit of the task ends its action, `trigger.cmd`, whose
  second line is the watchdog: a run it kills is reported by nobody, after an
  install that nothing disturbed. `backup_service.py` 55-58, 509-512 and 549-551,
  `watchdog.ps1` 3-8, `docs/HISTORY.md` 60-62 and `docs/OPERATIONS.md` 222 promise a message.
* `MCLiveProgressOwn`: the panel polls the `progress.json` of the schedule's directory,
  and a manual run's script writes its own one directory up, so the row of a
  manual run gets a nightly run's bytes or none. `routers/backups.py` 399,
  `backup.ps1` 50, `models.py` 218 and `docs/HISTORY.md` 53-58 speak of the running backup's.

### Fairness

Nothing in the code makes a remote call return: `execute` waits in `recv_exit_status`,
`execute_stream` polls without a deadline, and the SFTP reads wait for their data:
the timeouts the callers pass reach none of them, and no keepalive is set. The modules of the callers have such calls,
and each liveness property says what one costs and promises the rest.

* `JobRuns`: weak fairness of each task except in its working body (`task[j] # "body"`),
  which is all remote work, of the reboot and of the sweep: asyncio runs
  what is ready. `RunningEnds` starts when the body is over, by itself or by a
  restart, and exempts a task that could not write its failure. No fairness for
  handlers, clicks, faults or crashes.
* `BackupScript`: the panel reads what there is to read; it is about one report, and what
  keeps the reading from happening is in `ScheduledSync` (`Hang`, `Stopped`). The
  script itself has no fairness: it may hang.
* `ManualRuns`: only `FetchReport`, once the stream has ended. A stream that fell
  silent never learns of it, and `ScriptEndEndsRun` excepts its run (`mute`).
* `ScheduledSync`: the loop (a `while True` that catches everything) and accepted
  requests, but not a syncer whose call hangs. `LockReleased` excepts a lock that such
  a one holds; `Arrives` excepts a hanging loop too (`Stopped`), and not a click that
  hangs without the lock. It needs no fairness of clicks or runs.
* `ServerRebuild`: each job's worker, as long as its session is not cut and no call of
  it is stalled; of others nothing is claimed (`Cut`, `stalled` in `JobsEnd`). Neither
  the machine nor the operator is fair: waits and polls have deadlines, which
  are looked at between two reads and so need the read to return.
* `LiveProgress`: each poll that does not hang, and time. The page's timer asks again
  whether the last answer has come or not, so a hanging poll does not stop the others;
  polls that all fail are bounded by the number of troubles. The scripts are not fair.
* `Schedule` and `Fleet` state no fairness and check safety only.

## 4. What is proved

`JobRunsProofs`, checked by TLAPS for any set of jobs and servers and any bounds
(`KindsAssumption`, `ServerAssumption`, `BoundsAssumption`: the three kinds are
disjoint, each job has a server, bounds are naturals):

| Theorem | Statement |
|---|---|
| `TypeCorrect` | `Spec => []TypeOK` |
| `InductiveInvariant` | `Spec => []IInv` |
| `NoOrphanRunning` | `Spec => []RunningHasTask` |
| `FailuresReported` | `Spec => []EndedIsReported` |
| `ImplementsLedger` | `Spec => LedgerSpec` |
| `SuccessIsKept` | `Spec => SuccessKept` |
| `RunsMoveOn` | `Spec => [][\A j \in Jobs : MovesOn(j)]_vars` |
| `UnreportedEndsExplained` | `Spec => OnlyEarlyLoadUnreported` |

None of the properties is inductive: that an ended task left a verdict depends on
what the row can hold while the task is at each earlier place. `IInv` is that
table, for each job: `RowFitsTask` gives the row's values for each place of the
task, `HandlerFits` ties the handler to both and says that nothing is alive while
the process is down. It speaks of one job at a time, so a step of another job
preserves it (`Frame`); the proof has one step per action and uses `OnlyOne` for
what an EXCEPT leaves alone. Refinement then maps each step to a step of
`JobLedger` or a stutter: the flush of an insert is invisible (`SeenNothing`), a
commit is one ledger step (`SeenSet`), a crash is a stutter, the sweep is
`Interrupt`. `RunsMoveOn` counts what a handler and a task have left (`RequestLeft`,
`TaskLeft`): no step of anybody adds to it, a step of their own takes from it.
`UnreportedEndsExplained` says where the guaranteed reporting has its gap:
an install whose task loads before the request's commit is the only task that can end
without a verdict in its row.

`ManualRunsProofs`, for any set of runs and number of silent streams (`RunsAssumption`: no run
is named like one of the markers `none`, `torn`, `unreadable`; `SilentAssumption`):

| Theorem | Statement |
|---|---|
| `ManualInvariant` | `Spec => []MInv` |
| `ManualTypes`, `OwnVerdict`, `OwnPlan` | `Spec => []TypeOK`, `[]VerdictIsOwn`, `[]ExecutesOwnPlan` |
| `VerdictsHaveAuthors` | `Spec => []VerdictHasAnAuthor` |
| `VerdictsStand` | `Spec => RunsOnlyAdvance` |

Type correctness is not inductive here: that a report names a plan that was
read needs a script at work to have read one. `MInv` adds `ScriptFits`
(the script's place for each place of the run), `Meeting` (two busy runs are both
overlapped) and `Alone` (what a run that met nobody finds in the files). A step
that touches a file is a step of a busy run, so by `Meeting` a lone busy run is
safe from it (`OtherStep`); its own steps are `OwnStep`. The last two also speak of runs
that overlap: a verdict is never a mixture of two reports but that of one script
that completed, with the plan it had read, and no report that comes late changes
it. A run that was alone takes an earlier run's report for its own exactly if its
script was killed before it wrote one.

`BackupScriptProofs`, for any number of destinations (`MaxDestsAssumption`):

| Theorem | Statement |
|---|---|
| `ScriptInvariant` | `Spec => []BInv` |
| `ScriptTypes`, `GreenMessageEarned`, `GreenRowEarned` | `Spec => []TypeOK`, `[]AlertNotTooGood`, `[]RowNotTooGood` |
| `TwoAggregationsAgree` | `Spec => []VerdictMatchesAlert` |
| `BetterCopyBetterVerdict` | `Overall` and `Aggregate` are monotone in the destinations |
| `PanelNoStricter` | `Aggregate` is never below `Overall`, and where it is above |
| `ItemsCountTheirWay` | `DestStatus` is monotone in failed and in successful items |

`BInv` says which report is there at each stage (`ReportFits`), what message and
row were computed from (`AlertFits`, `RowFits`), and that a copy a check caught
left a failed item or a marked destination (`Marked`), through the append of
the record (`Recorded`, `RecordStep`). The last three are about the operators alone,
for any sequence of destinations: `Rank` orders the statuses from failed to
success.

`ScheduledSyncProofs`, for any clicks, runs and faults and finitely many configs
(`ServerAssumption`, `LoopAssumption`, `SyncBoundsAssumption`: each config has a
server, there is a config, a click is not named like the loop or `nobody`):

| Theorem | Statement |
|---|---|
| `SyncInvariant` | `Spec => []SInv` |
| `SyncTypes`, `RowsFollowRuns` | `Spec => []TypeOK`, `[]HistoryFollowsRuns` |
| `ImplementsImportLog` | `Spec => ImportSpec` |
| `LockNeverOrphaned` | `Spec => []LockHasHolder` |
| `SyncsAreFinite` | `Spec => SyncsMoveOn` |

The order of the imported rows depends on what each session holds: `SInv` adds
`Walks` (it is at a config of its server), `PendingFits` and `HeldFits` (its
uncommitted rows and the report it is judging follow the committed ones),
`Apart` (one session per server that is not raced) and `Past` (nothing is known
of runs to come). `Advance` lists what a step may do to one session and one
config; each action implies it, and it preserves the invariant (`OrderStep`).

In the refinement of `ImportLog` a commit, the button's or the loop's, after one
server or after several failed ones, is one `Import`; a sync that meets another is
`Contest`; everything else stutters. Its guard is where `PendingFits` is needed:
the rows are fresh when they are committed and not only when they were judged.
`LockHasHolder` says that the write lock is never left without a session that will
commit or roll back, so the loop's lock is given up at the latest with its cycle.
What `HistoryFollowsRuns` leaves of the finding `MCScheduledSyncDup` is the corollary
`DuplicatesExplained`: a run has two rows only if a manual row lies between them or
two sessions met on its server. `SyncsMoveOn` bounds a sync by its measure `Work`, 2|Configs| + 5 steps.

`ServerRebuildProofs`, for any set of jobs in any overlap (`JobsAssumption`, `BoundAssumption`):

| Theorem | Statement |
|---|---|
| `RebuildInvariant` | `Spec => []RInv` |
| `RebuildTypes`, `RecoveryIsTrue`, `BothSecretsNeeded`, `StalePinExplained` | `Spec => []TypeOK`, `[]RecoveryTruth`, `[]SuccessNeedsBothSecrets`, `[]StalePinHasACause` |
| `ImplementsDiskClaim` | `Spec => DiskClaimSpec` |
| `InstalledOsHasRun` | `Spec => []InstallTruth` |
| `OnlyOwnRescueWrites` | `Spec => DiskWrittenFromOwnRescue` |
| `PhasesAreNotRepeated` | `Spec => PhasesMoveOn` |

`RInv` has one line per thing shared: `SessionFits` (an open session is in the job's
own rescue system or in what is on the disk; two jobs cannot both have the
former; and between the wipe and its OS the disk it works on is still wiped),
`DiskFits`, `BootFits` and `SystemFits` (the machine runs an OS of the disk only after
booting it, and an install that has logged in there did so to its own),
`SecretsFit` (a recovery past its `scp` has the private key),
`PinFits`, and for the status file `ReportFits`: a report that says done has a
`restore.ps1` that ended. Every phase of a job is one step of `DiskClaim` or a
stutter (`WorkerClaims`), and so is what the machine, the operator and a crash do.
`PhasesMoveOn` counts the phases a job has left. `InstallTruth` says that the OS an install
reports has been run, not that it still is: between the last command and the verdict
the other job or the operator may already be resetting the machine, and
nobody looks.

`ScheduleProofs`, for any handlers, runs and bounds (`BoundsAssumption`):

| Theorem | Statement |
|---|---|
| `ScheduleInvariant` | `Spec => []SInv` |
| `ScheduleTypes`, `SettledIsLive`, `NoUnexplainedOrphan`, `NoUnexplainedReport` | `Spec => []TypeOK`, `[]SettledInstallIsLive`, `[]OrphanTaskExplained`, `[]ForeignReportExplained` |
| `SilenceHasACause` | `Spec => SilenceExplained` |

`Installed` says what an install that nobody disturbed has put on the server at each
of its steps, `CleanRows` and `CleanReports` whose generation task, plan and report
are as long as no removal failed, `RunsFit` what a run under way has read.

`LiveProgressProofs`, for any polls, bytes and times with
`Period + MaxDelay + Skew <= Threshold` (`ThresholdAssumption`; 5 seconds against 120):

| Theorem | Statement |
|---|---|
| `LiveInvariant` | `Spec => []LInv` |
| `LiveTypes`, `NeverFalselyStalled`, `RowBytesWereSent` | `Spec => []TypeOK`, `[]NoFalseStall`, `[]BytesWereSent` |

`YoungWhileBeating` relates the age of the stamp to the heartbeat's timer,
`SentBefore` the bytes in the file and in the heartbeat's copy to those sent,
`PollFits` carries both to a poll that has fetched.

`FleetProofs`, for any users, handlers and bounds and finitely many machines
(`MachinesAssumption`, `BoundsAssumption`):

| Theorem | Statement |
|---|---|
| `FleetInvariant` | `Spec => []FInv` |
| `FleetTypes`, `RowsStandForMachines`, `SecondAdminRaced`, `TestedCredentials`, `SecretsStay` | `Spec => []TypeOK`, `[]RowsFitMachines`, `[]SecondAdminExplained`, `[]BadCredsExplained`, `[]SecretKept` |

`FInv` adds that numbers fit addresses, that without a named circumstance the
rows of a provider have addresses of their own (`OwnAddresses`), that only one
request is at work unless `raced` (`OneBusy`) and that what it read is still there
(`KnownRows`). `Grows` says what any writer may do to the rows (append some for a
provider that has none at their address, complete some in place); each of the five
writers is shown to do no more, and the invariant to survive it.

Only model-checked: liveness (`RunningEnds`, `Imported`,
`ScriptEndEndsRun`, `LockReleased`, `Arrives`, `JobsEnd`, `PageMovesOn`): liveness
under fairness and ENABLED are out of TLAPS's reach. `RunsMoveOn`, `VerdictsStand`,
`SyncsAreFinite` and `PhasesAreNotRepeated` prove the half of it that is safety:
what has to end is a bounded number of steps that nothing adds to. That those steps
are possible and taken is what the runs check. Out of reach too are induction over
data and RECURSIVE operators; no module uses them.

## 5. Plan

Done: `JobLedger`, `JobRuns`, `BackupScript`, `ManualRuns`, `ImportLog`,
`ScheduledSync`, `DiskClaim`, `ServerRebuild`, `Schedule`, `LiveProgress`, `Fleet`,
and the theorems above.

What would come next, in this order:

1. For `Schedule`, `LiveProgress` and `Fleet` what the other modules have: an abstract
   specification of the rows and tasks a config leaves behind and of the tables'
   growth, with the refinement proved, and the bounds on what a request, a
   poll and a script have left to do.
2. `Retention`: the day folders of a destination, the purge before a copy, the
   listing and the removals, for overlapping runs and for plans that share a base
   path. Property: a copy that was reported stays for the days its plan keeps,
   unless its target was written to again or a shorter plan shares its base path.
3. An abstract specification of a nightly backup (each night ends in a message, a
   row, or a named silence) that `BackupScript`, `Schedule` and `ScheduledSync`
   together implement.
4. The WebSocket rooms beside the row they mirror, and the rate limiter's buckets.
5. Three jobs in `ServerRebuild` and three handlers in `Schedule`.

## 6. Not modelled

* Text, layout, translations, catalogs and log lines; the WebSocket rooms, which
  carry what the row already says to pages that are open.
* Cryptography, CSRF tokens, sessions and the rate limiter, local to a request or an
  address; of the encryption key only whether it opens a secret (`Fleet`).
* Dashboard, status, wake-on-LAN, settings and the panel's self-backup, which read,
  or write one column or one file.
* Inside the Robot and Storage Box adapters: HTTP retries, parsing, and the SFTP
  operations nobody calls. What their callers see is an outcome of a step.
* Alembic's migrations and the settings object.
* Rotation: which folders go is a comparison of dates (`domain/rotation.py` and its
  unit tests pin it) and changes no verdict, message or row. A run that takes more
  days than its plan keeps removes its own copy, a rerun that fails has already
  removed the copy of its day, and plans below one base path, by default
  `backups/daily`, rotate each other's folders: the plan's next module.
* What robocopy, VSS, zip and scp do to files: outcomes of `ItemStatus` and `Copy`.

Two disagreements with a document are modelled and characterised by a property or
theorem that holds, instead of a run that fails:

* `start_install` spawns its task before its row is committed, so the task can find
  nothing and end, and the row stays `pending`, against `background.py` 34 and
  `docs/ARCHITECTURE.md` 89. `UnreportedEndsExplained` proves that this is the only way.
* A run whose only flaw is a partial destination is "partial" in Telegram and a
  success in the panel (`backup_service.py` 412), against `enums.py` 50.
  `VerdictMatchesAlert` names it as one of the two cases in which they differ.

Some behaviour is modelled, and no property is claimed of it, because no
document says what should happen:

* A row that is pending when the process dies stays pending; `JobLedger` allows it.
* A plain local file whose `Copy-Item` fails, and a directory cut short by `scp`, are
  recorded as successes; `AlertNotTooGood` is about the errors the script checks.
* A scheduled report that is overwritten before it was fetched is lost;
  `Arrives` is about the report that is there.
* A slow poll may answer "running" after a later one has said "finished".
* Where the locale writes decimals with a comma the watchdog does not take the start
  time the wrapper passes it and never starts; `SilenceExplained` names it.
* A schedule that was emptied keeps its task, and a removal that failed on the server
  is answered ok; `OrphanTaskExplained` names it.
* A seeded provider that was renamed to `hetzner-<number>` and is then imported gives
  a machine two rows; `NoDuplicates` names it.
