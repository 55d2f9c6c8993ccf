---------------------------- MODULE ServerRebuild ----------------------------
(***************************************************************************)
(* One dedicated server and the jobs that wipe and rebuild it: an OS       *)
(* install, a recovery of the system disk (scenarios c_drive and both), a  *)
(* recovery of the data disk (d_drive), and any backup operation that      *)
(* opens an SSH session ("visit").  They share four things no lock         *)
(* protects: the Robot API's rescue activation, the machine's power, the   *)
(* host key pinned in the server's row and the status file on the Storage  *)
(* Box.                                                                    *)
(*                                                                         *)
(* The history row of a job, its database writes and the guard of its      *)
(* start are in JobRuns.  That guard can be passed twice (the run          *)
(* jobruns_guard), so any jobs may overlap here.                           *)
(***************************************************************************)
EXTENDS Naturals, FiniteSets

CONSTANTS
  Jobs,        \* jobs that may be started
  MaxTroubles  \* bound: calls and commands that fail or hang, clicks, crashes

\* What can be on the disk or ask for rescue besides the jobs.
Others == {"original", "wiped", "none", "nobody", "operator", "off",
           "disk", "booting", "nothing"}

ASSUME JobsAssumption == Jobs \intersect Others = {}
ASSUME BoundAssumption == MaxTroubles \in Nat

VARIABLES
  kind,      \* kind[j]: what the job is, "none" before it starts
  pc,        \* pc[j]: the phase its worker is in
  sess,      \* sess[j]: its SSH session is open
  copy,      \* copy[j]: the pinned host key in the Server object it loaded
  disk,      \* the OS on the system disk: the original, none, or job j's
  running,   \* what the machine runs: its disk, or the rescue of an asker
  rescue,    \* who activated the rescue system for the next boot
  resetting, \* a reset has been accepted and has not yet taken effect
  pin,       \* Server.ssh_host_key_pub: the OS whose key is pinned
  secrets,   \* which secrets the StorageConfig holds
  report,    \* recovery_status.json on the Storage Box
  restore,   \* restore[j]: restore.ps1 in the Windows that job j installed
  click,     \* what a rescue click that has read the status will do
  troubles,  \* failed calls, clicks and crashes so far
  booted,    \* the OSes of the disk that the machine has run so far
  stalled    \* the jobs that wait for an answer that never comes

vars == <<kind, pc, sess, copy, disk, running, rescue, resetting, pin,
          secrets, report, restore, click, troubles, booted, stalled>>
machine == <<disk, running, rescue, resetting>>
windows == <<report, restore>>

Kinds == {"install", "c_drive", "d_drive", "visit"}
Images == Jobs \union {"original"}
Askers == Jobs \union {"operator"}
NoReport == [by |-> "nobody", done |-> FALSE]

RobotSteps   == {"activate", "reset", "deactivate", "reboot"}
RescueSteps  == {"tools", "iso", "partition", "apply", "inject",
                 "laid", "image", "imaging", "creds", "restart"}
SessionSteps == RescueSteps \union {"post", "restore", "work"}
Live == RobotSteps \union SessionSteps \union
        {"wait", "login", "wait2", "login2", "connect", "clear", "poll",
         "finish"}
Ended == {"success", "failed", "killed"}

TypeOK ==
  /\ kind \in [Jobs -> Kinds \union {"none"}]
  /\ pc \in [Jobs -> {"idle"} \union Live \union Ended]
  /\ sess \in [Jobs -> BOOLEAN]
  /\ copy \in [Jobs -> Images \union {"none"}]
  /\ disk \in Images \union {"wiped"}
  /\ running \in Askers \union {"disk", "booting", "nothing"}
  /\ rescue \in Askers \union {"off"}
  /\ resetting \in BOOLEAN
  /\ pin \in Images \union {"none"}
  /\ secrets \in SUBSET {"password", "private_key"}
  /\ report \in [by : Jobs \union {"nobody"}, done : BOOLEAN]
  /\ restore \in [Jobs -> {"unborn", "running", "done", "cut"}]
  /\ click \in {"none", "on", "off"}
  /\ troubles \in 0..MaxTroubles
  /\ booted \subseteq Images
  /\ stalled \subseteq Jobs

\* The server works, and its key may or may not be pinned yet.  The storage
\* form asks for a password, a private key or both.
Init ==
  /\ kind = [j \in Jobs |-> "none"]
  /\ pc = [j \in Jobs |-> "idle"]
  /\ sess = [j \in Jobs |-> FALSE]
  /\ copy = [j \in Jobs |-> "none"]
  /\ disk = "original"
  /\ running = "disk"
  /\ rescue = "off"
  /\ resetting = FALSE
  /\ pin \in {"none", "original"}
  /\ secrets \in SUBSET {"password", "private_key"}
  /\ report = NoReport
  /\ restore = [j \in Jobs |-> "unborn"]
  /\ click = "none"
  /\ troubles = 0
  /\ booted = {"original"}
  /\ stalled = {}

-----------------------------------------------------------------------------
(***************************************************************************)
(* Steps of a worker                                                       *)
(***************************************************************************)

\* One thing more goes wrong, or the operator clicks.
Trouble == troubles < MaxTroubles /\ troubles' = troubles + 1

Goto(j, step) == pc' = [pc EXCEPT ![j] = step]

OpenSession(j) == sess' = [sess EXCEPT ![j] = TRUE]

\* Leaving "async with AsyncSSHClient" closes the session on every path.
Leave(j, step) == Goto(j, step) /\ sess' = [sess EXCEPT ![j] = FALSE]

\* The Robot calls.  The answer to an activation carries a password that is
\* good for this activation only, whoever else asked before; a reset is
\* answered before the machine goes down.
RobotRescueOn(asker) == rescue' = asker
RobotReset == resetting' = TRUE

\* Mutant of RobotRescueOff: it stores an activation status, not an asker.
RobotRescueInactive == rescue' = "inactive"

RobotRescueOff == rescue' = "off"

\* The worker loads the Server row once; the session is not expired by its
\* commits, so this copy of the pinned key is what it goes by to the end.
Start(j) ==
  /\ pc[j] = "idle"
  /\ \E k \in Kinds :
       /\ kind' = [kind EXCEPT ![j] = k]
       /\ Goto(j, IF k \in {"install", "c_drive"} THEN "activate" ELSE "connect")
  /\ copy' = [copy EXCEPT ![j] = pin]
  /\ UNCHANGED <<sess, machine, pin, secrets, windows, click, troubles>>

Activate(j) ==
  /\ pc[j] = "activate"
  /\ RobotRescueOn(j)
  /\ Goto(j, "reset")
  /\ UNCHANGED <<kind, sess, copy, disk, running, resetting, pin, secrets,
                 windows, click, troubles>>

Reset(j) ==
  /\ pc[j] = "reset"
  /\ RobotReset
  /\ Goto(j, "wait")
  /\ UNCHANGED <<kind, sess, copy, disk, running, rescue, pin, secrets,
                 windows, click, troubles>>

Deactivate(j) ==
  /\ \/ /\ pc[j] = "deactivate"
        /\ RobotRescueOff
        /\ Goto(j, "reboot")
        /\ UNCHANGED resetting
     \/ /\ pc[j] = "reboot"
        /\ RobotReset
        /\ Goto(j, "clear")
        /\ UNCHANGED rescue
  /\ UNCHANGED <<kind, sess, copy, disk, running, pin, secrets, windows,
                 click, troubles>>

\* 401, 404, 429, any other refusal, no network, or an id that is no number.
RobotFails(j) ==
  /\ pc[j] \in RobotSteps
  /\ Trouble
  /\ Goto(j, "failed")
  /\ UNCHANGED <<kind, sess, copy, machine, pin, secrets, windows, click>>

Reachable == running \notin {"booting", "nothing"}

\* Mutant of WaitForSsh: the wait has no end.
WaitForEver(j) ==
  /\ pc[j] \in {"wait", "wait2"}
  /\ Reachable
  /\ Goto(j, IF pc[j] = "wait" THEN "login" ELSE "login2")
  /\ UNCHANGED <<kind, sess, copy, machine, pin, secrets, windows, click, troubles>>

\* Whatever answers on port 22 ends the wait, the OS about to go down too;
\* when the time is up and nothing answers, the job fails.
WaitForSsh(j) ==
  /\ pc[j] \in {"wait", "wait2"}
  /\ \/ Reachable /\ Goto(j, IF pc[j] = "wait" THEN "login" ELSE "login2")
     \/ ~Reachable /\ Goto(j, "failed")
  /\ UNCHANGED <<kind, sess, copy, machine, pin, secrets, windows, click, troubles>>

\* Mutant of RescueAccepts: any rescue system lets the job in.
AnyRescueAccepts(j) == running \in Askers

\* The rescue login needs the password of the activation this job asked for,
\* and nothing else keeps the phases that destroy the disk from running.
RescueAccepts(j) == running = j

\* Mutant of InstalledOsAccepts: the OS on the disk lets in any installer.
AnyOsAccepts(j) == running = "disk"

\* The new OS knows the temporary password that the install injected.
InstalledOsAccepts(j) == running = "disk" /\ disk = j

Login(j) ==
  /\ \/ /\ pc[j] = "login"
        /\ RescueAccepts(j)
        /\ Goto(j, IF kind[j] = "install" THEN "image" ELSE "tools")
     \/ /\ pc[j] = "login2"
        /\ InstalledOsAccepts(j)
        /\ Goto(j, "post")
  /\ OpenSession(j)
  /\ UNCHANGED <<kind, copy, machine, pin, secrets, windows, click, troubles>>

LoginRefused(j) ==
  /\ \/ pc[j] = "login" /\ ~RescueAccepts(j)
     \/ pc[j] = "login2" /\ ~InstalledOsAccepts(j)
  /\ Goto(j, "failed")
  /\ UNCHANGED <<kind, sess, copy, machine, pin, secrets, windows, click, troubles>>

\* A command that fails by itself, or whose session died with the machine: a
\* command sent later fails, the one under way may wait for its exit status
\* for ever (the time limit of execute does not reach recv_exit_status).
CommandFails(j) ==
  /\ pc[j] \in SessionSteps \ {"restart"}
  /\ \/ ~sess[j] /\ UNCHANGED troubles
     \/ Trouble
  /\ Leave(j, "failed")
  /\ UNCHANGED <<kind, copy, machine, pin, secrets, windows, click>>

-----------------------------------------------------------------------------
(***************************************************************************)
(* Phases in a rescue system                                               *)
(***************************************************************************)

\* scp in the rescue system has the storage's key or nothing to log in with.
RescueCanScp == "private_key" \in secrets

\* The phases before which nothing on the disk has changed.
Prepare(j) ==
  /\ sess[j]
  /\ \/ pc[j] = "tools" /\ Goto(j, "iso")
     \/ pc[j] = "iso" /\ RescueCanScp /\ Goto(j, "partition")
  /\ UNCHANGED <<kind, sess, copy, machine, pin, secrets, windows, click, troubles>>

ScpFails(j) ==
  /\ sess[j]
  /\ pc[j] = "iso" /\ ~RescueCanScp
  /\ Leave(j, "failed")
  /\ UNCHANGED <<kind, copy, machine, pin, secrets, windows, click, troubles>>

\* partition_disk.sh, wimapply, the injected configuration with the boot
\* files; nothing is sent to the machine after these, so the job leaves even
\* a session that is cut.
LayDownWindows(j) ==
  /\ \/ /\ sess[j]
        /\ \/ pc[j] = "partition" /\ Goto(j, "apply") /\ disk' = "wiped"
           \/ pc[j] = "apply" /\ Goto(j, "inject") /\ UNCHANGED disk
           \/ pc[j] = "inject" /\ Goto(j, "laid") /\ disk' = j
        /\ UNCHANGED sess
     \/ pc[j] = "laid" /\ Leave(j, "deactivate") /\ UNCHANGED disk
  /\ UNCHANGED <<kind, copy, running, rescue, resetting, pin, secrets,
                 windows, click, troubles>>

\* installimage wipes the disk first; the temporary password follows it.
InstallImage(j) ==
  /\ sess[j]
  /\ \/ pc[j] = "image" /\ Goto(j, "imaging") /\ disk' = "wiped"
     \/ pc[j] = "imaging" /\ Goto(j, "creds") /\ disk' = j
     \/ pc[j] = "creds" /\ Goto(j, "restart") /\ UNCHANGED disk
  /\ UNCHANGED <<kind, sess, copy, running, rescue, resetting, pin, secrets,
                 windows, click, troubles>>

\* "reboot" over SSH: every error is taken for the connection that closes.
Restart(j) ==
  /\ pc[j] = "restart"
  /\ resetting' \in IF sess[j] THEN {resetting, TRUE} ELSE {resetting}
  /\ Leave(j, "wait2")
  /\ UNCHANGED <<kind, copy, disk, running, rescue, pin, secrets, windows,
                 click, troubles>>

\* Host name, updates, packages and firewall: their exit codes decide nothing,
\* that of a last command cut with its session (-1) neither.
PostInstall(j) ==
  /\ pc[j] = "post"
  /\ Leave(j, "finish")
  /\ UNCHANGED <<kind, copy, machine, pin, secrets, windows, click, troubles>>

\* With the session closed the job commits its last step, its success and the
\* server's os_type, and does not look at the machine again.
FinishInstall(j) ==
  /\ pc[j] = "finish"
  /\ \/ Goto(j, "success") /\ UNCHANGED troubles
     \/ Trouble /\ Goto(j, "failed")
  /\ UNCHANGED <<kind, sess, copy, machine, pin, secrets, windows, click>>

-----------------------------------------------------------------------------
(***************************************************************************)
(* Sessions in the installed system, host-key pinning                      *)
(***************************************************************************)

\* The credentials in the row fit the original OS and a recovered Windows
\* (whose administrator password the operator enters again).
PanelLogin(image) == image = "original" \/ (image \in Jobs /\ kind[image] = "c_drive")

\* The key is checked against the copy of the pin; with none, any is taken.
HostKeyAccepted(j) == copy[j] \in {"none", disk}

LetsIn(j) == running = "disk" /\ PanelLogin(disk) /\ HostKeyAccepted(j)

\* A key learned on the way is committed before the session is used.
Connect(j) ==
  /\ pc[j] = "connect"
  /\ LetsIn(j)
  /\ pin' = IF copy[j] = "none" THEN disk ELSE pin
  /\ OpenSession(j)
  /\ Goto(j, IF kind[j] = "d_drive" THEN "restore" ELSE "work")
  /\ UNCHANGED <<kind, copy, machine, secrets, windows, click, troubles>>

ConnectFails(j) ==
  /\ pc[j] = "connect"
  /\ \/ ~LetsIn(j) /\ UNCHANGED troubles
     \/ Trouble
  /\ Goto(j, "failed")
  /\ UNCHANGED <<kind, sess, copy, machine, pin, secrets, windows, click>>

\* The exit code of restore_data.ps1 does not depend on what it downloaded.
RestoreData(j) ==
  /\ sess[j] /\ pc[j] = "restore"
  /\ Leave(j, "success")
  /\ UNCHANGED <<kind, copy, machine, pin, secrets, windows, click, troubles>>

VisitEnds(j) ==
  /\ sess[j] /\ pc[j] = "work"
  /\ Leave(j, "success")
  /\ UNCHANGED <<kind, copy, machine, pin, secrets, windows, click, troubles>>

\* Mutant of ClearPin: the reinstalled Windows keeps the old pin.
KeepPin(j) ==
  /\ pc[j] = "clear"
  /\ Goto(j, "poll")
  /\ UNCHANGED <<kind, sess, copy, machine, pin, secrets, windows, click, troubles>>

\* Windows was reinstalled: the pin goes, if the copy of the row has one.
ClearPin(j) ==
  /\ pc[j] = "clear"
  /\ pin' = IF copy[j] = "none" THEN pin ELSE "none"
  /\ Goto(j, "poll")
  /\ UNCHANGED <<kind, sess, copy, machine, secrets, windows, click, troubles>>

-----------------------------------------------------------------------------
(***************************************************************************)
(* The status file                                                         *)
(***************************************************************************)

\* Mutant of BoxReadable: the adapter understands the stored key.
BoxReadableByKey == secrets # {}

\* HetznerStorageBox logs in with a password or a key file, never with the
\* private key the form stores.
BoxReadable == "password" \in secrets

\* Mutant of PollDone: any report of progress will do.
PollAny(j) ==
  /\ pc[j] = "poll"
  /\ BoxReadable /\ report.by # "nobody"
  /\ Goto(j, "success")
  /\ UNCHANGED <<kind, sess, copy, machine, pin, secrets, windows, click, troubles>>

\* "done" ends the polling, whichever recovery wrote the file.
PollDone(j) ==
  /\ pc[j] = "poll"
  /\ BoxReadable /\ report.done
  /\ Goto(j, "success")
  /\ UNCHANGED <<kind, sess, copy, machine, pin, secrets, windows, click, troubles>>

\* Any error while reading is retried until the deadline.
PollTimesOut(j) ==
  /\ pc[j] = "poll"
  /\ Goto(j, "failed")
  /\ UNCHANGED <<kind, sess, copy, machine, pin, secrets, windows, click, troubles>>

\* restore.ps1 runs once, at the first boot of the Windows it was put into;
\* an upload of its status needs the private key and may be lost.
RestoreStep(j) ==
  /\ running = "disk" /\ disk = j /\ kind[j] = "c_drive"
  /\ \/ restore[j] = "unborn" /\ restore' = [restore EXCEPT ![j] = "running"]
     \/ restore[j] = "running" /\ restore' = [restore EXCEPT ![j] = "done"]
  /\ report' \in {report} \union
       (IF "private_key" \in secrets
        THEN {[by |-> j, done |-> restore[j] = "running"]} ELSE {})
  /\ UNCHANGED <<kind, pc, sess, copy, machine, pin, secrets, click, troubles>>

-----------------------------------------------------------------------------
(***************************************************************************)
(* The machine, the operator, the panel process                            *)
(***************************************************************************)

ShutDown ==
  /\ resetting
  /\ resetting' = FALSE
  /\ running' = "booting"
  /\ sess' = [j \in Jobs |-> FALSE]
  /\ restore' = [j \in Jobs |-> IF restore[j] = "running" THEN "cut" ELSE restore[j]]
  /\ UNCHANGED <<kind, pc, copy, disk, rescue, pin, secrets, report, click, troubles>>

\* An activation holds for one boot: install relies on it and never
\* deactivates rescue.
BootUp ==
  /\ running = "booting"
  /\ running' = IF rescue # "off" THEN rescue
                ELSE IF disk # "wiped" THEN "disk" ELSE "nothing"
  /\ rescue' = "off"
  /\ booted' = IF running' = "disk" THEN booted \union {disk} ELSE booted
  /\ UNCHANGED <<kind, pc, sess, copy, disk, resetting, pin, secrets, windows,
                 click, troubles, stalled>>

ClickReset ==
  /\ Trouble
  /\ RobotReset
  /\ UNCHANGED <<kind, pc, sess, copy, disk, running, rescue, pin, secrets,
                 windows, click>>

\* The handler reads the rescue status, then acts on what it read.
ClickRescue ==
  /\ click = "none"
  /\ Trouble
  /\ click' = IF rescue = "off" THEN "on" ELSE "off"
  /\ UNCHANGED <<kind, pc, sess, copy, machine, pin, secrets, windows>>

ToggleRescue ==
  /\ click # "none"
  /\ IF click = "on" THEN RobotRescueOn("operator") ELSE RobotRescueOff
  /\ click' = "none"
  /\ UNCHANGED <<kind, pc, sess, copy, disk, running, resetting, pin, secrets,
                 windows, troubles>>

\* The tasks die with the process; the machine stays as they left it.
Crash ==
  /\ Trouble
  /\ pc' = [j \in Jobs |-> IF pc[j] \in Live THEN "killed" ELSE pc[j]]
  /\ sess' = [j \in Jobs |-> FALSE]
  /\ click' = "none"
  /\ UNCHANGED <<kind, copy, machine, pin, secrets, windows>>

-----------------------------------------------------------------------------
Recover(j) == Prepare(j) \/ ScpFails(j) \/ LayDownWindows(j) \/ Deactivate(j) \/ ClearPin(j)

Install(j) == InstallImage(j) \/ Restart(j) \/ PostInstall(j) \/ FinishInstall(j)

Worker(j) ==
  \/ Activate(j) \/ Reset(j) \/ RobotFails(j)
  \/ WaitForSsh(j) \/ Login(j) \/ LoginRefused(j) \/ CommandFails(j)
  \/ Recover(j) \/ PollDone(j) \/ PollTimesOut(j)
  \/ Install(j)
  \/ Connect(j) \/ ConnectFails(j) \/ RestoreData(j) \/ VisitEnds(j)

\* A job goes on as long as it is answered.
Works(j) == j \notin stalled /\ Worker(j) /\ UNCHANGED <<booted, stalled>>

\* The answer to a command, to an upload or to a read of the status file is
\* lost though the machine is up: a stalled scp, apt or installimage, a
\* network that drops packets.  Neither recv_exit_status nor the SFTP calls
\* have a time limit, and the poller looks at its deadline between two reads.
Stall(j) ==
  /\ sess[j] \/ pc[j] = "poll"
  /\ Trouble
  /\ stalled' = stalled \union {j}
  /\ UNCHANGED <<kind, pc, sess, copy, machine, pin, secrets, windows, click, booted>>

Next ==
  \/ \E j \in Jobs : Works(j) \/ Stall(j)
  \/ BootUp
  \/ /\ \/ \E j \in Jobs : Start(j) \/ RestoreStep(j)
        \/ ShutDown \/ ClickReset \/ ClickRescue \/ ToggleRescue \/ Crash
     /\ UNCHANGED <<booted, stalled>>

\* The session went down with the machine, and nobody says so.
Cut(j) == pc[j] \in SessionSteps /\ ~sess[j]

\* asyncio goes on with a task that can proceed, and the waits for port 22
\* and between two reads of the status file have deadlines.  Nobody owes the
\* machine, the operator or Windows a step, and nobody owes a job an answer
\* once its session is cut or its call is stalled.
Fairness == \A j \in Jobs : WF_vars(~Cut(j) /\ Works(j))

Spec == Init /\ [][Next]_vars /\ Fairness

-----------------------------------------------------------------------------
(***************************************************************************)
(* Properties                                                              *)
(***************************************************************************)

Claim == INSTANCE DiskClaim WITH
           content <- disk,
           system  <- running,
           inside  <- {j \in Jobs : sess[j]},
           claim   <- {j \in Jobs : sess[j] /\ pc[j] \in {"apply", "inject", "imaging"}}

\* Although nothing keeps an install and a recovery from overlapping, each
\* rebuilds the disk alone, in the rescue system it asked for itself, and lays
\* its OS down on a disk it has wiped in the same session (see DiskClaim).
DiskClaimSpec == Claim!Spec

\* An install reports success only if the machine has at some time run the
\* OS this very install laid down, whatever overlapping jobs did to the disk
\* and to the machine meanwhile: it does not take another job's OS, or the
\* one it meant to replace, for its own.  What runs when the success is
\* written may be something else: the code does not look.
InstallTruth ==
  \A j \in Jobs : (kind[j] = "install" /\ pc[j] = "success") => j \in booted

\* A recovery of C: reports success only after some restore.ps1 has run to
\* its end: its own, or one whose file was left on the Storage Box.
RecoveryTruth ==
  \A j \in Jobs : (kind[j] = "c_drive" /\ pc[j] = "success") =>
    \E k \in Jobs : kind[k] = "c_drive" /\ restore[k] = "done"

\* A recovery of C: can succeed only on a storage that holds both secrets:
\* scp in the rescue system needs the private key, the poller the password.
SuccessNeedsBothSecrets ==
  \A j \in Jobs : (kind[j] = "c_drive" /\ pc[j] = "success") =>
    secrets = {"password", "private_key"}

\* The pinned key is that of an OS that is gone only in three cases: the
\* new OS is an install's, its recovery has not reached (or did not live to
\* reach) the unpinning, or the recovery had loaded the row before the key
\* was pinned.
StalePinHasACause ==
  (disk \in Jobs /\ running = "disk" /\ pin \notin {"none", disk}) =>
    \/ kind[disk] = "install"
    \/ copy[disk] = "none"
    \/ pc[disk] \in {"laid", "deactivate", "reboot", "clear", "failed", "killed"}

\* Every job that starts ends, unless the machine went down under one of its
\* commands or an answer was lost: none waits for a machine that does not come
\* back or for a Windows that never reports.
JobsEnd == \A j \in Jobs : []<>(pc[j] \notin Live \/ Cut(j) \/ j \in stalled)
=============================================================================
