------------------------ MODULE ServerRebuildProofs ------------------------
(***************************************************************************)
(* Theorems about ServerRebuild, for any set of jobs that may overlap in   *)
(* any way and for any number of troubles.                                 *)
(***************************************************************************)
EXTENDS ServerRebuild, TLAPS

\* The phases each kind of job goes through.
InstallPhases == {"activate", "reset", "wait", "login", "image", "imaging", "creds",
                  "restart", "wait2", "login2", "post", "finish"}
RecoveryPhases == {"activate", "reset", "wait", "login", "tools", "iso", "partition",
                   "apply", "inject", "laid", "deactivate", "reboot", "clear", "poll"}

KindFits(j) ==
  /\ kind[j] = "none" => pc[j] = "idle"
  /\ pc[j] = "idle" => kind[j] = "none"
  /\ kind[j] = "install" => pc[j] \in InstallPhases \union Ended
  /\ kind[j] = "c_drive" => pc[j] \in RecoveryPhases \union Ended
  /\ kind[j] = "d_drive" => pc[j] \in {"connect", "restore"} \union Ended
  /\ kind[j] = "visit" => pc[j] \in {"connect", "work"} \union Ended

\* The phases between the wiping of the disk and the OS that is laid on it.
Building == {"apply", "inject", "imaging"}

\* An open session has a command to run, in the job's own rescue system or
\* in what is on the disk; after an install that is what it laid down, and
\* what the job has wiped stays so until it has put its own OS there.
SessionFits(j) ==
  sess[j] =>
    /\ pc[j] \in SessionSteps
    /\ pc[j] \in Building => disk = "wiped"
    /\ pc[j] \in RescueSteps => running = j
    /\ pc[j] \notin RescueSteps => running = "disk"
    /\ pc[j] = "post" => disk = j

\* Whose system is on the disk has come at least as far as laying it down.
DiskFits(j) ==
  disk = j =>
    /\ kind[j] \in {"install", "c_drive"}
    /\ kind[j] = "c_drive" =>
         pc[j] \in {"laid", "deactivate", "reboot", "clear", "poll"} \union Ended

\* scp needs the private key before the disk is touched, the poll the password.
SecretsFit(j) ==
  kind[j] = "c_drive" =>
    /\ pc[j] \in {"partition", "apply", "inject", "laid", "deactivate", "reboot", "clear",
                  "poll", "success"} => "private_key" \in secrets
    /\ pc[j] = "success" => "password" \in secrets

\* After its unpinning, a recovered Windows meets no pin but its own.
PinFits(j) ==
  (disk = j /\ kind[j] = "c_drive" /\ pc[j] \in {"poll", "success"} /\ copy[j] # "none") =>
    pin \in {"none", j}

\* Once an install has logged in to what it laid down, that has been booted.
BootFits(j) ==
  (kind[j] = "install" /\ pc[j] \in {"post", "finish", "success"}) => j \in booted

JobFits(j) ==
  /\ KindFits(j) /\ SessionFits(j) /\ DiskFits(j) /\ SecretsFit(j) /\ PinFits(j)
  /\ BootFits(j)

\* What the machine runs from its disk, it has booted from there.
SystemFits == running = "disk" => disk \in booted

\* A report that says "done" is that of a restore.ps1 that has run to its end.
ReportFits ==
  report.done =>
    report.by \in Jobs /\ kind[report.by] = "c_drive" /\ restore[report.by] = "done"

RInv ==
  /\ TypeOK
  /\ \A j \in Jobs : JobFits(j)
  /\ ReportFits
  /\ RecoveryTruth
  /\ SystemFits

-----------------------------------------------------------------------------
\* The names of the phases.
LEMMA PhaseNames ==
  /\ {"activate", "reset", "deactivate", "reboot", "wait", "login", "wait2", "login2",
      "connect", "clear", "poll", "tools", "iso", "partition", "apply", "inject", "laid",
      "image", "imaging", "creds", "restart", "post", "finish", "restore", "work"}
     \subseteq Live
  /\ {"success", "failed", "killed"} \subseteq Ended
BY DEF Live, Ended, RobotSteps, SessionSteps, RescueSteps

\* A job that goes to a phase and leaves all but its session alone.
LEMMA GotoTypes ==
  ASSUME TypeOK, NEW j \in Jobs, NEW step \in Live \union Ended, Goto(j, step),
         sess' \in [Jobs -> BOOLEAN], troubles' \in 0..MaxTroubles,
         UNCHANGED <<kind, copy, machine, pin, secrets, windows, click, booted, stalled>>
  PROVE  TypeOK'
BY DEF TypeOK, Goto, machine, windows

\* A worker's step keeps the types.
LEMMA WorkerTypes ==
  ASSUME TypeOK, NEW j \in Jobs, Worker(j), UNCHANGED <<booted, stalled>>
  PROVE  TypeOK'
<1> USE PhaseNames
<1>t. sess \in [Jobs -> BOOLEAN] /\ [sess EXCEPT ![j] = TRUE] \in [Jobs -> BOOLEAN]
      /\ [sess EXCEPT ![j] = FALSE] \in [Jobs -> BOOLEAN] /\ troubles \in 0..MaxTroubles
  BY DEF TypeOK
<1>u. Trouble => troubles' \in 0..MaxTroubles
  BY BoundAssumption DEF TypeOK, Trouble
<1>1. CASE Activate(j)
  BY <1>1 DEF Activate, RobotRescueOn, Goto, TypeOK, Askers, windows
<1>2. CASE Reset(j)
  BY <1>2 DEF Reset, RobotReset, Goto, TypeOK, windows
<1>3. CASE Deactivate(j)
  <2>1. CASE pc[j] = "deactivate"
    BY <1>3, <2>1 DEF Deactivate, RobotRescueOff, Goto, TypeOK, windows
  <2>2. CASE pc[j] = "reboot"
    BY <1>3, <2>2 DEF Deactivate, RobotReset, Goto, TypeOK, windows
  <2> QED BY <1>3, <2>1, <2>2 DEF Deactivate
<1>4. CASE RobotFails(j)
  BY <1>t, <1>u, <1>4, GotoTypes DEF RobotFails
<1>5. CASE WaitForSsh(j)
  <2>1. \E step \in Live \union Ended : Goto(j, step)
    BY <1>5 DEF WaitForSsh
  <2> QED BY <1>t, <1>5, <2>1, GotoTypes DEF WaitForSsh
<1>6. CASE Login(j)
  <2>1. \E step \in Live \union Ended : Goto(j, step)
    BY <1>6 DEF Login
  <2> QED BY <1>t, <1>6, <2>1, GotoTypes DEF Login, OpenSession
<1>7. CASE LoginRefused(j)
  BY <1>t, <1>7, GotoTypes DEF LoginRefused
<1>8. CASE CommandFails(j)
  BY <1>t, <1>u, <1>8, GotoTypes DEF CommandFails, Leave
<1>9. CASE Prepare(j)
  <2>1. \E step \in Live \union Ended : Goto(j, step)
    BY <1>9 DEF Prepare
  <2> QED BY <1>t, <1>9, <2>1, GotoTypes DEF Prepare
<1>10. CASE ScpFails(j)
  BY <1>t, <1>10, GotoTypes DEF ScpFails, Leave
<1>11. CASE LayDownWindows(j)
  <2>1. pc' \in [Jobs -> {"idle"} \union Live \union Ended]
    BY <1>11 DEF LayDownWindows, Goto, Leave, TypeOK
  <2>2. sess' \in [Jobs -> BOOLEAN] /\ disk' \in Images \union {"wiped"}
    BY <1>t, <1>11 DEF LayDownWindows, Leave, TypeOK, Images
  <2> QED BY <1>11, <2>1, <2>2 DEF LayDownWindows, TypeOK, windows
<1>12. CASE InstallImage(j)
  <2>1. pc' \in [Jobs -> {"idle"} \union Live \union Ended]
    BY <1>12 DEF InstallImage, Goto, TypeOK
  <2>2. disk' \in Images \union {"wiped"}
    BY <1>12 DEF InstallImage, TypeOK, Images
  <2> QED BY <1>12, <2>1, <2>2 DEF InstallImage, TypeOK, windows
<1>13. CASE Restart(j)
  <2>1. resetting' \in BOOLEAN
    BY <1>13 DEF Restart, TypeOK
  <2> QED BY <1>t, <1>13, <2>1 DEF Restart, Leave, Goto, TypeOK, windows
<1>14. CASE PostInstall(j) \/ RestoreData(j) \/ VisitEnds(j)
  <2>1. Leave(j, "finish") \/ Leave(j, "success")
    BY <1>14 DEF PostInstall, RestoreData, VisitEnds
  <2>2. UNCHANGED <<kind, copy, machine, pin, secrets, windows, click, troubles>>
    BY <1>14 DEF PostInstall, RestoreData, VisitEnds
  <2> QED BY <1>t, <2>1, <2>2, GotoTypes DEF Leave
<1>19. CASE FinishInstall(j)
  <2>1. \E step \in Live \union Ended : Goto(j, step)
    BY <1>19 DEF FinishInstall
  <2>2. troubles' \in 0..MaxTroubles
    BY <1>t, <1>u, <1>19 DEF FinishInstall
  <2> QED BY <1>t, <1>19, <2>1, <2>2, GotoTypes DEF FinishInstall
<1>15. CASE Connect(j)
  <2>1. pin' \in Images \union {"none"}
    BY <1>15 DEF Connect, LetsIn, PanelLogin, TypeOK, Images
  <2>2. \E step \in Live \union Ended : Goto(j, step)
    BY <1>15 DEF Connect
  <2> QED BY <1>t, <1>15, <2>1, <2>2 DEF Connect, OpenSession, Goto, TypeOK, machine, windows
<1>16. CASE ConnectFails(j)
  BY <1>t, <1>u, <1>16, GotoTypes DEF ConnectFails
<1>17. CASE ClearPin(j)
  <2>1. pin' \in Images \union {"none"}
    BY <1>17 DEF ClearPin, TypeOK
  <2> QED BY <1>17, <2>1 DEF ClearPin, Goto, TypeOK, machine, windows
<1>18. CASE PollDone(j) \/ PollTimesOut(j)
  <2>1. \E step \in Live \union Ended : Goto(j, step)
    BY <1>18 DEF PollDone, PollTimesOut
  <2>2. UNCHANGED <<kind, sess, copy, machine, pin, secrets, windows, click, troubles>>
    BY <1>18 DEF PollDone, PollTimesOut
  <2> QED BY <1>t, <2>1, <2>2, GotoTypes
<1> QED BY <1>1, <1>2, <1>3, <1>4, <1>5, <1>6, <1>7, <1>8, <1>9, <1>10, <1>11, <1>12, <1>13,
           <1>14, <1>15, <1>16, <1>17, <1>18, <1>19 DEF Worker, Recover, Install

\* Any other step keeps the types.
LEMMA OtherTypes ==
  ASSUME TypeOK,
         \/ \E j \in Jobs : Stall(j)
         \/ BootUp
         \/ /\ \/ \E j \in Jobs : Start(j) \/ RestoreStep(j)
               \/ ShutDown \/ ClickReset \/ ClickRescue \/ ToggleRescue \/ Crash
            /\ UNCHANGED <<booted, stalled>>
  PROVE  TypeOK'
<1> USE PhaseNames
<1>u. Trouble => troubles' \in 0..MaxTroubles
  BY BoundAssumption DEF TypeOK, Trouble
<1>1. ASSUME NEW j \in Jobs, Start(j), UNCHANGED <<booted, stalled>> PROVE TypeOK'
  <2>1. kind' \in [Jobs -> Kinds \union {"none"}]
    BY <1>1 DEF Start, TypeOK
  <2>2. pc' \in [Jobs -> {"idle"} \union Live \union Ended]
    BY <1>1 DEF Start, Goto, TypeOK
  <2>3. copy' \in [Jobs -> Images \union {"none"}]
    BY <1>1 DEF Start, TypeOK
  <2> QED BY <1>1, <2>1, <2>2, <2>3 DEF Start, TypeOK, machine, windows
<1>2. ASSUME NEW j \in Jobs, RestoreStep(j), UNCHANGED <<booted, stalled>> PROVE TypeOK'
  <2>1. restore' \in [Jobs -> {"unborn", "running", "done", "cut"}]
    BY <1>2 DEF RestoreStep, TypeOK
  <2>2. report' \in [by : Jobs \union {"nobody"}, done : BOOLEAN]
    <3>1. [by |-> j, done |-> restore[j] = "running"] \in
            [by : Jobs \union {"nobody"}, done : BOOLEAN]
      OBVIOUS
    <3>2. report' = report \/ report' = [by |-> j, done |-> restore[j] = "running"]
      BY <1>2 DEF RestoreStep
    <3> QED BY <3>1, <3>2 DEF TypeOK
  <2> QED BY <1>2, <2>1, <2>2 DEF RestoreStep, TypeOK, machine
<1>3. CASE ShutDown /\ UNCHANGED <<booted, stalled>>
  <2>1. restore' \in [Jobs -> {"unborn", "running", "done", "cut"}]
    BY <1>3 DEF ShutDown, TypeOK
  <2> QED BY <1>3, <2>1 DEF ShutDown, TypeOK
<1>4. CASE BootUp
  <2>1. running' \in Askers \union {"disk", "booting", "nothing"}
    BY <1>4 DEF BootUp, TypeOK
  <2>2. running' = "disk" => disk \in Images
    BY <1>4, JobsAssumption DEF BootUp, TypeOK, Askers, Others
  <2>3. booted' \subseteq Images
    BY <1>4, <2>2 DEF BootUp, TypeOK
  <2> QED BY <1>4, <2>1, <2>3 DEF BootUp, TypeOK, windows
<1>5. CASE ClickReset /\ UNCHANGED <<booted, stalled>>
  BY <1>u, <1>5 DEF ClickReset, RobotReset, TypeOK, windows
<1>6. CASE ClickRescue /\ UNCHANGED <<booted, stalled>>
  BY <1>u, <1>6 DEF ClickRescue, TypeOK, windows, machine
<1>7. CASE ToggleRescue /\ UNCHANGED <<booted, stalled>>
  <2>1. rescue' \in Askers \union {"off"}
    BY <1>7 DEF ToggleRescue, RobotRescueOn, RobotRescueOff, Askers
  <2> QED BY <1>7, <2>1 DEF ToggleRescue, TypeOK, windows
<1>8. CASE Crash /\ UNCHANGED <<booted, stalled>>
  <2>1. pc' \in [Jobs -> {"idle"} \union Live \union Ended]
    BY <1>8 DEF Crash, TypeOK
  <2> QED BY <1>u, <1>8, <2>1 DEF Crash, TypeOK, windows, machine
<1>9. ASSUME NEW j \in Jobs, Stall(j) PROVE TypeOK'
  BY <1>u, <1>9 DEF Stall, TypeOK, windows, machine
<1> QED BY <1>1, <1>2, <1>3, <1>4, <1>5, <1>6, <1>7, <1>8, <1>9

-----------------------------------------------------------------------------
\* The order of the phases.
Moves(j) ==
  \/ pc[j] = "activate" /\ pc'[j] \in {"reset", "failed"}
  \/ pc[j] = "reset" /\ pc'[j] \in {"wait", "failed"}
  \/ pc[j] = "wait" /\ pc'[j] \in {"login", "failed"}
  \/ pc[j] = "login" /\ kind[j] = "install" /\ pc'[j] \in {"image", "failed"}
  \/ pc[j] = "login" /\ kind[j] # "install" /\ pc'[j] \in {"tools", "failed"}
  \/ pc[j] = "tools" /\ pc'[j] \in {"iso", "failed"}
  \/ pc[j] = "iso" /\ pc'[j] = "partition" /\ "private_key" \in secrets
  \/ pc[j] = "iso" /\ pc'[j] = "failed"
  \/ pc[j] = "partition" /\ pc'[j] \in {"apply", "failed"}
  \/ pc[j] = "apply" /\ pc'[j] \in {"inject", "failed"}
  \/ pc[j] = "inject" /\ pc'[j] \in {"laid", "failed"}
  \/ pc[j] = "laid" /\ pc'[j] \in {"deactivate", "failed"}
  \/ pc[j] = "deactivate" /\ pc'[j] \in {"reboot", "failed"}
  \/ pc[j] = "reboot" /\ pc'[j] \in {"clear", "failed"}
  \/ pc[j] = "clear" /\ pc'[j] = "poll"
  \/ pc[j] = "poll" /\ pc'[j] = "success" /\ "password" \in secrets /\ report.done
  \/ pc[j] = "poll" /\ pc'[j] = "failed"
  \/ pc[j] = "image" /\ pc'[j] \in {"imaging", "failed"}
  \/ pc[j] = "imaging" /\ pc'[j] \in {"creds", "failed"}
  \/ pc[j] = "creds" /\ pc'[j] \in {"restart", "failed"}
  \/ pc[j] = "restart" /\ pc'[j] = "wait2"
  \/ pc[j] = "wait2" /\ pc'[j] \in {"login2", "failed"}
  \/ pc[j] = "login2" /\ pc'[j] = "post" /\ running = "disk" /\ disk = j
  \/ pc[j] = "login2" /\ pc'[j] = "failed"
  \/ pc[j] = "post" /\ pc'[j] \in {"finish", "failed"}
  \/ pc[j] = "finish" /\ pc'[j] \in {"success", "failed"}
  \/ pc[j] = "connect" /\ kind[j] = "d_drive" /\ pc'[j] \in {"restore", "failed"}
  \/ pc[j] = "connect" /\ kind[j] # "d_drive" /\ pc'[j] \in {"work", "failed"}
  \/ pc[j] \in {"restore", "work"} /\ pc'[j] \in {"success", "failed"}

\* Where a session is opened, and what keeps one open.
KeepsSession(j) ==
  sess'[j] =>
    \/ sess[j] /\ pc[j] \in RescueSteps /\ pc'[j] \in RescueSteps
    \/ pc[j] = "login" /\ pc'[j] \in RescueSteps /\ running = j
    \/ pc[j] = "login2" /\ pc'[j] = "post" /\ running = "disk" /\ disk = j
    \/ pc[j] = "connect" /\ pc'[j] \in {"restore", "work"} /\ running = "disk"

\* Who writes the disk, and how far a job is when it has become its own.
WritesDisk(j) ==
  \/ disk' = disk /\ (sess'[j] => pc'[j] \notin {"apply", "laid", "imaging", "creds"})
  \/ sess[j] /\ sess'[j] /\ pc[j] = "partition" /\ pc'[j] = "apply" /\ disk' = "wiped"
  \/ sess[j] /\ sess'[j] /\ pc[j] = "image" /\ pc'[j] = "imaging" /\ disk' = "wiped"
  \/ sess[j] /\ sess'[j] /\ pc[j] = "inject" /\ pc'[j] = "laid" /\ disk' = j
  \/ sess[j] /\ sess'[j] /\ pc[j] = "imaging" /\ pc'[j] = "creds" /\ disk' = j

\* Who writes the pin.
WritesPin(j) ==
  /\ \/ pin' = pin
     \/ pc[j] = "connect" /\ running = "disk" /\ pin' = disk
     \/ pc[j] = "clear" /\ pin' = "none"
  /\ pc[j] = "clear" => pin' = "none" \/ copy[j] = "none"

\* What a worker leaves alone.
Spares(j) ==
  /\ UNCHANGED <<kind, copy, running, secrets, windows, click>>
  /\ \A i \in Jobs \ {j} : pc'[i] = pc[i] /\ sess'[i] = sess[i]

WorkerFacts(j) ==
  Moves(j) /\ KeepsSession(j) /\ WritesDisk(j) /\ WritesPin(j) /\ Spares(j)

\* What a worker's step is, in the terms the invariant needs.
LEMMA WorkerStep ==
  ASSUME TypeOK, NEW j \in Jobs, Worker(j), SessionFits(j)
  PROVE  WorkerFacts(j)
<1>t. pc \in [Jobs -> {"idle"} \union Live \union Ended] /\ sess \in [Jobs -> BOOLEAN]
  BY DEF TypeOK
<1> USE <1>t DEF WorkerFacts, Moves, KeepsSession, WritesDisk, WritesPin, Spares, SessionFits,
    Goto, Leave, OpenSession, SessionSteps, RescueSteps, machine
<1>1. CASE Activate(j)
  BY <1>1 DEF Activate
<1>2. CASE Reset(j)
  BY <1>2 DEF Reset
<1>3. CASE Deactivate(j)
  BY <1>3 DEF Deactivate
<1>4. CASE RobotFails(j)
  BY <1>4 DEF RobotFails, RobotSteps
<1>5. CASE WaitForSsh(j)
  BY <1>5 DEF WaitForSsh
<1>6. CASE Login(j)
  BY <1>6 DEF Login, RescueAccepts, InstalledOsAccepts
<1>7. CASE LoginRefused(j)
  BY <1>7 DEF LoginRefused
<1>8. CASE CommandFails(j)
  BY <1>8 DEF CommandFails
<1>9. CASE Prepare(j)
  BY <1>9 DEF Prepare, RescueCanScp
<1>10. CASE ScpFails(j)
  BY <1>10 DEF ScpFails
<1>11. CASE LayDownWindows(j)
  BY <1>11 DEF LayDownWindows
<1>12. CASE InstallImage(j)
  BY <1>12 DEF InstallImage
<1>13. CASE Restart(j)
  BY <1>13 DEF Restart
<1>14. CASE PostInstall(j)
  BY <1>14 DEF PostInstall
<1>22. CASE FinishInstall(j)
  BY <1>22 DEF FinishInstall
<1>15. CASE RestoreData(j)
  BY <1>15 DEF RestoreData
<1>16. CASE VisitEnds(j)
  BY <1>16 DEF VisitEnds
<1>17. CASE Connect(j)
  BY <1>17 DEF Connect, LetsIn
<1>18. CASE ConnectFails(j)
  BY <1>18 DEF ConnectFails
<1>19. CASE ClearPin(j)
  BY <1>19 DEF ClearPin
<1>20. CASE PollDone(j)
  BY <1>20 DEF PollDone, BoxReadable
<1>21. CASE PollTimesOut(j)
  BY <1>21 DEF PollTimesOut
<1> QED BY <1>1, <1>2, <1>3, <1>4, <1>5, <1>6, <1>7, <1>8, <1>9, <1>10, <1>11, <1>12, <1>13,
           <1>14, <1>15, <1>16, <1>17, <1>18, <1>19, <1>20, <1>21, <1>22
    DEF Worker, Recover, Install

-----------------------------------------------------------------------------
\* In the phases before the disk is a job's own, the phase tells its kind.
LEMMA KindOfPhase ==
  ASSUME TypeOK, NEW j \in Jobs, KindFits(j)
  PROVE  /\ pc[j] = "inject" => kind[j] = "c_drive"
         /\ pc[j] = "imaging" => kind[j] = "install"
BY DEF TypeOK, Kinds, KindFits, InstallPhases, RecoveryPhases, Ended

\* The job that moves stays within what its kind, its session and its
\* secrets allow.
LEMMA OwnStep ==
  ASSUME TypeOK, NEW j \in Jobs, JobFits(j), WorkerFacts(j), SystemFits, booted' = booted
  PROVE  JobFits(j)'
<1> USE DEF WorkerFacts, JobFits, Spares
<1>k. kind'[j] = kind[j] /\ copy'[j] = copy[j] /\ running' = running /\ secrets' = secrets
  OBVIOUS
<1>1. KindFits(j)'
  BY <1>k DEF Moves, KindFits, InstallPhases, RecoveryPhases, Ended
<1>2. SessionFits(j)'
  <2> SUFFICES ASSUME sess'[j] PROVE SessionFits(j)'
    BY DEF SessionFits
  <2>1. running = j => running # "disk"
    BY JobsAssumption DEF Others
  <2>2. ASSUME pc'[j] \in Building PROVE disk' = "wiped"
    <3>1. CASE pc'[j] = "inject"
      <4>1. pc[j] = "apply"
        BY <3>1 DEF Moves
      <4>2. sess[j] /\ disk' = disk
        BY <3>1, <4>1 DEF KeepsSession, WritesDisk
      <4> QED BY <4>1, <4>2 DEF SessionFits, Building
    <3>2. CASE pc'[j] # "inject"
      BY <2>2, <3>2 DEF WritesDisk, Building
    <3> QED BY <3>1, <3>2
  <2> QED BY <1>k, <2>1, <2>2 DEF KeepsSession, SessionFits, SessionSteps, RescueSteps, WritesDisk
<1>3. DiskFits(j)'
  <2>1. CASE disk' = disk
    BY <1>k, <2>1 DEF Moves, DiskFits, Ended
  <2>2. CASE disk' = "wiped"
    BY <2>2, JobsAssumption DEF DiskFits, Others
  <2>3. CASE pc[j] = "inject" /\ pc'[j] = "laid"
    BY <1>k, <2>3, KindOfPhase DEF DiskFits
  <2>4. CASE pc[j] = "imaging" /\ pc'[j] = "creds"
    BY <1>k, <2>4, KindOfPhase DEF DiskFits
  <2> QED BY <2>1, <2>2, <2>3, <2>4 DEF WritesDisk
<1>4. SecretsFit(j)'
  <2>1. CASE kind[j] = "c_drive" /\ pc'[j] = "success"
    <3>1. pc[j] = "poll"
      BY <2>1 DEF Moves, KindFits, RecoveryPhases, Ended
    <3> QED BY <1>k, <3>1 DEF Moves, SecretsFit
  <2>2. CASE kind[j] = "c_drive" /\ pc'[j] # "success"
    BY <1>k, <2>2 DEF Moves, SecretsFit
  <2> QED BY <1>k, <2>1, <2>2 DEF SecretsFit
<1>5. PinFits(j)'
  <2> SUFFICES ASSUME disk' = j, kind[j] = "c_drive", pc'[j] \in {"poll", "success"},
                      copy[j] # "none"
               PROVE  pin' \in {"none", j}
    BY <1>k DEF PinFits
  <2>1. CASE pc[j] = "clear"
    BY <2>1 DEF WritesPin
  <2>2. CASE pc[j] = "poll"
    <3>1. pin' = pin /\ disk' = disk
      BY <2>2 DEF WritesPin, WritesDisk, RescueSteps
    <3> QED BY <2>2, <3>1 DEF PinFits
  <2>3. pc[j] \in {"clear", "poll"}
    BY DEF Moves, KindFits, RecoveryPhases, Ended
  <2> QED BY <2>1, <2>2, <2>3
<1>6. BootFits(j)'
  <2> SUFFICES ASSUME kind[j] = "install", pc'[j] \in {"post", "finish", "success"}
               PROVE  j \in booted
    BY <1>k DEF BootFits
  <2>1. CASE pc[j] = "login2"
    <3>1. running = "disk" /\ disk = j
      BY <2>1 DEF Moves
    <3> QED BY <3>1 DEF SystemFits
  <2>2. CASE pc[j] \in {"post", "finish"}
    BY <2>2 DEF BootFits
  <2>3. pc[j] \in {"login2", "post", "finish"}
    BY DEF Moves, KindFits, InstallPhases, Ended
  <2> QED BY <2>1, <2>2, <2>3
<1> QED BY <1>1, <1>2, <1>3, <1>4, <1>5, <1>6

\* A job that did not move is safe from the one that did: the disk is not
\* written under a session in another system, and a pin is always that of
\* the disk.
LEMMA OthersStep ==
  ASSUME TypeOK, NEW j \in Jobs, NEW i \in Jobs \ {j}, JobFits(j), JobFits(i), WorkerFacts(j),
         booted' = booted
  PROVE  JobFits(i)'
<1> USE DEF WorkerFacts, JobFits, Spares
<1>k. /\ kind'[i] = kind[i] /\ copy'[i] = copy[i] /\ running' = running /\ secrets' = secrets
      /\ pc'[i] = pc[i] /\ sess'[i] = sess[i]
  OBVIOUS
<1>1. KindFits(i)' /\ SecretsFit(i)' /\ BootFits(i)'
  BY <1>k DEF KindFits, SecretsFit, BootFits
<1>2. SessionFits(i)'
  <2>1. pc[i] = "post" /\ sess[i] => running = "disk"
    BY DEF SessionFits, RescueSteps
  <2>2. disk' = disk \/ running = j
    BY DEF WritesDisk, SessionFits, RescueSteps
  <2>3. j # "disk"
    BY JobsAssumption DEF Others
  <2>4. pc[i] \in Building /\ sess[i] => disk = "wiped" /\ running = i
    BY DEF SessionFits, Building, RescueSteps
  <2> QED BY <1>k, <2>1, <2>2, <2>3, <2>4 DEF SessionFits
<1>3. disk' = i => disk = i
  BY JobsAssumption DEF WritesDisk, Others
<1>4. DiskFits(i)'
  BY <1>k, <1>3 DEF DiskFits
<1>5. PinFits(i)'
  BY <1>k, <1>3 DEF PinFits, WritesPin
<1> QED BY <1>1, <1>2, <1>4, <1>5

\* Steps of the operator, the machine, the process and the new Windows.
LEMMA OutsideStep ==
  ASSUME TypeOK, \A i \in Jobs : JobFits(i), NEW i \in Jobs,
         \/ \E j \in Jobs : Stall(j)
         \/ BootUp
         \/ /\ \/ \E j \in Jobs : Start(j) \/ RestoreStep(j)
               \/ ShutDown \/ ClickReset \/ ClickRescue \/ ToggleRescue \/ Crash
            /\ UNCHANGED <<booted, stalled>>
  PROVE  JobFits(i)'
<1> USE DEF JobFits, KindFits, SessionFits, DiskFits, SecretsFit, PinFits, BootFits, machine, Goto
<1>1. ASSUME NEW j \in Jobs, Start(j), booted' = booted PROVE JobFits(i)'
  <2>1. CASE i = j
    <3>1. kind'[i] \in Kinds /\ pc'[i] = (IF kind'[i] \in {"install", "c_drive"}
                                          THEN "activate" ELSE "connect")
          /\ sess' = sess /\ disk' = disk /\ ~sess[i] /\ disk # i
      BY <1>1, <2>1 DEF Start, TypeOK, SessionSteps, RescueSteps
    <3> QED BY <3>1 DEF Kinds, InstallPhases, RecoveryPhases
  <2>2. CASE i # j
    <3>1. /\ kind'[i] = kind[i] /\ pc'[i] = pc[i] /\ copy'[i] = copy[i]
          /\ UNCHANGED <<sess, disk, running, pin, secrets, booted>>
      BY <1>1, <2>2 DEF Start, TypeOK
    <3> QED BY <3>1
  <2> QED BY <2>1, <2>2
<1>2. ASSUME NEW j \in Jobs, RestoreStep(j), booted' = booted PROVE JobFits(i)'
  BY <1>2 DEF RestoreStep
<1>3. CASE ShutDown /\ booted' = booted
  BY <1>3 DEF ShutDown
<1>4. CASE BootUp
  <2>1. ~sess[i]
    BY <1>4, JobsAssumption DEF BootUp, Others
  <2>2. booted \subseteq booted'
    BY <1>4 DEF BootUp
  <2> QED BY <1>4, <2>1, <2>2 DEF BootUp
<1>5. CASE (ClickReset \/ ClickRescue \/ ToggleRescue) /\ booted' = booted
  BY <1>5 DEF ClickReset, ClickRescue, ToggleRescue
<1>6. CASE Crash /\ booted' = booted
  <2>1. /\ ~sess'[i] /\ UNCHANGED <<kind, copy, disk, running, pin, secrets, booted>>
        /\ pc'[i] = pc[i] \/ (pc[i] \in Live /\ pc'[i] = "killed")
    BY <1>6 DEF Crash, TypeOK
  <2>2. "idle" \notin Live
    BY DEF Live, RobotSteps, SessionSteps, RescueSteps
  <2> QED BY <2>1, <2>2 DEF Ended
<1>7. ASSUME NEW j \in Jobs, Stall(j) PROVE JobFits(i)'
  BY <1>7 DEF Stall
<1> QED BY <1>1, <1>2, <1>3, <1>4, <1>5, <1>6, <1>7

-----------------------------------------------------------------------------
\* A finished restore.ps1 stays finished, and a success rests on a report of
\* one.
LEMMA ReportStep ==
  ASSUME RInv, [Next]_vars
  PROVE  ReportFits' /\ RecoveryTruth'
<1> USE DEF ReportFits, RecoveryTruth
<1>t. ReportFits /\ RecoveryTruth /\ TypeOK /\ \A j \in Jobs : JobFits(j)
  BY DEF RInv
<1>1. ASSUME NEW j \in Jobs, Worker(j) PROVE ReportFits' /\ RecoveryTruth'
  <2>1. WorkerFacts(j)
    BY <1>1, <1>t, WorkerStep DEF JobFits
  <2>2. UNCHANGED <<kind, report, restore>> /\ \A i \in Jobs \ {j} : pc'[i] = pc[i]
    BY <2>1 DEF WorkerFacts, Spares, windows
  <2>3. ReportFits'
    BY <1>t, <2>2
  <2>4. kind[j] = "c_drive" /\ pc'[j] = "success" => report.done
    BY <1>t, <2>1 DEF WorkerFacts, Moves, JobFits, KindFits, RecoveryPhases, Ended
  <2> QED BY <1>t, <2>2, <2>3, <2>4
<1>2. ASSUME NEW j \in Jobs, Start(j) PROVE ReportFits' /\ RecoveryTruth'
  <2>1. /\ kind[j] = "none" /\ pc'[j] # "success" /\ UNCHANGED <<report, restore>>
        /\ \A i \in Jobs \ {j} : kind'[i] = kind[i] /\ pc'[i] = pc[i]
    BY <1>2, <1>t DEF Start, Goto, TypeOK, JobFits, KindFits, windows
  <2> QED BY <1>t, <2>1
<1>3. ASSUME NEW j \in Jobs, RestoreStep(j) PROVE ReportFits' /\ RecoveryTruth'
  <2>1. UNCHANGED <<kind, pc>> /\ kind[j] = "c_drive"
    BY <1>3 DEF RestoreStep
  <2>2. \A i \in Jobs : restore[i] = "done" => restore'[i] = "done"
    BY <1>3, <1>t DEF RestoreStep, TypeOK
  <2>3. CASE report' = report
    BY <1>t, <2>1, <2>2, <2>3
  <2>4. CASE report' = [by |-> j, done |-> restore[j] = "running"]
    <3>1. report'.by = j /\ (report'.done => restore[j] = "running")
      BY <2>4
    <3>2. restore[j] = "running" => restore'[j] = "done"
      BY <1>3, <1>t DEF RestoreStep, TypeOK
    <3> QED BY <1>t, <2>1, <2>2, <3>1, <3>2
  <2> QED BY <1>3, <2>3, <2>4 DEF RestoreStep
<1>4. CASE ShutDown
  <2>1. UNCHANGED <<kind, pc, report>> /\ \A i \in Jobs : restore[i] = "done" => restore'[i] = "done"
    BY <1>4, <1>t DEF ShutDown, TypeOK
  <2> QED BY <1>t, <2>1
<1>5. CASE \/ \E j \in Jobs : Stall(j)
           \/ BootUp \/ ClickReset \/ ClickRescue \/ ToggleRescue \/ UNCHANGED vars
  <2>1. UNCHANGED <<kind, pc, report, restore>>
    BY <1>5 DEF Stall, BootUp, ClickReset, ClickRescue, ToggleRescue, windows, vars
  <2> QED BY <1>t, <2>1
<1>6. CASE Crash
  <2>1. UNCHANGED <<kind, report, restore>> /\ \A i \in Jobs : pc'[i] = "success" => pc[i] = "success"
    BY <1>6, <1>t DEF Crash, TypeOK, windows
  <2> QED BY <1>t, <2>1
<1> QED BY <1>1, <1>2, <1>3, <1>4, <1>5, <1>6 DEF Next, Works

\* Only a boot makes the machine run its disk, and a disk is written from a
\* rescue system.
LEMMA SystemStep ==
  ASSUME RInv, [Next]_vars
  PROVE  SystemFits'
<1>t. SystemFits /\ TypeOK /\ \A j \in Jobs : JobFits(j)
  BY DEF RInv
<1>1. ASSUME NEW j \in Jobs, Works(j) PROVE SystemFits'
  <2>1. WorkerFacts(j) /\ SessionFits(j) /\ booted' = booted
    BY <1>1, <1>t, WorkerStep DEF Works, JobFits
  <2>2. running' = running /\ (disk' # disk => running = j)
    BY <2>1 DEF WorkerFacts, Spares, WritesDisk, SessionFits, RescueSteps
  <2> QED BY <1>t, <2>1, <2>2, JobsAssumption DEF SystemFits, Others
<1>2. CASE BootUp
  BY <1>2, JobsAssumption DEF BootUp, SystemFits
<1>3. CASE ShutDown
  BY <1>3 DEF ShutDown, SystemFits
<1>4. ASSUME UNCHANGED <<disk, running, booted>> PROVE SystemFits'
  BY <1>t, <1>4 DEF SystemFits
<1> QED BY <1>1, <1>2, <1>3, <1>4 DEF Next, Start, RestoreStep, ClickReset, ClickRescue,
           ToggleRescue, Crash, Stall, machine, vars

-----------------------------------------------------------------------------
\* The inductive invariant: where each job is, what its session runs in, and
\* what it has made of the disk, the pin and the report.
THEOREM RebuildInvariant == Spec => []RInv
<1>1. Init => RInv
  <2> SUFFICES ASSUME Init PROVE RInv
    OBVIOUS
  <2>1. TypeOK
    <3>1. report \in [by : Jobs \union {"nobody"}, done : BOOLEAN]
      BY DEF Init, NoReport
    <3>2. kind \in [Jobs -> Kinds \union {"none"}] /\ pc \in [Jobs -> {"idle"} \union Live \union Ended]
          /\ sess \in [Jobs -> BOOLEAN] /\ copy \in [Jobs -> Images \union {"none"}]
          /\ restore \in [Jobs -> {"unborn", "running", "done", "cut"}]
      BY DEF Init
    <3>3. disk \in Images \union {"wiped"} /\ pin \in Images \union {"none"}
          /\ running \in Askers \union {"disk", "booting", "nothing"} /\ rescue \in Askers \union {"off"}
      BY DEF Init, Images
    <3>4. resetting \in BOOLEAN
      BY Zenon DEF Init
    <3>5. secrets \in SUBSET {"password", "private_key"} /\ click \in {"none", "on", "off"}
      BY Zenon DEF Init
    <3>6. troubles \in 0..MaxTroubles
      BY BoundAssumption DEF Init
    <3>7. booted \subseteq Images /\ stalled \subseteq Jobs
      BY DEF Init, Images
    <3> HIDE DEF Init
    <3> QED BY <3>1, <3>2, <3>3, <3>4, <3>5, <3>6, <3>7 DEF TypeOK
  <2>2. \A j \in Jobs : JobFits(j)
    BY JobsAssumption DEF Init, JobFits, KindFits, SessionFits, DiskFits, SecretsFit, PinFits,
           BootFits, Others
  <2>3. ReportFits /\ RecoveryTruth /\ SystemFits
    BY DEF Init, ReportFits, RecoveryTruth, SystemFits, NoReport
  <2> QED BY <2>1, <2>2, <2>3 DEF RInv
<1>2. RInv /\ [Next]_vars => RInv'
  <2> SUFFICES ASSUME RInv, [Next]_vars PROVE RInv'
    OBVIOUS
  <2>1. TypeOK'
    <3>1. CASE UNCHANGED vars
      BY <3>1 DEF RInv, TypeOK, vars
    <3> QED BY <3>1, WorkerTypes, OtherTypes DEF RInv, Next, Works
  <2>2. ASSUME NEW i \in Jobs PROVE JobFits(i)'
    <3>1. ASSUME NEW j \in Jobs, Works(j) PROVE JobFits(i)'
      <4>1. WorkerFacts(j) /\ booted' = booted
        BY <3>1, WorkerStep DEF RInv, JobFits, Works
      <4> QED BY <4>1, OwnStep, OthersStep DEF RInv
    <3>2. CASE UNCHANGED vars
      BY <3>2 DEF RInv, vars, JobFits, KindFits, SessionFits, DiskFits, SecretsFit, PinFits,
         BootFits
    <3> QED BY <3>1, <3>2, OutsideStep DEF RInv, Next
  <2>3. ReportFits' /\ RecoveryTruth' /\ SystemFits'
    BY ReportStep, SystemStep
  <2> QED BY <2>1, <2>2, <2>3 DEF RInv
<1> QED BY <1>1, <1>2, PTL DEF Spec

\* The variables of ServerRebuild keep their types.
THEOREM RebuildTypes == Spec => []TypeOK
<1>1. RInv => TypeOK
  BY DEF RInv
<1> QED BY <1>1, RebuildInvariant, PTL

\* A recovery of C: that succeeded has some finished restore.ps1 behind it.
THEOREM RecoveryIsTrue == Spec => []RecoveryTruth
<1>1. RInv => RecoveryTruth
  BY DEF RInv
<1> QED BY <1>1, RebuildInvariant, PTL

\* A recovery of C: that succeeded had both secrets of its storage.
THEOREM BothSecretsNeeded == Spec => []SuccessNeedsBothSecrets
<1>1. RInv => SuccessNeedsBothSecrets
  BY DEF RInv, TypeOK, JobFits, SecretsFit, SuccessNeedsBothSecrets
<1> QED BY <1>1, RebuildInvariant, PTL

\* A pinned key of an OS that is gone has one of three causes.
THEOREM StalePinExplained == Spec => []StalePinHasACause
<1>1. RInv => StalePinHasACause
  <2> SUFFICES ASSUME RInv, disk \in Jobs, pin \notin {"none", disk}
               PROVE  \/ kind[disk] = "install"
                      \/ copy[disk] = "none"
                      \/ pc[disk] \in {"laid", "deactivate", "reboot", "clear", "failed",
                                       "killed"}
    BY DEF StalePinHasACause
  <2>1. DiskFits(disk) /\ PinFits(disk)
    BY DEF RInv, JobFits
  <2> QED BY <2>1 DEF DiskFits, PinFits, Ended
<1> QED BY <1>1, RebuildInvariant, PTL

\* The system disk is written only by a job that is alone on the machine, in
\* the rescue system it asked for.
DiskWrittenFromOwnRescue ==
  [][disk' # disk => \E j \in Jobs :
       /\ running = j /\ sess[j] /\ pc[j] \in RescueSteps
       /\ \A k \in Jobs \ {j} : ~sess[k]]_vars

\* Overlapping jobs may make each other fail, but never write both: whoever
\* writes the disk does it from its own rescue, with nobody else's session open.
THEOREM OnlyOwnRescueWrites == Spec => DiskWrittenFromOwnRescue
<1> DEFINE Write == disk' # disk => \E j \in Jobs :
                      /\ running = j /\ sess[j] /\ pc[j] \in RescueSteps
                      /\ \A k \in Jobs \ {j} : ~sess[k]
<1>1. RInv /\ [Next]_vars => [Write]_vars
  <2> SUFFICES ASSUME RInv, [Next]_vars, disk' # disk PROVE Write
    OBVIOUS
  <2>1. PICK j \in Jobs : Worker(j)
    BY DEF Next, Works, Stall, Start, RestoreStep, ShutDown, BootUp, ClickReset, ClickRescue,
           ToggleRescue, Crash, machine, vars
  <2>2. sess[j] /\ pc[j] \in RescueSteps
    BY <2>1, WorkerStep DEF RInv, JobFits, WorkerFacts, WritesDisk, RescueSteps
  <2>3. running = j
    BY <2>2 DEF RInv, JobFits, SessionFits
  <2>4. \A k \in Jobs \ {j} : ~sess[k]
    BY <2>3, JobsAssumption DEF RInv, JobFits, SessionFits, Others
  <2> QED BY <2>2, <2>3, <2>4
<1> QED BY <1>1, RebuildInvariant, PTL DEF Spec, DiskWrittenFromOwnRescue

-----------------------------------------------------------------------------
\* The image of a state in DiskClaim.
Inside == {j \in Jobs : sess[j]}
Claiming == {j \in Jobs : sess[j] /\ pc[j] \in Building}

\* What a worker does to the image, by what becomes of its session.
LEMMA WorkerClaims ==
  ASSUME RInv, NEW j \in Jobs, Works(j)
  PROVE  \/ Claim!Enter(j) \/ Claim!Wipe(j) \/ Claim!Build(j) \/ Claim!Exit(j)
         \/ UNCHANGED <<disk, running, Inside, Claiming>>
<1>1. WorkerFacts(j) /\ Worker(j) /\ UNCHANGED <<booted, stalled>>
  BY WorkerStep DEF RInv, JobFits, Works
<1>2. Moves(j) /\ KeepsSession(j) /\ WritesDisk(j) /\ UNCHANGED running
      /\ \A i \in Jobs \ {j} : pc'[i] = pc[i] /\ sess'[i] = sess[i]
  BY <1>1 DEF WorkerFacts, Spares
<1>3. /\ sess[j] \in BOOLEAN /\ sess'[j] \in BOOLEAN
      /\ \A i \in Jobs : SessionFits(i)
  BY <1>1, WorkerTypes DEF RInv, TypeOK, JobFits
<1>4. running = j => \A i \in Jobs \ {j} : ~sess[i]
  BY <1>3, JobsAssumption DEF SessionFits, Others
<1>c. Claiming = {i \in Jobs : sess[i] /\ pc[i] \in {"apply", "inject", "imaging"}}
      /\ Claiming' = {i \in Jobs : sess'[i] /\ pc'[i] \in {"apply", "inject", "imaging"}}
  BY DEF Claiming, Building
<1>5. CASE ~sess[j] /\ ~sess'[j]
  <2>1. disk' = disk
    BY <1>2, <1>5 DEF WritesDisk
  <2>2. Inside' = Inside /\ Claiming' = Claiming
    BY <1>2, <1>5 DEF Inside, Claiming
  <2> QED BY <1>2, <2>1, <2>2
<1>6. CASE ~sess[j] /\ sess'[j]
  <2>1. disk' = disk
    BY <1>2, <1>6 DEF WritesDisk
  <2>2. running = "disk" \/ running = j
    BY <1>2, <1>6 DEF KeepsSession
  <2>3. pc'[j] \notin Building
    BY <1>2, <1>6 DEF KeepsSession, Moves, Building, RescueSteps
  <2>4. Inside' = Inside \union {j} /\ j \notin Inside
    BY <1>2, <1>6 DEF Inside
  <2>5. Claiming' = Claiming
    BY <1>2, <1>6, <2>3 DEF Claiming
  <2>6. running = j => Inside = {}
    BY <1>4, <1>6 DEF Inside
  <2>7. Claim!Enter(j)
    BY <1>2, <2>1, <2>2, <2>4, <2>5, <2>6 DEF Claim!Enter, Inside, Claiming, Building
  <2> QED BY <2>7
<1>7. CASE sess[j] /\ ~sess'[j]
  <2>1. Inside' = Inside \ {j} /\ Claiming' = Claiming \ {j} /\ j \in Inside
    BY <1>2, <1>7 DEF Inside, Claiming
  <2>2. disk' = disk
    BY <1>2, <1>7 DEF WritesDisk
  <2>3. Claim!Exit(j)
    BY <1>2, <2>1, <2>2 DEF Claim!Exit, Inside, Claiming, Building
  <2> QED BY <2>3
<1>8. CASE sess[j] /\ sess'[j]
  <2>1. Inside' = Inside
    BY <1>2, <1>8 DEF Inside
  <2>2. pc[j] \in RescueSteps /\ running = j
    BY <1>2, <1>3, <1>8 DEF KeepsSession, SessionFits, SessionSteps, RescueSteps
  <2>3. Inside = {j} /\ Claiming = (IF pc[j] \in Building THEN {j} ELSE {})
    BY <1>4, <1>8, <2>2 DEF Inside, Claiming
  <2>4. Claiming' = (IF pc'[j] \in Building THEN {j} ELSE {})
    BY <1>2, <1>4, <1>8, <2>2 DEF Claiming
  <2>5. CASE pc[j] \in {"partition", "image"} /\ pc'[j] \in Building /\ disk' = "wiped"
    <3>1. Claim!Wipe(j)
      BY <1>2, <2>1, <2>2, <2>3, <2>4, <2>5 DEF Claim!Wipe, Inside, Claiming, Building
    <3> QED BY <3>1
  <2>6. CASE /\ \/ pc[j] = "imaging" /\ pc'[j] = "creds"
                \/ pc[j] = "inject" /\ pc'[j] = "laid"
             /\ disk' = j
    <3>1. disk = "wiped"
      BY <1>3, <1>8, <2>6 DEF SessionFits, Building
    <3>2. Claim!Build(j)
      BY <1>2, <2>1, <2>2, <2>3, <2>4, <2>6, <3>1 DEF Claim!Build, Inside, Claiming, Building
    <3> QED BY <3>2
  <2>7. CASE disk' = disk /\ pc'[j] \notin {"apply", "laid", "imaging", "creds"}
    <3>1. pc[j] \in Building <=> pc'[j] \in Building
      BY <1>2, <2>2, <2>7, <1>8 DEF Moves, KeepsSession, RescueSteps, Building
    <3> QED BY <1>2, <2>1, <2>3, <2>4, <2>7, <3>1
  <2> QED BY <1>2, <1>8, <2>5, <2>6, <2>7 DEF WritesDisk, Building
<1> QED BY <1>3, <1>5, <1>6, <1>7, <1>8

\* Jobs that overlap without a lock share the disk as DiskClaim says: each
\* wipes it and lays its OS on it in one session of its own rescue system.
THEOREM ImplementsDiskClaim == Spec => DiskClaimSpec
<1> USE DEF Inside, Claiming, Building
<1>1. Init => Claim!Init
  BY DEF Init, Claim!Init
<1>2. RInv /\ [Next]_vars => [Claim!Next]_(Claim!vars)
  <2> SUFFICES ASSUME RInv, [Next]_vars PROVE Claim!Next \/ UNCHANGED Claim!vars
    OBVIOUS
  <2>t. TypeOK /\ \A j \in Jobs : JobFits(j)
    BY DEF RInv
  <2>1. ASSUME NEW j \in Jobs, Works(j) PROVE Claim!Next \/ UNCHANGED Claim!vars
    BY <2>1, WorkerClaims DEF Claim!Next, Claim!vars
  <2>2. ASSUME NEW j \in Jobs, Start(j) PROVE UNCHANGED Claim!vars
    <3>1. ~sess[j] /\ UNCHANGED <<sess, disk, running>> /\ \A i \in Jobs \ {j} : pc'[i] = pc[i]
      BY <2>2, <2>t DEF Start, Goto, machine, TypeOK, JobFits, SessionFits, SessionSteps, RescueSteps
    <3> QED BY <3>1 DEF Claim!vars
  <2>3. ASSUME NEW j \in Jobs, RestoreStep(j) \/ Stall(j) PROVE UNCHANGED Claim!vars
    BY <2>3 DEF RestoreStep, Stall, machine, Claim!vars
  <2>4. CASE ShutDown
    <3>1. Claim!GoDown
      BY <2>4 DEF ShutDown, Claim!GoDown
    <3> QED BY <3>1 DEF Claim!Next
  <2>5. CASE BootUp
    <3>1. \A i \in Jobs : ~sess[i]
      BY <2>5, <2>t, JobsAssumption DEF BootUp, JobFits, SessionFits, Others
    <3>2. running' \in Jobs \union {"operator", "disk", "nothing"}
      BY <2>5, <2>t DEF BootUp, TypeOK, Askers
    <3>3. running' = "disk" => disk # "wiped"
      BY <2>5, <2>t, JobsAssumption DEF BootUp, TypeOK, Askers, Others
    <3>4. Claim!ComeUp
      BY <2>5, <3>1, <3>2, <3>3 DEF BootUp, Claim!ComeUp
    <3> QED BY <3>4 DEF Claim!Next
  <2>6. CASE ClickReset \/ ClickRescue \/ ToggleRescue \/ UNCHANGED vars
    BY <2>6 DEF ClickReset, ClickRescue, ToggleRescue, machine, vars, Claim!vars
  <2>7. CASE Crash
    <3>1. Claim!Abandon
      BY <2>7 DEF Crash, machine, Claim!Abandon
    <3> QED BY <3>1 DEF Claim!Next
  <2> QED BY <2>1, <2>2, <2>3, <2>4, <2>5, <2>6, <2>7 DEF Next
<1> QED BY <1>1, <1>2, RebuildInvariant, PTL DEF Spec, DiskClaimSpec, Claim!Spec

-----------------------------------------------------------------------------
\* An install that reports success has laid down an OS that the machine has
\* run.
THEOREM InstalledOsHasRun == Spec => []InstallTruth
<1>1. RInv => InstallTruth
  BY DEF RInv, JobFits, BootFits, InstallTruth
<1> QED BY <1>1, RebuildInvariant, PTL

-----------------------------------------------------------------------------
\* How many phases a job in this phase can still go through.
PhasesLeft(phase) ==
  CASE phase = "idle" -> 15
    [] phase = "activate" -> 14
    [] phase = "reset" -> 13
    [] phase = "wait" -> 12
    [] phase = "login" -> 11
    [] phase = "tools" -> 10
    [] phase = "iso" -> 9
    [] phase \in {"partition", "image"} -> 8
    [] phase \in {"apply", "imaging"} -> 7
    [] phase \in {"inject", "creds"} -> 6
    [] phase \in {"laid", "restart"} -> 5
    [] phase \in {"deactivate", "wait2"} -> 4
    [] phase \in {"reboot", "login2"} -> 3
    [] phase \in {"clear", "post", "connect"} -> 2
    [] phase \in {"poll", "finish", "restore", "work"} -> 1
    [] OTHER -> 0

\* A worker never goes back: every one of its steps leaves it fewer phases,
\* and no step of anybody else's gives it one more.
PhasesMoveOn ==
  [][\A j \in Jobs :
       /\ PhasesLeft(pc'[j]) <= PhasesLeft(pc[j])
       /\ pc'[j] # pc[j] => PhasesLeft(pc'[j]) < PhasesLeft(pc[j])
       /\ Works(j) => pc'[j] # pc[j]]_vars

LEMMA PhasesCounted ==
  ASSUME NEW p, p \in {"idle"} \union Live \union Ended
  PROVE  /\ PhasesLeft(p) \in 0..15
         /\ p \in Live => PhasesLeft(p) \in 1..14
         /\ p \in Ended <=> PhasesLeft(p) = 0
<1>1. p \in Live =>
         \/ PhasesLeft(p) \in {1, 2, 3, 4, 5, 6, 7} /\ p \notin Ended
         \/ PhasesLeft(p) \in {8, 9, 10, 11, 12, 13, 14} /\ p \notin Ended
  BY DEF PhasesLeft, Live, Ended, RobotSteps, SessionSteps, RescueSteps
<1>2. p = "idle" => PhasesLeft(p) = 15 /\ p \notin Ended
  BY DEF PhasesLeft, Ended
<1>3. p \in Ended => PhasesLeft(p) = 0
  BY DEF PhasesLeft, Ended
<1>4. p \in Live => PhasesLeft(p) \in 1..14 /\ p \notin Ended
  BY <1>1
<1> QED BY <1>2, <1>3, <1>4

LEMMA MovesForward ==
  ASSUME NEW j \in Jobs, Moves(j)
  PROVE  PhasesLeft(pc'[j]) < PhasesLeft(pc[j])
BY DEF Moves, PhasesLeft

\* Every job goes through each of its phases at most once, whatever happens
\* to the machine, to the panel and to the jobs beside it: it wipes a disk
\* once, and it ends within fifteen of its own steps if it takes them.
THEOREM PhasesAreNotRepeated == Spec => PhasesMoveOn
<1> DEFINE On(j) == /\ PhasesLeft(pc'[j]) <= PhasesLeft(pc[j])
                    /\ pc'[j] # pc[j] => PhasesLeft(pc'[j]) < PhasesLeft(pc[j])
                    /\ Works(j) => pc'[j] # pc[j]
<1>1. RInv /\ [Next]_vars => [\A j \in Jobs : On(j)]_vars
  <2> SUFFICES ASSUME RInv, Next, NEW j \in Jobs PROVE On(j)
    OBVIOUS
  <2>t. TypeOK /\ PhasesLeft(pc[j]) \in 0..15
    BY PhasesCounted DEF RInv, TypeOK
  <2>1. ASSUME NEW k \in Jobs, Works(k) PROVE Moves(k) /\ \A i \in Jobs \ {k} : pc'[i] = pc[i]
    BY <2>1, WorkerStep DEF RInv, JobFits, WorkerFacts, Spares, Works
  <2>2. CASE Works(j)
    <3>1. PhasesLeft(pc'[j]) < PhasesLeft(pc[j]) /\ PhasesLeft(pc'[j]) \in 0..15
      <4>1. pc'[j] \in {"idle"} \union Live \union Ended
        BY <2>t, <2>2, WorkerTypes DEF Works, TypeOK
      <4> QED BY <2>1, <2>2, <4>1, MovesForward, PhasesCounted
    <3> QED BY <2>t, <3>1
  <2>3. CASE ~Works(j)
    <3>1. CASE pc'[j] = pc[j]
      BY <2>t, <2>3, <3>1
    <3>2. CASE pc[j] = "idle" /\ pc'[j] \in {"activate", "connect"}
      BY <2>3, <3>2 DEF PhasesLeft
    <3>3. CASE pc[j] \in Live /\ pc'[j] = "killed"
      <4>1. PhasesLeft(pc[j]) \in 1..14 /\ PhasesLeft(pc'[j]) = 0
        BY <3>3, PhasesCounted DEF Ended
      <4> QED BY <2>3, <4>1
    <3>4. ASSUME NEW k \in Jobs, Start(k) PROVE On(j)
      <4>1. pc'[j] = pc[j] \/ (pc[j] = "idle" /\ pc'[j] \in {"activate", "connect"})
        BY <2>t, <3>4 DEF Start, Goto, TypeOK
      <4> QED BY <3>1, <3>2, <4>1
    <3>5. CASE Crash
      <4>1. pc'[j] = pc[j] \/ (pc[j] \in Live /\ pc'[j] = "killed")
        BY <3>5 DEF Crash
      <4> QED BY <3>1, <3>3, <4>1
    <3>6. ASSUME NEW k \in Jobs, Works(k) PROVE On(j)
      BY <2>1, <2>3, <3>1, <3>6
    <3>7. CASE \/ \E k \in Jobs : RestoreStep(k) \/ Stall(k)
               \/ ShutDown \/ BootUp \/ ClickReset \/ ClickRescue \/ ToggleRescue
      <4>1. pc' = pc
        BY <3>7 DEF RestoreStep, Stall, ShutDown, BootUp, ClickReset, ClickRescue, ToggleRescue
      <4> QED BY <3>1, <4>1
    <3> HIDE DEF On
    <3> QED BY <3>4, <3>5, <3>6, <3>7 DEF Next
  <2> HIDE DEF On
  <2> QED BY <2>2, <2>3
<1> QED BY <1>1, RebuildInvariant, PTL DEF Spec, PhasesMoveOn
=============================================================================
