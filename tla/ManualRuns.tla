------------------------------ MODULE ManualRuns ------------------------------
(***************************************************************************)
(* Manual backup runs on one server.  Each run of BackupService.run uploads*)
(* its plan to the server's one plan.json, starts backup.ps1 on it and,    *)
(* when the script is over, reads the one report.json.  Nothing keeps two  *)
(* runs apart, nothing removes the report of an earlier run, and a script  *)
(* may outlive the connection that started it.                             *)
(*                                                                         *)
(* A plan is named by the run it was built for, a report by the run whose  *)
(* script wrote it and the plan that script had read.                      *)
(***************************************************************************)
EXTENDS Naturals, FiniteSets

CONSTANTS
  Runs,      \* the manual runs on the server, of any of its configs
  MaxSilent  \* bound: connections that die without a word

ASSUME RunsAssumption == {"none", "torn", "unreadable"} \intersect Runs = {}

ASSUME SilentAssumption == MaxSilent \in Nat

VARIABLES
  pc,        \* pc[r]: where BackupService.run is
  script,    \* script[r]: where the backup.ps1 of r is
  read,      \* read[r]: the plan that script read
  plan,      \* plan.json: whose it is, "none", or "torn" while it is written
  report,    \* report.json, NoReport, or Torn
  got,       \* got[r]: the report r's verdict was computed from
  overlapped,\* the runs that were not alone on the server all along
  mute       \* the runs whose connection carries nothing any more, unnoticed

vars == <<pc, script, read, plan, report, got, overlapped, mute>>

NoReport == [by |-> "none", plan |-> "none"]
Torn     == [by |-> "torn", plan |-> "none"]
Reports  == {NoReport, Torn} \union [by : Runs, plan : Runs \union {"unreadable"}]

InFlight == {"connecting", "uploading", "uploaded", "streaming"}
Running  == {"launched", "working", "writing"}

TypeOK ==
  /\ pc \in [Runs -> {"idle", "judged", "unreadable", "lost"} \union InFlight]
  /\ script \in [Runs -> {"none", "done", "dead"} \union Running]
  /\ read \in [Runs -> Runs \union {"none", "unreadable"}]
  /\ plan \in Runs \union {"none", "torn"}
  /\ report \in Reports
  /\ got \in [Runs -> Reports \ {Torn}]
  /\ overlapped \subseteq Runs
  /\ mute \subseteq Runs

Init ==
  /\ pc = [r \in Runs |-> "idle"]
  /\ script = [r \in Runs |-> "none"]
  /\ read = [r \in Runs |-> "none"]
  /\ plan = "none"
  /\ report = NoReport
  /\ got = [r \in Runs |-> NoReport]
  /\ overlapped = {}
  /\ mute = {}

-----------------------------------------------------------------------------
(***************************************************************************)
(* BackupService.run                                                       *)
(***************************************************************************)

Busy(r) == pc[r] \in InFlight \/ script[r] \in Running

\* There is no guard: a run starts whatever else is running.
Start(r) ==
  /\ pc[r] = "idle"
  /\ pc' = [pc EXCEPT ![r] = "connecting"]
  /\ LET others == {k \in Runs : k # r /\ Busy(k)}
     IN overlapped' = overlapped \union others \union (IF others = {} THEN {} ELSE {r})
  /\ UNCHANGED <<script, read, plan, report, got, mute>>

\* put_file opens plan.json for writing, which empties it ...
BeginUpload(r) ==
  /\ pc[r] = "connecting"
  /\ r \notin mute
  /\ pc' = [pc EXCEPT ![r] = "uploading"]
  /\ plan' = "torn"
  /\ UNCHANGED <<script, read, report, got, overlapped, mute>>

\* ... and then writes the plan of this run.
EndUpload(r) ==
  /\ pc[r] = "uploading"
  /\ r \notin mute
  /\ pc' = [pc EXCEPT ![r] = "uploaded"]
  /\ plan' = r
  /\ UNCHANGED <<script, read, report, got, overlapped, mute>>

\* Mutant of Launch: the script is started before the plan is uploaded.
LaunchEarly(r) ==
  /\ pc[r] \in {"connecting", "uploaded"}
  /\ r \notin mute
  /\ pc' = [pc EXCEPT ![r] = "streaming"]
  /\ script' = [script EXCEPT ![r] = "launched"]
  /\ UNCHANGED <<read, plan, report, got, overlapped, mute>>

Launch(r) ==
  /\ pc[r] = "uploaded"
  /\ r \notin mute
  /\ pc' = [pc EXCEPT ![r] = "streaming"]
  /\ script' = [script EXCEPT ![r] = "launched"]
  /\ UNCHANGED <<read, plan, report, got, overlapped, mute>>

\* A missing or half-written report is an exception ("Cannot read remote
\* report", the row fails), any other one is applied.
Judge(r) ==
  IF report \in {NoReport, Torn}
    THEN pc' = [pc EXCEPT ![r] = "unreadable"] /\ UNCHANGED got
    ELSE pc' = [pc EXCEPT ![r] = "judged"] /\ got' = [got EXCEPT ![r] = report]

\* Mutant of FetchReport: the stream's end is not waited for.
FetchReportEarly(r) ==
  /\ pc[r] = "streaming"
  /\ r \notin mute
  /\ Judge(r)
  /\ UNCHANGED <<script, read, plan, report, overlapped, mute>>

\* Mutant of FetchReport: only a script that completed ends the stream.
FetchReportOfDone(r) ==
  /\ pc[r] = "streaming"
  /\ r \notin mute
  /\ script[r] = "done"
  /\ Judge(r)
  /\ UNCHANGED <<script, read, plan, report, overlapped, mute>>

\* execute_stream returns when sshd reports the end of the script, however it
\* ended; the exit code is not looked at.
FetchReport(r) ==
  /\ pc[r] = "streaming"
  /\ r \notin mute
  /\ script[r] \in {"done", "dead"}
  /\ Judge(r)
  /\ UNCHANGED <<script, read, plan, report, overlapped, mute>>

\* An SSH error in any step: run's except branch; the script is not stopped.
LoseConnection(r) ==
  /\ pc[r] \in InFlight
  /\ pc' = [pc EXCEPT ![r] = "lost"]
  /\ UNCHANGED <<script, read, plan, report, got, overlapped, mute>>

\* The server is reset without a word, or the network between the two is cut:
\* no call of the run has a deadline or a keepalive that would notice.
FallSilent(r) ==
  /\ pc[r] \in InFlight
  /\ Cardinality(mute) < MaxSilent
  /\ mute' = mute \union {r}
  /\ UNCHANGED <<pc, script, read, plan, report, got, overlapped>>

-----------------------------------------------------------------------------
(***************************************************************************)
(* backup.ps1                                                              *)
(***************************************************************************)

\* Mutant of ReadPlan: a half-written plan is taken as it is.
ReadAnyPlan(r) ==
  /\ script[r] = "launched"
  /\ script' = [script EXCEPT ![r] = "working"]
  /\ read' = [read EXCEPT ![r] = plan]
  /\ UNCHANGED <<pc, plan, report, got, overlapped, mute>>

\* The plan is read once, at the start.
ReadPlan(r) ==
  /\ script[r] = "launched"
  /\ script' = [script EXCEPT ![r] = "working"]
  /\ read' = [read EXCEPT ![r] = IF plan \in Runs THEN plan ELSE "unreadable"]
  /\ UNCHANGED <<pc, plan, report, got, overlapped, mute>>

\* WriteAllText empties the report and then writes it.
BeginReport(r) ==
  /\ script[r] = "working"
  /\ script' = [script EXCEPT ![r] = "writing"]
  /\ report' = Torn
  /\ UNCHANGED <<pc, read, plan, got, overlapped, mute>>

EndReport(r) ==
  /\ script[r] = "writing"
  /\ script' = [script EXCEPT ![r] = "done"]
  /\ report' = [by |-> r, plan |-> read[r]]
  /\ UNCHANGED <<pc, read, plan, got, overlapped, mute>>

\* The process is ended, by sshd, by hand or with the server (a hard reset is
\* this and FallSilent, in either order).
Kill(r) ==
  /\ script[r] \in Running
  /\ script' = [script EXCEPT ![r] = "dead"]
  /\ UNCHANGED <<pc, read, plan, report, got, overlapped, mute>>

Next ==
  \E r \in Runs :
    \/ Start(r) \/ BeginUpload(r) \/ EndUpload(r) \/ Launch(r)
    \/ FetchReport(r) \/ LoseConnection(r) \/ FallSilent(r)
    \/ ReadPlan(r) \/ BeginReport(r) \/ EndReport(r) \/ Kill(r)

Spec == Init /\ [][Next]_vars

\* The panel goes on when sshd has told it that the script is over.  Neither
\* that a script ever ends is assumed (execute_stream does not enforce the run's
\* timeout) nor that the word arrives: a mute run is owed nothing.
FairSpec == Spec /\ \A r \in Runs : WF_vars(FetchReport(r))

-----------------------------------------------------------------------------
(***************************************************************************)
(* Properties                                                              *)
(***************************************************************************)

\* A run that was alone on the server, orphans of earlier runs included, and
\* whose script completed gets the verdict of its own execution of its own
\* plan: never the report of an earlier run, and never "cannot read report".
VerdictIsOwn ==
  \A r \in Runs \ overlapped :
    script[r] = "done" /\ pc[r] \in {"judged", "unreadable"}
      => pc[r] = "judged" /\ got[r] = [by |-> r, plan |-> r]

\* No script works on the plan of another run, or on a torn one, except under
\* overlap: what an earlier run left in plan.json is never executed.
ExecutesOwnPlan ==
  \A r \in Runs \ overlapped : read[r] \in {r, "none"}

\* However its script ended, the run ends: a killed script does not leave the
\* page at "running".  The one exception is a connection that died silently:
\* execute_stream then polls for ever.
ScriptEndEndsRun ==
  \A r \in Runs :
    []<>~(pc[r] = "streaming" /\ script[r] \in {"done", "dead"} /\ r \notin mute)

=============================================================================
