----------------------------- MODULE BackupScript -----------------------------
(***************************************************************************)
(* One backup run as three parties see it: backup.ps1 works through the    *)
(* plan's destinations and writes report.json, Telegram gets its overall   *)
(* status, and the panel turns the report into a history row, at the end   *)
(* of a manual run or when it next syncs a scheduled one.                  *)
(*                                                                         *)
(* The run is the first to use its report file; files that several runs    *)
(* share are the subject of ManualRuns and ScheduledSync.  An item is one  *)
(* alias copied to one destination; of a destination's items only the set  *)
(* of their statuses is kept.                                              *)
(***************************************************************************)
EXTENDS Naturals, Sequences

CONSTANT MaxDests   \* bound: destinations of the plan

ASSUME MaxDestsAssumption == MaxDests \in Nat

VARIABLES
  origin,  \* who runs the script: the panel ("manual") or Task Scheduler
  stage,   \* where the script is
  dest,    \* the destination it is in: its kind and its items' statuses
  recs,    \* $results: status of each destination, and whether error is set
  report,  \* report.json, or NoReport
  alert,   \* the overall status Telegram was sent, or "none"
  row,     \* the history row: absent, running or a verdict
  cut,     \* the panel lost the script's output stream
  harmed   \* a copy went wrong in a way the script has a check for

vars == <<origin, stage, dest, recs, report, alert, row, cut, harmed>>

Kinds == {"local", "storage"}

\* A source is copied as it is, a single file or a directory, or as a zip.  Its
\* copy is whole, was cut short without an error, or failed; an unknown alias
\* has no source.
Types == {"file", "dir", "zip"}
Fates == {"whole", "short", "error", "unknown"}

ItemStatuses == {"success", "failed", "skipped"}
Statuses == {"success", "partial", "failed", "skipped"}
Verdicts == {"success", "partial", "failed"}
NoDest == [kind |-> "local", items |-> {}]
NoReport == [dests |-> <<>>, runId |-> FALSE, written |-> FALSE]

Recs == [status : Statuses, error : BOOLEAN]

TypeOK ==
  /\ origin \in {"manual", "scheduled"}
  /\ stage \in {"reading", "choosing", "copying", "reporting", "alerting", "exited", "killed"}
  /\ dest \in [kind : Kinds, items : SUBSET ItemStatuses]
  /\ recs \in Seq(Recs) /\ Len(recs) <= MaxDests
  /\ report.dests \in {<<>>, recs} /\ report.runId \in BOOLEAN /\ report.written \in BOOLEAN
  /\ alert \in Verdicts \union {"none"}
  /\ row \in Verdicts \union {IF origin = "manual" THEN "running" ELSE "absent"}
  /\ cut \in BOOLEAN
  /\ harmed \in BOOLEAN

Init ==
  /\ origin \in {"manual", "scheduled"}
  /\ stage = "reading"
  /\ dest = NoDest
  /\ recs = <<>>
  /\ report = NoReport
  /\ alert = "none"
  /\ row = IF origin = "manual" THEN "running" ELSE "absent"
  /\ cut = FALSE
  /\ harmed = FALSE

-----------------------------------------------------------------------------
(***************************************************************************)
(* backup.ps1                                                              *)
(***************************************************************************)

\* Mutant of ItemStatus: exit 0 of scp is taken for a whole upload.
ItemStatusNoStat(kind, type, fate) ==
  CASE fate = "unknown" -> "skipped"
    [] fate = "error" /\ ~(kind = "local" /\ type = "file") -> "failed"
    [] OTHER -> "success"

\* What is sent to a storage is compared in size unless it is a directory.
\* Copy-Item's error does not terminate, try/catch misses it: locally a plain
\* file's copy passes, while zip and scp find no file to work on.
ItemStatus(kind, type, fate) ==
  CASE fate = "unknown" -> "skipped"
    [] fate = "error" /\ ~(kind = "local" /\ type = "file") -> "failed"
    [] fate = "short" /\ kind = "storage" /\ type # "dir" -> "failed"
    [] OTHER -> "success"

\* What the script's checks are there to find: robocopy's and scp's exit codes,
\* exceptions of the zip library, the size of an uploaded file.
Checked(kind, type, fate) ==
  \/ fate = "error" /\ (type # "file" \/ kind = "storage")
  \/ fate = "short" /\ type # "dir"

\* A destination's status, from its items'.
DestStatus(items) ==
  IF "failed" \notin items THEN "success"
  ELSE IF "success" \in items THEN "partial"
  ELSE "failed"

Has(dests, status) == \E i \in DOMAIN dests : dests[i].status = status

\* Mutant of Overall: a failed destination decides before the good ones count.
OverallFailedFirst(dests) ==
  IF dests = <<>> \/ Has(dests, "failed") THEN "failed"
  ELSE IF Has(dests, "partial") THEN "partial"
  ELSE "success"

\* $overall, the status in the Telegram message.
Overall(dests) ==
  IF dests = <<>> THEN "failed"
  ELSE IF Has(dests, "failed") THEN (IF Has(dests, "success") THEN "partial" ELSE "failed")
  ELSE IF Has(dests, "partial") THEN "partial"
  ELSE "success"

\* "cannot read plan": a report without run_id, no message, exit 2.
PlanUnreadable ==
  /\ stage = "reading"
  /\ stage' = "exited"
  /\ report' = [dests |-> <<>>, runId |-> FALSE, written |-> TRUE]
  /\ UNCHANGED <<origin, dest, recs, alert, row, cut, harmed>>

ReadPlan ==
  /\ stage = "reading"
  /\ stage' = "choosing"
  /\ UNCHANGED <<origin, dest, recs, report, alert, row, cut, harmed>>

StartDestination ==
  /\ stage = "choosing"
  /\ Len(recs) < MaxDests
  /\ stage' = "copying"
  /\ \E k \in Kinds : dest' = [kind |-> k, items |-> {}]
  /\ UNCHANGED <<origin, recs, report, alert, row, cut, harmed>>

\* Robocopy and Copy-Item do not stop early in silence; scp may.
CopyItem ==
  /\ stage = "copying"
  /\ \E type \in Types, fate \in Fates :
       /\ fate = "short" => dest.kind = "storage"
       /\ dest' = [dest EXCEPT !.items = @ \union {ItemStatus(dest.kind, type, fate)}]
       /\ harmed' = (harmed \/ Checked(dest.kind, type, fate))
  /\ UNCHANGED <<origin, stage, recs, report, alert, row, cut>>

Record(status, error) ==
  /\ stage = "copying"
  /\ stage' = "choosing"
  /\ recs' = Append(recs, [status |-> status, error |-> error])
  /\ dest' = NoDest
  /\ UNCHANGED <<origin, report, alert, row, cut, harmed>>

\* The destination went through its aliases: its own error stays $null.
EndDestination == Record(DestStatus(dest.items), FALSE)

\* frequency weekly, and it is not Sunday.
SkipWeekly == dest.kind = "storage" /\ dest.items = {} /\ Record("skipped", TRUE)

\* Unsupported storage, unknown kind, or an exception that left the function.
FailDestination == Record("failed", TRUE)

EndDestinations ==
  /\ stage = "choosing"
  /\ stage' = "reporting"
  /\ UNCHANGED <<origin, dest, recs, report, alert, row, cut, harmed>>

WriteReport ==
  /\ stage = "reporting"
  /\ stage' = "alerting"
  /\ report' = [dests |-> recs, runId |-> TRUE, written |-> TRUE]
  /\ UNCHANGED <<origin, dest, recs, alert, row, cut, harmed>>

\* The message is sent, or Telegram is not configured or does not answer.
Alert ==
  /\ stage = "alerting"
  /\ stage' = "exited"
  /\ alert' \in {Overall(recs), "none"}
  /\ UNCHANGED <<origin, dest, recs, report, row, cut, harmed>>

\* The task's time limit, a reboot, a killed session.
Kill ==
  /\ stage \notin {"exited", "killed"}
  /\ stage' = "killed"
  /\ UNCHANGED <<origin, dest, recs, report, alert, row, cut, harmed>>

Script ==
  \/ PlanUnreadable \/ ReadPlan \/ StartDestination \/ CopyItem \/ EndDestination
  \/ SkipWeekly \/ FailDestination \/ EndDestinations \/ WriteReport \/ Alert

-----------------------------------------------------------------------------
(***************************************************************************)
(* The panel                                                               *)
(***************************************************************************)

\* Mutant of Aggregate: the empty report is not looked at.
AggregateNoEmpty(dests) ==
  IF Has(dests, "failed")
    THEN (IF Has(dests, "success") THEN "partial" ELSE "failed")
    ELSE "success"

\* Mutant of Aggregate: a run whose destinations were all skipped gets their status.
AggregateSkipped(dests) ==
  IF dests = <<>> THEN "failed"
  ELSE IF Has(dests, "failed") THEN (IF Has(dests, "success") THEN "partial" ELSE "failed")
  ELSE IF Has(dests, "success") THEN "success"
  ELSE "skipped"

\* The verdict of _apply_report and of sync_reports_from_server: destinations
\* that are partial or skipped count neither as good nor as failed.
Aggregate(dests) ==
  IF dests = <<>> THEN "failed"
  ELSE IF Has(dests, "failed") THEN (IF Has(dests, "success") THEN "partial" ELSE "failed")
  ELSE "success"

\* Mutant of Raises: the errors of all destinations are joined.
RaisesOnAny(dests) == \E i \in DOMAIN dests : ~dests[i].error

\* "; ".join over the errors of the first three failed destinations: a null
\* among them (all items failed, no error of its own) is a TypeError.
Raises(dests) ==
  \E i \in DOMAIN dests :
    /\ dests[i].status = "failed" /\ ~dests[i].error
    /\ ~ \E a, b, c \in 1..(i - 1) :
           /\ a < b /\ b < c
           /\ \A k \in {a, b, c} : dests[k].status = "failed"

\* The panel is still waiting for the script it started.
Waiting == origin = "manual" /\ row = "running"

\* run() reads the report once the script's channel is closed; a missing report
\* and a TypeError end in its except branch.
ReadReport ==
  /\ Waiting
  /\ stage \in {"exited", "killed"}
  /\ row' = IF ~report.written \/ Raises(report.dests) THEN "failed" ELSE Aggregate(report.dests)
  /\ UNCHANGED <<origin, stage, dest, recs, report, alert, cut, harmed>>

\* The connection fails while the script runs; the script may live on.
LoseConnection ==
  /\ Waiting
  /\ row' = "failed"
  /\ cut' = TRUE
  /\ UNCHANGED <<origin, stage, dest, recs, report, alert, harmed>>

\* sync_reports_from_server: a report without run_id is passed over, and a
\* TypeError aborts the sync before anything is added.
Importable == report.runId /\ ~Raises(report.dests)

Sync ==
  /\ origin = "scheduled"
  /\ row = "absent"
  /\ Importable
  /\ row' = Aggregate(report.dests)
  /\ UNCHANGED <<origin, stage, dest, recs, report, alert, cut, harmed>>

Next == Script \/ Kill \/ ReadReport \/ LoseConnection \/ Sync

Spec == Init /\ [][Next]_vars

\* The panel reads what is there to read: run() waits for the script, and the
\* sync loop comes round again and again.
FairSpec == Spec /\ WF_vars(ReadReport) /\ WF_vars(Sync)

-----------------------------------------------------------------------------
(***************************************************************************)
(* Properties                                                              *)
(***************************************************************************)

\* The green message is earned: no copy went wrong in a way the script checks
\* for, there was a destination, and none failed or was partial.
AlertNotTooGood ==
  alert = "success" =>
    /\ ~harmed
    /\ recs # <<>>
    /\ \A i \in DOMAIN recs : recs[i].status \in {"success", "skipped"}

\* The panel shows success only for a run that wrote its report, had a
\* destination and had none that failed outright, however the script ended and
\* whichever path the report took into the row.
RowNotTooGood ==
  row = "success" => report.written /\ recs # <<>> /\ ~Has(recs, "failed")

ErrorsSet(dests) == \A i \in DOMAIN dests : dests[i].status = "failed" => dests[i].error

\* The row and the message are computed by two programs that must agree.  On a
\* run the panel saw through they differ in two ways only: no destination failed
\* and one was partial, which the panel counts as a success; or joining the
\* errors raised, which fails a manual run whatever its report says.
VerdictMatchesAlert ==
  (alert # "none" /\ row \in Verdicts /\ ~cut /\ row # alert) =>
    \/ row = "success" /\ alert = "partial" /\ Has(recs, "partial")
    \/ row = "failed" /\ origin = "manual" /\ Raises(recs)

\* A scheduled run whose report has a run_id gets its row, provided every
\* destination that failed says why; nothing else keeps it out, in particular
\* not a good destination's null error, nor skipped or partial ones.
Imported ==
  (origin = "scheduled" /\ report.runId /\ ErrorsSet(report.dests)) ~> row \in Verdicts

=============================================================================
