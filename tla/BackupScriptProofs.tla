-------------------------- MODULE BackupScriptProofs --------------------------
(***************************************************************************)
(* Theorems about BackupScript, for any number of destinations.            *)
(***************************************************************************)
EXTENDS BackupScript, TLAPS

FullReport == [dests |-> recs, runId |-> TRUE, written |-> TRUE]
Unread     == [dests |-> <<>>, runId |-> FALSE, written |-> TRUE]

\* Which report can be found at each stage of the script, and where a
\* destination is being worked on.
ReportFits ==
  /\ stage \in {"reading", "choosing", "copying", "reporting"} => report = NoReport
  /\ stage = "alerting" => report = FullReport
  /\ stage \in {"exited", "killed"} => report \in {NoReport, Unread, FullReport}
  /\ stage \notin {"copying", "killed"} => dest = NoDest
  /\ stage = "copying" => Len(recs) < MaxDests

\* Telegram was told what the whole report says.
AlertFits == alert # "none" => stage = "exited" /\ report = FullReport /\ alert = Overall(recs)

\* A copy that went wrong left a mark on its item or on its destination.
Marked == harmed => "failed" \in dest.items \/ Has(recs, "failed") \/ Has(recs, "partial")

\* Where a verdict of the panel can come from.
RowFits ==
  row \in Verdicts =>
    \/ row = "failed" /\ cut
    \/ /\ row = "failed" /\ origin = "manual" /\ stage \in {"exited", "killed"}
       /\ ~report.written \/ Raises(report.dests)
    \/ row = Aggregate(report.dests) /\ report.written /\ stage \in {"alerting", "exited", "killed"}

BInv == TypeOK /\ ReportFits /\ AlertFits /\ Marked /\ RowFits

-----------------------------------------------------------------------------
\* What a destination's record does to the record of the run.
LEMMA Recorded ==
  ASSUME NEW r \in Recs, recs \in Seq(Recs), NEW s
  PROVE  /\ Append(recs, r) \in Seq(Recs)
         /\ Len(Append(recs, r)) = Len(recs) + 1
         /\ Has(Append(recs, r), s) <=> Has(recs, s) \/ r.status = s
<1>1. /\ Append(recs, r) \in Seq(Recs)
      /\ Len(Append(recs, r)) = Len(recs) + 1
      /\ \A i \in 1..Len(recs) : Append(recs, r)[i] = recs[i]
      /\ Append(recs, r)[Len(recs) + 1] = r
  OBVIOUS
<1>2. /\ DOMAIN recs = 1..Len(recs)
      /\ DOMAIN Append(recs, r) = 1..(Len(recs) + 1)
      /\ Len(recs) \in Nat
  BY <1>1
<1> QED BY <1>1, <1>2 DEF Has

\* The three aggregations end in a verdict.
LEMMA VerdictsOnly ==
  ASSUME NEW dests
  PROVE  Overall(dests) \in Verdicts /\ Aggregate(dests) \in Verdicts
BY DEF Overall, Aggregate, Verdicts

\* The marks of a destination that is recorded stay in the record.
LEMMA RecordStep ==
  ASSUME BInv, NEW status \in Statuses, NEW error \in BOOLEAN, Record(status, error),
         "failed" \in dest.items => status \in {"failed", "partial"}
  PROVE  BInv'
<1> USE DEF BInv, Record
<1> DEFINE r == [status |-> status, error |-> error]
<1>1. r \in Recs /\ recs \in Seq(Recs)
  BY DEF Recs, TypeOK
<1>2. /\ recs' \in Seq(Recs) /\ Len(recs') = Len(recs) + 1
      /\ Has(recs', "failed") <=> Has(recs, "failed") \/ status = "failed"
      /\ Has(recs', "partial") <=> Has(recs, "partial") \/ status = "partial"
  BY <1>1, Recorded
<1>3. TypeOK'
  <2>1. Len(recs') <= MaxDests
    BY <1>1, <1>2, MaxDestsAssumption DEF ReportFits
  <2>2. report.dests = <<>>
    BY DEF ReportFits, NoReport
  <2>3. dest' \in [kind : Kinds, items : SUBSET ItemStatuses]
    BY DEF NoDest, Kinds
  <2> QED BY <1>2, <2>1, <2>2, <2>3 DEF TypeOK
<1>4. ReportFits'
  BY DEF ReportFits
<1>5. AlertFits'
  BY DEF AlertFits
<1>6. Marked'
  BY <1>2 DEF Marked
<1>7. RowFits'
  BY DEF RowFits
<1> QED BY <1>3, <1>4, <1>5, <1>6, <1>7

\* The copy of an item that a check catches makes the item failed.
LEMMA CheckedFails ==
  ASSUME NEW kind \in Kinds, NEW type \in Types, NEW fate \in Fates,
         fate = "short" => kind = "storage"
  PROVE  /\ ItemStatus(kind, type, fate) \in ItemStatuses
         /\ Checked(kind, type, fate) => ItemStatus(kind, type, fate) = "failed"
BY DEF ItemStatus, Checked, Kinds, Types, Fates, ItemStatuses

\* Steps of the script outside a destination.
LEMMA StageStep ==
  ASSUME BInv, PlanUnreadable \/ ReadPlan \/ StartDestination \/ EndDestinations \/ WriteReport \/ Kill
  PROVE  BInv'
<1> USE DEF BInv
<1>1. CASE PlanUnreadable
  <2>1. stage = "reading" /\ alert = "none" /\ dest = NoDest
    BY <1>1 DEF PlanUnreadable, AlertFits, ReportFits
  <2>2. row \in Verdicts => row = "failed" /\ cut
    BY <2>1 DEF RowFits
  <2> QED BY <1>1, <2>1, <2>2
        DEF PlanUnreadable, TypeOK, ReportFits, AlertFits, Marked, RowFits, Unread
<1>2. CASE ReadPlan
  BY <1>2 DEF ReadPlan, TypeOK, ReportFits, AlertFits, Marked, RowFits
<1>3. CASE StartDestination
  <2>1. PICK k \in Kinds : dest' = [kind |-> k, items |-> {}]
    BY <1>3 DEF StartDestination
  <2> QED BY <1>3, <2>1 DEF StartDestination, TypeOK, ReportFits, AlertFits, Marked, RowFits, NoDest
<1>4. CASE EndDestinations
  BY <1>4 DEF EndDestinations, TypeOK, ReportFits, AlertFits, Marked, RowFits
<1>5. CASE WriteReport
  BY <1>5 DEF WriteReport, TypeOK, ReportFits, AlertFits, Marked, RowFits, FullReport
<1>6. CASE Kill
  <2>1. report \in {NoReport, FullReport} /\ alert = "none"
    BY <1>6 DEF Kill, ReportFits, AlertFits, TypeOK
  <2>2. ReportFits'
    BY <1>6, <2>1 DEF Kill, ReportFits, FullReport
  <2> QED BY <1>6, <2>1, <2>2 DEF Kill, TypeOK, AlertFits, Marked, RowFits
<1> QED BY <1>1, <1>2, <1>3, <1>4, <1>5, <1>6

\* An item is copied.
LEMMA CopyStep ==
  ASSUME BInv, CopyItem
  PROVE  BInv'
<1> USE DEF BInv
<1>1. PICK type \in Types, fate \in Fates :
        /\ fate = "short" => dest.kind = "storage"
        /\ dest' = [dest EXCEPT !.items = @ \union {ItemStatus(dest.kind, type, fate)}]
        /\ harmed' = (harmed \/ Checked(dest.kind, type, fate))
  BY DEF CopyItem
<1> DEFINE st == ItemStatus(dest.kind, type, fate)
<1>2. dest \in [kind : Kinds, items : SUBSET ItemStatuses]
  BY DEF TypeOK
<1>3. st \in ItemStatuses /\ (Checked(dest.kind, type, fate) => st = "failed")
  BY <1>1, <1>2, CheckedFails
<1>4. dest'.items = dest.items \union {st} /\ dest'.kind = dest.kind
      /\ dest' \in [kind : Kinds, items : SUBSET ItemStatuses]
  <2> HIDE DEF st
  <2>1. dest' = [dest EXCEPT !.items = @ \union {st}]
    BY <1>1 DEF st
  <2> QED BY <1>2, <1>3, <2>1
<1>5. Checked(dest.kind, type, fate) \in BOOLEAN
  BY DEF Checked
<1>6. TypeOK'
  BY <1>1, <1>4, <1>5 DEF CopyItem, TypeOK
<1>7. Marked'
  BY <1>1, <1>3, <1>4 DEF CopyItem, Marked, Has
<1> QED BY <1>6, <1>7 DEF CopyItem, ReportFits, AlertFits, RowFits

\* A destination is recorded.
LEMMA DestinationStep ==
  ASSUME BInv, EndDestination \/ SkipWeekly \/ FailDestination
  PROVE  BInv'
<1>1. CASE EndDestination
  <2>1. DestStatus(dest.items) \in Statuses
        /\ ("failed" \in dest.items => DestStatus(dest.items) \in {"failed", "partial"})
    BY DEF DestStatus, Statuses
  <2> QED BY <1>1, <2>1, RecordStep DEF EndDestination
<1>2. CASE SkipWeekly
  <2>1. "skipped" \in Statuses /\ "failed" \notin dest.items
    BY <1>2 DEF SkipWeekly, Statuses
  <2> QED BY <1>2, <2>1, RecordStep DEF SkipWeekly
<1>3. CASE FailDestination
  <2>1. "failed" \in Statuses
    BY DEF Statuses
  <2> QED BY <1>3, <2>1, RecordStep DEF FailDestination
<1> QED BY <1>1, <1>2, <1>3

\* The message is sent.
LEMMA AlertStep ==
  ASSUME BInv, Alert
  PROVE  BInv'
<1>1. Overall(recs) \in Verdicts
  BY VerdictsOnly
<1>2. stage = "alerting" /\ stage' = "exited" /\ alert' \in {Overall(recs), "none"}
      /\ UNCHANGED <<origin, dest, recs, report, row, cut, harmed>>
  BY DEF Alert
<1> QED BY <1>1, <1>2 DEF BInv, TypeOK, ReportFits, AlertFits, Marked, RowFits, FullReport

\* The panel decides.
LEMMA PanelStep ==
  ASSUME BInv, ReadReport \/ LoseConnection \/ Sync
  PROVE  BInv'
<1> USE DEF BInv
<1>1. Aggregate(report.dests) \in Verdicts /\ "failed" \in Verdicts
  BY VerdictsOnly DEF Verdicts
<1>2. CASE ReadReport
  BY <1>1, <1>2 DEF ReadReport, Waiting, TypeOK, ReportFits, AlertFits, Marked, RowFits, FullReport, Unread
<1>3. CASE LoseConnection
  BY <1>1, <1>3 DEF LoseConnection, TypeOK, ReportFits, AlertFits, Marked, RowFits, FullReport, Unread
<1>4. CASE Sync
  <2>1. report.written /\ stage \in {"alerting", "exited", "killed"}
    BY <1>4 DEF Sync, Importable, TypeOK, ReportFits, NoReport, Unread, FullReport
  <2> QED BY <1>1, <1>4, <2>1
        DEF Sync, TypeOK, ReportFits, AlertFits, Marked, RowFits, FullReport, Unread
<1> QED BY <1>2, <1>3, <1>4

\* The inductive invariant: which report is there at each stage, what the
\* message and the row were computed from, and that a harmed copy left a mark.
THEOREM ScriptInvariant == Spec => []BInv
<1>1. Init => BInv
  <2> SUFFICES ASSUME Init PROVE BInv
    OBVIOUS
  <2>1. recs = <<>> /\ recs \in Seq(Recs) /\ Len(recs) <= MaxDests
    BY MaxDestsAssumption DEF Init
  <2>2. NoDest \in [kind : Kinds, items : SUBSET ItemStatuses]
    BY DEF NoDest, Kinds
  <2> QED BY <2>1, <2>2
        DEF Init, BInv, TypeOK, ReportFits, AlertFits, Marked, RowFits, NoReport, Verdicts
<1>2. BInv /\ [Next]_vars => BInv'
  <2> SUFFICES ASSUME BInv, [Next]_vars PROVE BInv'
    OBVIOUS
  <2>1. CASE Script
    BY <2>1, StageStep, CopyStep, DestinationStep, AlertStep DEF Script
  <2>2. CASE Kill
    BY <2>2, StageStep
  <2>3. CASE ReadReport \/ LoseConnection \/ Sync
    BY <2>3, PanelStep
  <2>4. CASE UNCHANGED vars
    BY <2>4 DEF vars, BInv, TypeOK, ReportFits, AlertFits, Marked, RowFits, FullReport, Has, Raises
  <2> QED BY <2>1, <2>2, <2>3, <2>4 DEF Next
<1> QED BY <1>1, <1>2, PTL DEF Spec

\* backup.ps1 and the panel keep their types for plans of any size.
THEOREM ScriptTypes == Spec => []TypeOK
<1>1. BInv => TypeOK
  BY DEF BInv
<1> QED BY <1>1, ScriptInvariant, PTL

\* The green message of backup.ps1 is earned, for any number of destinations
\* and items.
THEOREM GreenMessageEarned == Spec => []AlertNotTooGood
<1>1. BInv => AlertNotTooGood
  <2> SUFFICES ASSUME BInv, alert = "success"
               PROVE  /\ ~harmed /\ recs # <<>>
                      /\ \A i \in DOMAIN recs : recs[i].status \in {"success", "skipped"}
    BY DEF AlertNotTooGood
  <2>1. Overall(recs) = "success" /\ dest = NoDest
    BY DEF BInv, AlertFits, ReportFits
  <2>2. recs # <<>> /\ ~Has(recs, "failed") /\ ~Has(recs, "partial")
    BY <2>1 DEF Overall
  <2>3. ~harmed
    BY <2>1, <2>2 DEF BInv, Marked, NoDest
  <2>4. ASSUME NEW i \in DOMAIN recs PROVE recs[i].status \in {"success", "skipped"}
    <3>1. recs[i] \in Recs
      BY DEF BInv, TypeOK
    <3>2. recs[i].status \in Statuses
      BY <3>1 DEF Recs
    <3> QED BY <2>2, <3>2 DEF Has, Statuses
  <2> QED BY <2>2, <2>3, <2>4
<1> QED BY <1>1, ScriptInvariant, PTL

\* The panel shows success only for a whole report none of whose destinations
\* failed outright.
THEOREM GreenRowEarned == Spec => []RowNotTooGood
<1>1. BInv => RowNotTooGood
  <2> SUFFICES ASSUME BInv, row = "success"
               PROVE  report.written /\ recs # <<>> /\ ~Has(recs, "failed")
    BY DEF RowNotTooGood
  <2>1. Aggregate(report.dests) = "success" /\ report.written
    BY DEF BInv, RowFits, Verdicts
  <2>2. report.dests # <<>> /\ ~Has(report.dests, "failed")
    BY <2>1 DEF Aggregate
  <2>3. report.dests = recs
    BY <2>2 DEF BInv, TypeOK
  <2> QED BY <2>1, <2>2, <2>3
<1> QED BY <1>1, ScriptInvariant, PTL

\* The script's message and the panel's row agree on every run the panel saw
\* through, for any number of destinations, but for the two known differences.
THEOREM TwoAggregationsAgree == Spec => []VerdictMatchesAlert
<1>1. BInv => VerdictMatchesAlert
  <2> SUFFICES ASSUME BInv, alert # "none", row \in Verdicts, ~cut, row # alert
               PROVE  \/ row = "success" /\ alert = "partial" /\ Has(recs, "partial")
                      \/ row = "failed" /\ origin = "manual" /\ Raises(recs)
    BY DEF VerdictMatchesAlert
  <2>1. report.dests = recs /\ report.written /\ alert = Overall(recs)
    BY DEF BInv, AlertFits, FullReport
  <2>2. CASE row = Aggregate(recs)
    BY <2>1, <2>2 DEF Aggregate, Overall
  <2> QED BY <2>1, <2>2 DEF BInv, RowFits
<1> QED BY <1>1, ScriptInvariant, PTL

-----------------------------------------------------------------------------
(***************************************************************************)
(* The aggregations as functions of the destinations                       *)
(***************************************************************************)

\* From the worst status to the best one; verdicts are compared by it too.
Rank(status) ==
  CASE status = "failed"  -> 0
    [] status = "partial" -> 1
    [] status = "skipped" -> 2
    [] status = "success" -> 3

\* Every destination of e fared at least as well as that of d.
NoWorse(d, e) == \A i \in DOMAIN d : Rank(d[i].status) <= Rank(e[i].status)

LEMMA Ranks ==
  /\ Rank("failed") = 0 /\ Rank("partial") = 1 /\ Rank("skipped") = 2 /\ Rank("success") = 3
  /\ \A s \in Statuses : Rank(s) \in Nat
BY DEF Rank, Statuses

\* A run of which every destination fared at least as well gets at least as
\* good a message and at least as good a row: $overall of backup.ps1 and both
\* aggregations of the panel are monotone, for any number of destinations.
THEOREM BetterCopyBetterVerdict ==
  ASSUME NEW d \in Seq(Recs), NEW e \in Seq(Recs), Len(d) = Len(e), NoWorse(d, e)
  PROVE  /\ Rank(Overall(d)) <= Rank(Overall(e))
         /\ Rank(Aggregate(d)) <= Rank(Aggregate(e))
<1>1. /\ DOMAIN d = DOMAIN e
      /\ d = <<>> <=> e = <<>>
      /\ \A i \in DOMAIN d : d[i].status \in Statuses /\ e[i].status \in Statuses
  <2>1. DOMAIN d = 1..Len(d) /\ DOMAIN e = 1..Len(e)
    OBVIOUS
  <2>2. \A i \in DOMAIN d : d[i] \in Recs /\ e[i] \in Recs
    BY <2>1
  <2>3. \A r \in Recs : r.status \in Statuses
    BY DEF Recs
  <2> QED BY <2>1, <2>2, <2>3
<1>2. \A i \in DOMAIN d :
        /\ e[i].status = "failed" => d[i].status = "failed"
        /\ e[i].status = "partial" => d[i].status \in {"failed", "partial"}
        /\ d[i].status = "success" => e[i].status = "success"
  BY <1>1, Ranks DEF NoWorse, Statuses
<1>3. /\ Has(e, "failed") => Has(d, "failed")
      /\ Has(e, "partial") => Has(d, "failed") \/ Has(d, "partial")
      /\ Has(d, "success") => Has(e, "success")
  BY <1>1, <1>2 DEF Has
<1>4. Rank(Overall(d)) <= Rank(Overall(e))
  BY <1>1, <1>3, Ranks DEF Overall
<1>5. Rank(Aggregate(d)) <= Rank(Aggregate(e))
  BY <1>1, <1>3, Ranks DEF Aggregate
<1> QED BY <1>4, <1>5

\* The panel never reports worse than the script did, except by raising; it
\* reports better exactly when no destination failed and one was partial.
THEOREM PanelNoStricter ==
  ASSUME NEW d \in Seq(Recs)
  PROVE  /\ Rank(Overall(d)) <= Rank(Aggregate(d))
         /\ Overall(d) # Aggregate(d) <=> d # <<>> /\ ~Has(d, "failed") /\ Has(d, "partial")
<1>1. d = <<>> => ~Has(d, "partial")
  BY DEF Has
<1> QED BY <1>1, Ranks DEF Overall, Aggregate

\* An item more that failed never improves a destination's status, and one
\* more that succeeded never worsens it.
THEOREM ItemsCountTheirWay ==
  ASSUME NEW items \in SUBSET ItemStatuses
  PROVE  /\ Rank(DestStatus(items \union {"failed"})) <= Rank(DestStatus(items))
         /\ Rank(DestStatus(items)) <= Rank(DestStatus(items \union {"success"}))
BY Ranks DEF DestStatus
=============================================================================
