--------------------------- MODULE JobRunsProofs ----------------------------
(***************************************************************************)
(* Theorems about JobRuns, for any number of jobs, servers, clicks, failed *)
(* commits and crashes.  The inductive invariant says, for each place a    *)
(* task or a handler can be, which rows can be found there.                *)
(***************************************************************************)
EXTENDS JobRuns, TLAPS

\* What the row of a job can hold while its task is at a given place.
RowFitsTask(j) ==
  /\ task[j] = "none"      => row[j] \in {"absent", "flushed", "pending", "deleted"}
  /\ task[j] = "spawned"   => IF j \in Install
                                THEN row[j] \in {"absent", "flushed", "pending", "deleted"}
                                ELSE row[j] \in {"pending", "deleted"}
  /\ task[j] = "loaded"    => row[j] \in {"pending", "deleted"}
  /\ task[j] = "body"      => row[j] \in {"running", "deleted"}
  /\ task[j] = "handling"  => \/ row[j] \in {"running", "deleted"}
                              \/ j \in Install /\ row[j] \in {"pending", "success"}
  /\ task[j] = "closing"   => IF j \in Install THEN row[j] \in {"success", "deleted"}
                                               ELSE row[j] \in Terminal \union {"deleted"}
  /\ task[j] = "reporting" => row[j] \in Committed \union {"deleted"}
  /\ task[j] = "ended"     => IF j \in Install THEN row[j] # "running"
                                               ELSE row[j] \in Terminal \union {"deleted"}

\* What the handler that starts a job has done so far, and what is possible
\* while the process is not up.
HandlerFits(j) ==
  /\ req[j] \in {"idle", "admitted"} => row[j] = "absent" /\ task[j] = "none"
  /\ req[j] = "inserted" =>
       row[j] = "flushed" /\ IF j \in Install THEN task[j] \in {"spawned", "ended", "lost"}
                                              ELSE task[j] = "none"
  /\ req[j] = "committed" => task[j] = "none" /\ j \notin Install /\ row[j] \in {"pending", "deleted"}
  /\ row[j] = "flushed" => req[j] = "inserted"
  /\ panel # "up" => task[j] \notin Live /\ req[j] \notin InHandler
  /\ panel = "up" /\ task[j] = "killed" => row[j] # "running"

JobInv(j) == RowFitsTask(j) /\ HandlerFits(j)

IInv == TypeOK /\ \A j \in Jobs : JobInv(j)

-----------------------------------------------------------------------------
\* Every variable keeps its type: the rows, handler and task states of JobRuns
\* are the only ones the code can reach.
THEOREM TypeCorrect == Spec => []TypeOK
<1>1. Init => TypeOK
  BY BoundsAssumption DEF Init, TypeOK
<1>2. TypeOK /\ [Next]_vars => TypeOK'
  <2> SUFFICES ASSUME TypeOK, [Next]_vars PROVE TypeOK'
    OBVIOUS
  <2> USE BoundsAssumption DEF TypeOK, Committed, Terminal, Live, Over, InHandler
  <2>1. ASSUME NEW j \in Jobs, Admit(j) PROVE TypeOK'
    BY <2>1 DEF Admit
  <2>2. ASSUME NEW j \in Jobs, DeleteHistory(j) PROVE TypeOK'
    BY <2>2 DEF DeleteHistory
  <2>3. ASSUME NEW j \in Jobs, Handler(j) PROVE TypeOK'
    BY <2>3 DEF Handler, RefuseForm, Insert, CommitRow, CommitRowFails, Spawn
  <2>4. ASSUME NEW j \in Jobs, Task(j) PROVE TypeOK'
    <3>1. CASE Load(j) \/ LoadFails(j) \/ Raise(j) \/ ReportFails(j) \/ Report(j)
      BY <3>1 DEF Load, LoadFails, Raise, ReportFails, Report
    <3>2. CASE Begin(j) \/ HandleFailure(j) \/ Close(j)
      BY <3>2 DEF Begin, HandleFailure, Close, Write
    <3>3. CASE Finish(j)
      BY <3>3 DEF Finish, Write, Verdicts
    <3>4. CASE WriteFails(j)
      BY <3>4 DEF WriteFails, AfterFailedWrite
    <3> QED BY <2>4, <3>1, <3>2, <3>3, <3>4 DEF Task
  <2>5. CASE Crash
    BY <2>5 DEF Crash
  <2>6. CASE Boot \/ CleanupStaleRuns
    BY <2>6 DEF Boot, CleanupStaleRuns
  <2>7. CASE UNCHANGED vars
    BY <2>7 DEF vars
  <2> QED BY <2>1, <2>2, <2>3, <2>4, <2>5, <2>6, <2>7 DEF Next
<1> QED BY <1>1, <1>2, PTL DEF Spec

\* A job none of whose variables change keeps its invariant.
LEMMA Frame ==
  ASSUME NEW k \in Jobs, JobInv(k), UNCHANGED <<row[k], task[k], req[k], panel>>
  PROVE  JobInv(k)'
BY DEF JobInv, RowFitsTask, HandlerFits

\* An action on job j leaves the others alone, so its own invariant suffices.
LEMMA OnlyOne ==
  ASSUME IInv, NEW j \in Jobs, JobInv(j)', panel' = panel,
         \A k \in Jobs \ {j} : UNCHANGED <<row[k], task[k], req[k]>>
  PROVE  \A k \in Jobs : JobInv(k)'
BY Frame DEF IInv

\* Whatever fails or crashes, each row holds what the places of its handler and
\* of its task allow.
THEOREM InductiveInvariant == Spec => []IInv
<1>1. Init => IInv
  BY BoundsAssumption DEF Init, IInv, TypeOK, JobInv, RowFitsTask, HandlerFits, Live, InHandler
<1>2. IInv /\ TypeOK' /\ [Next]_vars => IInv'
  <2> SUFFICES ASSUME IInv, TypeOK', [Next]_vars PROVE \A k \in Jobs : JobInv(k)'
    BY DEF IInv
  <2> USE KindsAssumption DEF Committed, Terminal, Live, InHandler
  <2>1. ASSUME NEW j \in Jobs, Admit(j) PROVE \A k \in Jobs : JobInv(k)'
    <3>1. JobInv(j)'
      BY <2>1 DEF Admit, IInv, TypeOK, JobInv, RowFitsTask, HandlerFits
    <3> QED BY <2>1, <3>1, OnlyOne DEF Admit, IInv, TypeOK
  <2>2. ASSUME NEW j \in Jobs, DeleteHistory(j) PROVE \A k \in Jobs : JobInv(k)'
    <3>1. JobInv(j)'
      BY <2>2 DEF DeleteHistory, IInv, TypeOK, JobInv, RowFitsTask, HandlerFits
    <3> QED BY <2>2, <3>1, OnlyOne DEF DeleteHistory, IInv, TypeOK
  <2>3. ASSUME NEW j \in Jobs, Handler(j) PROVE \A k \in Jobs : JobInv(k)'
    <3>1. CASE RefuseForm(j)
      <4>1. JobInv(j)'
        BY <3>1 DEF RefuseForm, IInv, TypeOK, JobInv, RowFitsTask, HandlerFits
      <4> QED BY <3>1, <4>1, OnlyOne DEF RefuseForm, IInv, TypeOK
    <3>2. CASE Insert(j)
      <4>1. JobInv(j)'
        BY <3>2 DEF Insert, IInv, TypeOK, JobInv, RowFitsTask, HandlerFits
      <4> QED BY <3>2, <4>1, OnlyOne DEF Insert, IInv, TypeOK
    <3>3. CASE CommitRow(j)
      <4>1. JobInv(j)'
        BY <3>3 DEF CommitRow, IInv, TypeOK, JobInv, RowFitsTask, HandlerFits
      <4> QED BY <3>3, <4>1, OnlyOne DEF CommitRow, IInv, TypeOK
    <3>4. CASE CommitRowFails(j)
      <4>1. JobInv(j)'
        BY <3>4 DEF CommitRowFails, IInv, TypeOK, JobInv, RowFitsTask, HandlerFits
      <4> QED BY <3>4, <4>1, OnlyOne DEF CommitRowFails, IInv, TypeOK
    <3>5. CASE Spawn(j)
      <4>1. JobInv(j)'
        BY <3>5 DEF Spawn, IInv, TypeOK, JobInv, RowFitsTask, HandlerFits
      <4> QED BY <3>5, <4>1, OnlyOne DEF Spawn, IInv, TypeOK
    <3> QED BY <2>3, <3>1, <3>2, <3>3, <3>4, <3>5 DEF Handler
  <2>4. ASSUME NEW j \in Jobs, Task(j) PROVE \A k \in Jobs : JobInv(k)'
    <3>1. CASE Load(j) \/ LoadFails(j)
      <4>1. JobInv(j)'
        BY <3>1 DEF Load, LoadFails, IInv, TypeOK, JobInv, RowFitsTask, HandlerFits
      <4> QED BY <3>1, <4>1, OnlyOne DEF Load, LoadFails, IInv, TypeOK
    <3>2. CASE Begin(j) \/ HandleFailure(j) \/ Close(j)
      <4>1. JobInv(j)'
        BY <3>2 DEF Begin, HandleFailure, Close, Write, IInv, TypeOK, JobInv, RowFitsTask, HandlerFits
      <4> QED BY <3>2, <4>1, OnlyOne DEF Begin, HandleFailure, Close, Write, IInv, TypeOK
    <3>3. CASE Finish(j)
      <4>1. JobInv(j)'
        BY <3>3 DEF Finish, Verdicts, Write, IInv, TypeOK, JobInv, RowFitsTask, HandlerFits
      <4> QED BY <3>3, <4>1, OnlyOne DEF Finish, Verdicts, Write, IInv, TypeOK
    <3>4. CASE Raise(j) \/ Report(j) \/ ReportFails(j)
      <4>1. JobInv(j)'
        BY <3>4 DEF Raise, Report, ReportFails, IInv, TypeOK, JobInv, RowFitsTask, HandlerFits
      <4> QED BY <3>4, <4>1, OnlyOne DEF Raise, Report, ReportFails, IInv, TypeOK
    <3>5. CASE WriteFails(j)
      <4>1. JobInv(j)'
        BY <3>5 DEF WriteFails, AfterFailedWrite, IInv, TypeOK, JobInv, RowFitsTask, HandlerFits
      <4> QED BY <3>5, <4>1, OnlyOne DEF WriteFails, AfterFailedWrite, IInv, TypeOK
    <3> QED BY <2>4, <3>1, <3>2, <3>3, <3>4, <3>5 DEF Task
  <2>5. CASE Crash
    BY <2>5 DEF Crash, IInv, TypeOK, JobInv, RowFitsTask, HandlerFits
  <2>6. CASE Boot
    BY <2>6 DEF Boot, IInv, TypeOK, JobInv, RowFitsTask, HandlerFits
  <2>7. CASE CleanupStaleRuns
    BY <2>7 DEF CleanupStaleRuns, IInv, TypeOK, JobInv, RowFitsTask, HandlerFits
  <2>8. CASE UNCHANGED vars
    BY <2>8, Frame DEF vars, IInv
  <2> QED BY <2>1, <2>2, <2>3, <2>4, <2>5, <2>6, <2>7, <2>8 DEF Next
<1> QED BY <1>1, <1>2, TypeCorrect, PTL DEF Spec

-----------------------------------------------------------------------------
\* Whenever the panel serves requests, a row shown as running has a task at
\* work on it (or one whose last commit failed): the restart sweep leaves no
\* orphan that would block new starts.
THEOREM NoOrphanRunning == Spec => []RunningHasTask
<1>1. IInv => RunningHasTask
  BY DEF IInv, TypeOK, JobInv, RowFitsTask, HandlerFits, RunningHasTask, Terminal, Committed, Live, Over
<1> QED BY <1>1, InductiveInvariant, PTL

\* A recovery or a manual backup whose task ended has a verdict in the
\* database (or was deleted): run_supervised's guaranteed failure reporting.
THEOREM FailuresReported == Spec => []EndedIsReported
<1>1. IInv => EndedIsReported
  BY KindsAssumption DEF IInv, JobInv, RowFitsTask, EndedIsReported
<1> QED BY <1>1, InductiveInvariant, PTL

\* The success of a recovery or a manual backup is never overwritten.
THEOREM SuccessIsKept == Spec => SuccessKept
<1>1. IInv /\ [Next]_vars
        => [\A j \in Recovery \union Backup :
              row[j] = "success" => row'[j] \in {"success", "deleted"}]_vars
  <2> SUFFICES ASSUME IInv, [Next]_vars, NEW j \in Recovery \union Backup, row[j] = "success"
               PROVE  row'[j] \in {"success", "deleted"}
    OBVIOUS
  <2> USE KindsAssumption DEF IInv, TypeOK, JobInv
  <2>1. ASSUME NEW k \in Jobs, Admit(k) \/ DeleteHistory(k) PROVE row'[j] \in {"success", "deleted"}
    BY <2>1 DEF Admit, DeleteHistory
  <2>2. ASSUME NEW k \in Jobs, Handler(k) PROVE row'[j] \in {"success", "deleted"}
    BY <2>2 DEF Handler, RefuseForm, Insert, CommitRow, CommitRowFails, Spawn, HandlerFits
  <2>3. ASSUME NEW k \in Jobs, Task(k) PROVE row'[j] \in {"success", "deleted"}
    <3>1. CASE Load(k) \/ LoadFails(k) \/ Raise(k) \/ WriteFails(k) \/ Report(k) \/ ReportFails(k)
      BY <3>1 DEF Load, LoadFails, Raise, WriteFails, Report, ReportFails
    <3>2. CASE Begin(k) \/ Finish(k) \/ HandleFailure(k) \/ Close(k)
      BY <3>2 DEF Begin, Finish, HandleFailure, Close, Write, RowFitsTask
    <3> QED BY <2>3, <3>1, <3>2 DEF Task
  <2>4. CASE Crash \/ Boot \/ CleanupStaleRuns
    BY <2>4 DEF Crash, Boot, CleanupStaleRuns
  <2>5. CASE UNCHANGED vars
    BY <2>5 DEF vars
  <2> QED BY <2>1, <2>2, <2>3, <2>4, <2>5 DEF Next
<1> QED BY <1>1, InductiveInvariant, PTL DEF Spec, SuccessKept

-----------------------------------------------------------------------------
\* A step that sets the row of job j to s is seen as setting its status to s,
\* and one that only flushes or drops an INSERT is not seen at all.
LEMMA SeenSet ==
  ASSUME NEW j \in Jobs, NEW s \in Committed \union {"deleted"}, row' = [row EXCEPT ![j] = s], TypeOK
  PROVE  Visible' = [Visible EXCEPT ![j] = s]
BY DEF Visible, TypeOK, Committed, Terminal

LEMMA SeenNothing ==
  ASSUME NEW j \in Jobs, TypeOK, row[j] \in {"absent", "flushed"},
         NEW s \in {"absent", "flushed"}, row' = [row EXCEPT ![j] = s]
  PROVE  UNCHANGED Visible
BY DEF Visible, TypeOK

\* The detailed life of a row implements the ledger a user relies on.
THEOREM ImplementsLedger == Spec => LedgerSpec
<1>1. Init => Ledger!Init
  BY DEF Init, Ledger!Init, Visible
<1>2. IInv /\ [Next]_vars => [Ledger!Next]_Visible
  <2> SUFFICES ASSUME IInv, [Next]_vars PROVE Ledger!Next \/ UNCHANGED Visible
    OBVIOUS
  <2> USE DEF IInv, JobInv, Ledger!Terminal
  <2>1. ASSUME NEW j \in Jobs, Admit(j) PROVE UNCHANGED Visible
    BY <2>1 DEF Admit, Visible
  <2>2. ASSUME NEW j \in Jobs, DeleteHistory(j) PROVE Ledger!Delete(j)
    <3>1. Visible' = [Visible EXCEPT ![j] = "deleted"]
      BY <2>2, SeenSet DEF DeleteHistory
    <3> QED BY <2>2, <3>1 DEF DeleteHistory, Ledger!Delete, Visible, Committed, Terminal
  <2>3. ASSUME NEW j \in Jobs, Handler(j) PROVE Ledger!Create(j) \/ UNCHANGED Visible
    <3>1. CASE RefuseForm(j) \/ Spawn(j)
      BY <3>1 DEF RefuseForm, Spawn, Visible
    <3>2. CASE Insert(j) \/ CommitRowFails(j)
      BY <3>2, SeenNothing DEF Insert, CommitRowFails, HandlerFits
    <3>3. CASE CommitRow(j)
      <4>1. Visible' = [Visible EXCEPT ![j] = "pending"]
        BY <3>3, SeenSet DEF CommitRow, Committed
      <4> QED BY <3>3, <4>1 DEF CommitRow, HandlerFits, Ledger!Create, Visible
    <3> QED BY <2>3, <3>1, <3>2, <3>3 DEF Handler
  <2>4. ASSUME NEW j \in Jobs, Task(j)
        PROVE  Ledger!Begin(j) \/ Ledger!Decide(j) \/ Ledger!GiveUp(j) \/ UNCHANGED Visible
    <3>1. CASE Load(j) \/ LoadFails(j) \/ Raise(j) \/ WriteFails(j) \/ ReportFails(j)
      BY <3>1 DEF Load, LoadFails, Raise, WriteFails, ReportFails, Visible
    <3>2. CASE Begin(j)
      <4>1. Visible' = [Visible EXCEPT ![j] = "running"] /\ row[j] = "pending"
        BY <3>2, SeenSet DEF Begin, Write, RowFitsTask, Committed
      <4> QED BY <4>1 DEF Ledger!Begin, Visible
    <3>3. CASE Finish(j)
      <4>1. PICK v \in Terminal : /\ v = "partial" => j \in Backup
                                 /\ Visible' = [Visible EXCEPT ![j] = v]
        BY <3>3, SeenSet DEF Finish, Verdicts, Write, Terminal, Committed
      <4>2. row[j] = "running"
        BY <3>3 DEF Finish, Write, RowFitsTask
      <4> QED BY <4>1, <4>2 DEF Ledger!Decide, Visible, Terminal
    <3>4. CASE HandleFailure(j)
      <4>1. Visible' = [Visible EXCEPT ![j] = "failed"]
        BY <3>4, SeenSet DEF HandleFailure, Write, Committed, Terminal
      <4>2. row[j] \in {"pending", "running"} \/ (row[j] = "success" /\ j \in Install)
        BY <3>4 DEF HandleFailure, Write, RowFitsTask
      <4> QED BY <4>1, <4>2 DEF Ledger!GiveUp, Visible
    <3>5. CASE Close(j)
      <4>1. row' = row
        BY <3>5 DEF Close, Write, TypeOK
      <4> QED BY <4>1 DEF Visible
    <3>6. CASE Report(j)
      <4>1. CASE row' = row
        BY <4>1 DEF Visible
      <4>2. CASE row' # row
        <5>1. row' = [row EXCEPT ![j] = "failed"] /\ row[j] \in {"pending", "running", "partial"}
          BY <3>6, <4>2 DEF Report, RowFitsTask, TypeOK, Committed, Terminal
        <5>2. Visible' = [Visible EXCEPT ![j] = "failed"]
          BY <5>1, SeenSet DEF Committed, Terminal
        <5> QED BY <5>1, <5>2 DEF Ledger!GiveUp, Visible
      <4> QED BY <4>1, <4>2
    <3> QED BY <2>4, <3>1, <3>2, <3>3, <3>4, <3>5, <3>6 DEF Task
  <2>5. CASE Crash
    BY <2>5 DEF Crash, Visible
  <2>6. CASE Boot
    BY <2>6 DEF Boot, Visible
  <2>7. CASE CleanupStaleRuns
    BY <2>7 DEF CleanupStaleRuns, Ledger!Next, Ledger!Interrupt, Visible
  <2>8. CASE UNCHANGED vars
    BY <2>8 DEF vars, Visible
  <2> QED BY <2>1, <2>2, <2>3, <2>4, <2>5, <2>6, <2>7, <2>8 DEF Next, Ledger!Next
<1> QED BY <1>1, <1>2, InductiveInvariant, PTL DEF Spec, LedgerSpec, Ledger!Spec

-----------------------------------------------------------------------------
(***************************************************************************)
(* Handlers and tasks come to an end: the part of RunningEnds that is a    *)
(* safety property                                                         *)
(***************************************************************************)

\* How many steps the handler that starts j may still take, and its task.  An
\* install that closes may yet fail, a backup that failed has yet to close.
RequestLeft(j) ==
  CASE req[j] = "idle"      -> 4
    [] req[j] = "admitted"  -> 3
    [] req[j] = "inserted"  -> 2
    [] req[j] = "committed" -> 1
    [] OTHER                -> 0

TaskLeft(j) ==
  CASE task[j] = "none"      -> 7
    [] task[j] = "spawned"   -> 6
    [] task[j] = "loaded"    -> 5
    [] task[j] = "body"      -> 4
    [] task[j] = "closing"   -> IF j \in Install THEN 3 ELSE 2
    [] task[j] = "handling"  -> IF j \in Install THEN 2 ELSE 3
    [] task[j] = "reporting" -> 1
    [] OTHER                 -> 0

\* No step of anybody adds to what a job has left, and every step of its
\* handler or its task takes from it.
MovesOn(j) ==
  /\ RequestLeft(j)' <= RequestLeft(j)
  /\ TaskLeft(j)' <= TaskLeft(j)
  /\ Handler(j) \/ Task(j) =>
       RequestLeft(j)' < RequestLeft(j) \/ TaskLeft(j)' < TaskLeft(j)

\* What is left is a number, and depends on nothing but the two places.
LEMMA LeftIsNat ==
  ASSUME NEW j \in Jobs
  PROVE  RequestLeft(j) \in 0..4 /\ TaskLeft(j) \in 0..7
BY DEF RequestLeft, TaskLeft

LEMMA LeftAlone ==
  ASSUME NEW j \in Jobs, UNCHANGED <<req[j], task[j]>>
  PROVE  RequestLeft(j)' = RequestLeft(j) /\ TaskLeft(j)' = TaskLeft(j)
BY DEF RequestLeft, TaskLeft

\* A step of the handler or of the task of j.
LEMMA HandlerTakes ==
  ASSUME TypeOK, NEW j \in Jobs, Handler(j)
  PROVE  RequestLeft(j)' < RequestLeft(j) /\ (task'[j] = task[j] \/ task'[j] = "spawned")
BY DEF TypeOK, Handler, RefuseForm, Insert, CommitRow, CommitRowFails, Spawn, RequestLeft

LEMMA TaskTakes ==
  ASSUME TypeOK, NEW j \in Jobs, Task(j)
  PROVE  req' = req /\ TaskLeft(j)' < TaskLeft(j)
<1> USE DEF TypeOK, TaskLeft
<1>1. CASE Load(j) \/ LoadFails(j) \/ Raise(j) \/ ReportFails(j) \/ Report(j)
  BY <1>1 DEF Load, LoadFails, Raise, ReportFails, Report
<1>2. CASE Begin(j) \/ HandleFailure(j) \/ Close(j)
  BY <1>2 DEF Begin, HandleFailure, Close, Write
<1>3. CASE Finish(j)
  BY <1>3, KindsAssumption DEF Finish, Write
<1>4. CASE WriteFails(j)
  BY <1>4 DEF WriteFails, AfterFailedWrite
<1> QED BY <1>1, <1>2, <1>3, <1>4 DEF Task

\* Every handler and every task is a finite affair, whatever fails, crashes or
\* overlaps: a click costs at most eleven steps and none is taken again, so a
\* row stays running only where a step is never taken: in the remote work.
THEOREM RunsMoveOn == Spec => [][\A j \in Jobs : MovesOn(j)]_vars
<1>1. IInv /\ [Next]_vars => [\A j \in Jobs : MovesOn(j)]_vars
  <2> SUFFICES ASSUME IInv, [Next]_vars, NEW j \in Jobs PROVE MovesOn(j)
    OBVIOUS
  <2> DEFINE NoMore == RequestLeft(j)' <= RequestLeft(j) /\ TaskLeft(j)' <= TaskLeft(j)
  <2>1. /\ RequestLeft(j) \in Nat /\ TaskLeft(j) \in Nat
        /\ UNCHANGED <<req[j], task[j]>> => NoMore
    BY LeftIsNat, LeftAlone
  <2>2. ASSUME NEW k \in Jobs, Admit(k) PROVE NoMore
    <3>1. CASE j = k
      BY <2>2, <3>1 DEF Admit, IInv, TypeOK, RequestLeft, TaskLeft
    <3>2. CASE j # k
      BY <2>1, <2>2, <3>2 DEF Admit, IInv, TypeOK
    <3> QED BY <3>1, <3>2
  <2>3. ASSUME NEW k \in Jobs, Handler(k) PROVE NoMore
    <3>1. CASE j = k
      <4>1. RequestLeft(j)' < RequestLeft(j) /\ RequestLeft(j)' \in 0..4
        BY <2>3, <3>1, HandlerTakes, LeftIsNat DEF IInv, RequestLeft
      <4>2. TaskLeft(j)' <= TaskLeft(j)
        BY <2>3, <3>1 DEF Handler, RefuseForm, Insert, CommitRow, CommitRowFails, Spawn,
                          IInv, TypeOK, JobInv, HandlerFits, TaskLeft
      <4> QED BY <2>1, <4>1, <4>2
    <3>2. CASE j # k
      <4>1. UNCHANGED <<req[j], task[j]>>
        BY <2>3, <3>2 DEF Handler, RefuseForm, Insert, CommitRow, CommitRowFails, Spawn, IInv, TypeOK
      <4> QED BY <2>1, <4>1
    <3> QED BY <3>1, <3>2
  <2>4. ASSUME NEW k \in Jobs, Task(k) PROVE NoMore
    <3>1. CASE j = k
      <4>1. req' = req /\ TaskLeft(j)' < TaskLeft(j)
        BY <2>4, <3>1, TaskTakes DEF IInv
      <4>2. RequestLeft(j)' = RequestLeft(j) /\ TaskLeft(j)' \in 0..7
        BY <4>1 DEF RequestLeft, TaskLeft
      <4> QED BY <2>1, <4>1, <4>2
    <3>2. CASE j # k
      <4>1. req' = req
        BY <2>4, TaskTakes DEF IInv
      <4>2. task'[j] = task[j]
        <5>1. CASE Load(k) \/ LoadFails(k) \/ Raise(k) \/ ReportFails(k) \/ Report(k)
          BY <3>2, <5>1 DEF Load, LoadFails, Raise, ReportFails, Report, IInv, TypeOK
        <5>2. CASE Begin(k) \/ Finish(k) \/ HandleFailure(k) \/ Close(k)
          BY <3>2, <5>2 DEF Begin, Finish, HandleFailure, Close, Write, IInv, TypeOK
        <5>3. CASE WriteFails(k)
          BY <3>2, <5>3 DEF WriteFails, IInv, TypeOK
        <5> QED BY <2>4, <5>1, <5>2, <5>3 DEF Task
      <4> QED BY <2>1, <4>1, <4>2
    <3> QED BY <3>1, <3>2
  <2>5. ASSUME Crash PROVE NoMore
    <3>1. RequestLeft(j)' <= RequestLeft(j)
      BY <2>1, <2>5 DEF Crash, InHandler, RequestLeft
    <3>2. TaskLeft(j)' <= TaskLeft(j)
      BY <2>1, <2>5 DEF Crash, Live, TaskLeft
    <3> QED BY <3>1, <3>2
  <2>6. ASSUME \/ \E k \in Jobs : DeleteHistory(k)
               \/ Boot \/ CleanupStaleRuns \/ UNCHANGED vars
        PROVE  NoMore
    <3>1. req' = req /\ task' = task
      BY <2>6 DEF DeleteHistory, Boot, CleanupStaleRuns, vars
    <3> QED BY <2>1, <3>1
  <2> HIDE DEF NoMore
  <2>7. NoMore
    BY <2>2, <2>3, <2>4, <2>5, <2>6 DEF Next
  <2> QED BY <2>7, HandlerTakes, TaskTakes DEF NoMore, MovesOn, IInv
<1> QED BY <1>1, InductiveInvariant, PTL DEF Spec

-----------------------------------------------------------------------------
\* The only way a task ends without a verdict: an install's task that loads its
\* row before the handler's session has committed it (or when it never will).
OnlyEarlyLoadUnreported ==
  [][\A j \in Jobs :
       (task[j] # "ended" /\ task'[j] = "ended" /\ row'[j] \notin Terminal \union {"deleted"}) =>
         j \in Install /\ task[j] = "spawned" /\ row[j] \in {"absent", "flushed"}]_vars

\* The exact cause of the ends that run_supervised does not report, against its
\* docstring: in start_install the task overtakes the commit of its row, and
\* nothing else does it.
THEOREM UnreportedEndsExplained == Spec => OnlyEarlyLoadUnreported
<1> DEFINE Silent(j) == task[j] # "ended" /\ task'[j] = "ended" /\ row'[j] \notin Terminal \union {"deleted"}
           Early(j)  == j \in Install /\ task[j] = "spawned" /\ row[j] \in {"absent", "flushed"}
<1>1. IInv /\ [Next]_vars => [\A j \in Jobs : Silent(j) => Early(j)]_vars
  <2> SUFFICES ASSUME IInv, [Next]_vars, NEW j \in Jobs, Silent(j) PROVE Early(j)
    OBVIOUS
  <2> USE KindsAssumption DEF IInv, TypeOK, JobInv
  <2>1. ASSUME NEW k \in Jobs, Admit(k) \/ DeleteHistory(k) \/ Handler(k) PROVE FALSE
    BY <2>1 DEF Admit, DeleteHistory, Handler, RefuseForm, Insert, CommitRow, CommitRowFails, Spawn
  <2>2. ASSUME NEW k \in Jobs, Task(k) PROVE Early(j)
    <3>1. CASE Load(k)
      BY <3>1 DEF Load, RowFitsTask, Committed
    <3>2. CASE LoadFails(k) \/ Begin(k) \/ Raise(k) \/ WriteFails(k) \/ ReportFails(k)
      BY <3>2 DEF LoadFails, Begin, Write, Raise, WriteFails, AfterFailedWrite, ReportFails
    <3>3. CASE Finish(k)
      BY <3>3 DEF Finish, Write, Verdicts, Terminal
    <3>4. CASE HandleFailure(k)
      BY <3>4 DEF HandleFailure, Write, Terminal
    <3>5. CASE Close(k)
      BY <3>5 DEF Close, Write, RowFitsTask, Terminal
    <3>6. CASE Report(k)
      BY <3>6 DEF Report, Terminal
    <3> QED BY <2>2, <3>1, <3>2, <3>3, <3>4, <3>5, <3>6 DEF Task
  <2>3. ASSUME Crash \/ Boot \/ CleanupStaleRuns \/ UNCHANGED vars PROVE FALSE
    BY <2>3 DEF Crash, Boot, CleanupStaleRuns, vars
  <2> QED BY <2>1, <2>2, <2>3 DEF Next
<1> QED BY <1>1, InductiveInvariant, PTL DEF Spec, OnlyEarlyLoadUnreported
=============================================================================
