--------------------------- MODULE ManualRunsProofs ---------------------------
(***************************************************************************)
(* Theorems about ManualRuns, for any number of runs.  Runs that meet on   *)
(* the server are both in overlapped; a run that is not therefore has the  *)
(* two files for itself as long as it or its script is busy.               *)
(***************************************************************************)
EXTENDS ManualRuns, TLAPS

\* Two runs that are busy at the same time know it.
Meeting ==
  \A r, k \in Runs : r # k /\ Busy(r) /\ Busy(k) => r \in overlapped /\ k \in overlapped

\* How far the script of a run can be when the run is at a given place.
ScriptFits(r) ==
  /\ pc[r] \in {"idle", "connecting", "uploading", "uploaded"} => script[r] = "none"
  /\ pc[r] = "streaming" => script[r] # "none"
  /\ pc[r] \in {"judged", "unreadable"} => script[r] \in {"done", "dead"}
  /\ script[r] \in {"none", "launched"} => read[r] = "none"
  /\ script[r] \in {"working", "writing"} => read[r] # "none"

\* What a run that met no other one finds in the files, step by step.
Alone(r) ==
  /\ pc[r] = "uploaded" => plan = r
  /\ script[r] = "launched" => plan = r /\ read[r] = "none"
  /\ script[r] \in {"working", "writing", "done"} => read[r] = r
  /\ script[r] = "dead" => read[r] \in {r, "none"}
  /\ script[r] = "done" /\ pc[r] = "streaming" => report = [by |-> r, plan |-> r]
  /\ script[r] = "done" => pc[r] # "unreadable"
  /\ script[r] = "done" /\ pc[r] = "judged" => got[r] = [by |-> r, plan |-> r]

MInv ==
  /\ TypeOK
  /\ Meeting
  /\ \A r \in Runs : ScriptFits(r)
  /\ \A r \in Runs \ overlapped : Alone(r)

-----------------------------------------------------------------------------
\* A step keeps the types, given that a script at work has read something.
LEMMA TypeStep ==
  ASSUME TypeOK, \A r \in Runs : ScriptFits(r), [Next]_vars
  PROVE  TypeOK'
<1> USE DEF TypeOK, InFlight, Running
<1>1. ASSUME NEW r \in Runs, Start(r) PROVE TypeOK'
  BY <1>1 DEF Start, Busy
<1>2. ASSUME NEW r \in Runs, BeginUpload(r) \/ EndUpload(r) \/ Launch(r) \/ LoseConnection(r) \/ FallSilent(r)
      PROVE  TypeOK'
  BY <1>2 DEF BeginUpload, EndUpload, Launch, LoseConnection, FallSilent
<1>3. ASSUME NEW r \in Runs, FetchReport(r) PROVE TypeOK'
  <2>1. CASE report \in {NoReport, Torn}
    BY <1>3, <2>1 DEF FetchReport, Judge
  <2>2. CASE report \notin {NoReport, Torn}
    <3>1. report \in Reports \ {Torn}
      BY <2>2
    <3> QED BY <1>3, <2>2, <3>1 DEF FetchReport, Judge
  <2> QED BY <2>1, <2>2
<1>4. ASSUME NEW r \in Runs, ReadPlan(r) \/ Kill(r) PROVE TypeOK'
  BY <1>4 DEF ReadPlan, Kill
<1>5. ASSUME NEW r \in Runs, BeginReport(r) PROVE TypeOK'
  BY <1>5 DEF BeginReport, Reports
<1>6. ASSUME NEW r \in Runs, EndReport(r) PROVE TypeOK'
  <2>1. read[r] \in Runs \union {"unreadable"}
    BY <1>6 DEF EndReport, ScriptFits
  <2>2. [by |-> r, plan |-> read[r]] \in Reports
    BY <2>1 DEF Reports
  <2> QED BY <1>6, <2>2 DEF EndReport
<1>7. CASE UNCHANGED vars
  BY <1>7 DEF vars
<1> QED BY <1>1, <1>2, <1>3, <1>4, <1>5, <1>6, <1>7 DEF Next

\* Who is busy after a step was busy before it, unless the step started it.
LEMMA BusyBefore ==
  ASSUME TypeOK, NEW r \in Runs, ScriptFits(r), NEW k \in Runs, Busy(r)',
         \/ BeginUpload(k) \/ EndUpload(k) \/ Launch(k) \/ FetchReport(k) \/ LoseConnection(k) \/ FallSilent(k)
         \/ ReadPlan(k) \/ BeginReport(k) \/ EndReport(k) \/ Kill(k)
  PROVE  Busy(r) /\ overlapped' = overlapped
BY DEF TypeOK, ScriptFits, Busy, InFlight, Running, BeginUpload, EndUpload, Launch,
       FetchReport, Judge, LoseConnection, FallSilent, ReadPlan, BeginReport, EndReport, Kill

\* A step keeps the record of who met whom.
LEMMA MeetingStep ==
  ASSUME MInv, [Next]_vars
  PROVE  Meeting'
<1> SUFFICES ASSUME NEW r \in Runs, NEW k \in Runs, r # k, Busy(r)', Busy(k)'
             PROVE  r \in overlapped' /\ k \in overlapped'
  BY DEF Meeting
<1>1. ASSUME NEW s \in Runs, Start(s) PROVE r \in overlapped' /\ k \in overlapped'
  <2>1. \A q \in Runs \ {s} : Busy(q)' = Busy(q)
    BY <1>1 DEF MInv, TypeOK, Start, Busy
  <2>2. \A q \in Runs : q # s /\ Busy(q) => q \in overlapped' /\ s \in overlapped'
    BY <1>1 DEF Start
  <2>3. CASE s \in {r, k}
    BY <2>1, <2>2, <2>3
  <2>4. CASE s \notin {r, k}
    BY <1>1, <2>1, <2>2, <2>4
  <2> QED BY <2>3, <2>4
<1>2. ASSUME NEW s \in Runs,
             \/ BeginUpload(s) \/ EndUpload(s) \/ Launch(s) \/ FetchReport(s) \/ LoseConnection(s) \/ FallSilent(s)
             \/ ReadPlan(s) \/ BeginReport(s) \/ EndReport(s) \/ Kill(s)
      PROVE  r \in overlapped' /\ k \in overlapped'
  <2>1. Busy(r) /\ Busy(k) /\ overlapped' = overlapped
    BY <1>2, BusyBefore DEF MInv
  <2> QED BY <2>1 DEF MInv, Meeting
<1>3. CASE UNCHANGED vars
  BY <1>3 DEF vars, Busy, MInv, Meeting
<1> QED BY <1>1, <1>2, <1>3 DEF Next

\* A step keeps run and script in step with each other.
LEMMA ScriptStep ==
  ASSUME TypeOK, [Next]_vars, NEW r \in Runs, ScriptFits(r)
  PROVE  ScriptFits(r)'
<1> USE DEF TypeOK, ScriptFits, InFlight, Running
<1>1. ASSUME NEW k \in Runs, Start(k) \/ BeginUpload(k) \/ EndUpload(k) \/ Launch(k)
      PROVE  ScriptFits(r)'
  BY <1>1 DEF Start, BeginUpload, EndUpload, Launch
<1>2. ASSUME NEW k \in Runs, FetchReport(k) \/ LoseConnection(k) \/ FallSilent(k) PROVE ScriptFits(r)'
  BY <1>2 DEF FetchReport, Judge, LoseConnection, FallSilent
<1>3. ASSUME NEW k \in Runs, ReadPlan(k) PROVE ScriptFits(r)'
  BY <1>3, RunsAssumption DEF ReadPlan
<1>4. ASSUME NEW k \in Runs, BeginReport(k) \/ EndReport(k) \/ Kill(k) PROVE ScriptFits(r)'
  BY <1>4 DEF BeginReport, EndReport, Kill
<1>5. CASE UNCHANGED vars
  BY <1>5 DEF vars
<1> QED BY <1>1, <1>2, <1>3, <1>4, <1>5 DEF Next

\* A step of another run leaves alone what a lone run sees: either the other
\* run touches no file, or the lone run is over.
LEMMA OtherStep ==
  ASSUME MInv, NEW r \in Runs, r \notin overlapped', NEW k \in Runs, k # r,
         Alone(r),
         \/ Start(k) \/ BeginUpload(k) \/ EndUpload(k) \/ Launch(k) \/ FetchReport(k)
         \/ LoseConnection(k) \/ FallSilent(k) \/ ReadPlan(k) \/ BeginReport(k) \/ EndReport(k) \/ Kill(k)
  PROVE  Alone(r)'
<1>1. pc'[r] = pc[r] /\ script'[r] = script[r] /\ read'[r] = read[r] /\ got'[r] = got[r]
  BY DEF MInv, TypeOK, Start, BeginUpload, EndUpload, Launch, FetchReport, Judge,
         LoseConnection, FallSilent, ReadPlan, BeginReport, EndReport, Kill
<1>2. CASE UNCHANGED <<plan, report>>
  BY <1>1, <1>2 DEF Alone
<1>3. CASE ~UNCHANGED <<plan, report>>
  <2>1. Busy(k) /\ overlapped' = overlapped
    BY <1>3 DEF Busy, InFlight, Running, Start, BeginUpload, EndUpload, Launch,
                FetchReport, Judge, LoseConnection, FallSilent, ReadPlan, BeginReport, EndReport, Kill
  <2>2. ~Busy(r)
    BY <2>1 DEF MInv, Meeting
  <2> QED BY <1>1, <2>2 DEF Alone, Busy, InFlight, Running
<1> QED BY <1>2, <1>3

\* A step of a lone run itself.
LEMMA OwnStep ==
  ASSUME MInv, NEW r \in Runs, r \notin overlapped', Alone(r),
         \/ Start(r) \/ BeginUpload(r) \/ EndUpload(r) \/ Launch(r) \/ FetchReport(r)
         \/ LoseConnection(r) \/ FallSilent(r) \/ ReadPlan(r) \/ BeginReport(r) \/ EndReport(r) \/ Kill(r)
  PROVE  Alone(r)'
<1> USE RunsAssumption DEF MInv, TypeOK, ScriptFits, Alone, InFlight, Running
<1>1. CASE Start(r) \/ BeginUpload(r) \/ EndUpload(r)
  BY <1>1 DEF Start, BeginUpload, EndUpload
<1>2. CASE Launch(r) \/ LoseConnection(r) \/ FallSilent(r)
  BY <1>2 DEF Launch, LoseConnection, FallSilent
<1>3. CASE FetchReport(r)
  <2>1. CASE script[r] = "done"
    <3>1. report = [by |-> r, plan |-> r]
      BY <1>3, <2>1 DEF FetchReport
    <3>2. report \notin {NoReport, Torn}
      BY <3>1 DEF NoReport, Torn
    <3>3. pc'[r] = "judged" /\ got'[r] = report /\ UNCHANGED <<script, read, plan, report>>
      BY <1>3, <3>2 DEF FetchReport, Judge
    <3> QED BY <2>1, <3>1, <3>3
  <2>2. CASE script[r] = "dead"
    <3>1. pc'[r] \in {"judged", "unreadable"} /\ UNCHANGED <<script, read, plan, report>>
      BY <1>3 DEF FetchReport, Judge
    <3> QED BY <2>2, <3>1
  <2> QED BY <1>3, <2>1, <2>2 DEF FetchReport
<1>4. CASE ReadPlan(r)
  BY <1>4 DEF ReadPlan
<1>5. CASE BeginReport(r) \/ Kill(r)
  BY <1>5 DEF BeginReport, Kill
<1>6. CASE EndReport(r)
  BY <1>6 DEF EndReport
<1> QED BY <1>1, <1>2, <1>3, <1>4, <1>5, <1>6

\* Whoever is in overlapped stays there.
LEMMA OverlappedGrows ==
  ASSUME [Next]_vars
  PROVE  overlapped \subseteq overlapped'
BY DEF Next, vars, Start, BeginUpload, EndUpload, Launch, FetchReport, LoseConnection, FallSilent,
       ReadPlan, BeginReport, EndReport, Kill

\* The inductive invariant: runs that meet know it, and a run that met nobody
\* finds its own plan and its own report at each point of its life.
THEOREM ManualInvariant == Spec => []MInv
<1>1. Init => MInv
  BY DEF Init, MInv, TypeOK, Meeting, ScriptFits, Alone, Busy, InFlight, Running, Reports,
         NoReport, Torn
<1>2. MInv /\ [Next]_vars => MInv'
  <2> SUFFICES ASSUME MInv, [Next]_vars PROVE MInv'
    OBVIOUS
  <2>1. TypeOK'
    BY TypeStep DEF MInv
  <2>2. Meeting'
    BY MeetingStep
  <2>3. ASSUME NEW r \in Runs PROVE ScriptFits(r)'
    BY ScriptStep DEF MInv
  <2>4. ASSUME NEW r \in Runs, r \notin overlapped' PROVE Alone(r)'
    <3>1. Alone(r)
      BY <2>4, OverlappedGrows DEF MInv
    <3>2. CASE UNCHANGED vars
      BY <3>1, <3>2 DEF vars, Alone
    <3>3. ASSUME NEW k \in Runs, k # r,
                 \/ Start(k) \/ BeginUpload(k) \/ EndUpload(k) \/ Launch(k) \/ FetchReport(k)
                 \/ LoseConnection(k) \/ FallSilent(k) \/ ReadPlan(k) \/ BeginReport(k) \/ EndReport(k) \/ Kill(k)
          PROVE  Alone(r)'
      BY <2>4, <3>1, <3>3, OtherStep
    <3>4. CASE \/ Start(r) \/ BeginUpload(r) \/ EndUpload(r) \/ Launch(r) \/ FetchReport(r)
               \/ LoseConnection(r) \/ FallSilent(r) \/ ReadPlan(r) \/ BeginReport(r) \/ EndReport(r) \/ Kill(r)
      BY <2>4, <3>1, <3>4, OwnStep
    <3> QED BY <3>2, <3>3, <3>4 DEF Next
  <2> QED BY <2>1, <2>2, <2>3, <2>4 DEF MInv
<1> QED BY <1>1, <1>2, PTL DEF Spec

\* The plan and report files only ever hold what one of the runs wrote, or a
\* torn half of it.
THEOREM ManualTypes == Spec => []TypeOK
<1>1. MInv => TypeOK
  BY DEF MInv
<1> QED BY <1>1, ManualInvariant, PTL

\* BackupService.run judges a run that was alone by the report of its own
\* script, which worked on its own plan.
THEOREM OwnVerdict == Spec => []VerdictIsOwn
<1>1. MInv => VerdictIsOwn
  BY DEF MInv, Alone, VerdictIsOwn
<1> QED BY <1>1, ManualInvariant, PTL

\* backup.ps1 never works on a plan an earlier run left behind, nor on a torn
\* one, unless the run met another.
THEOREM OwnPlan == Spec => []ExecutesOwnPlan
<1>1. MInv => ExecutesOwnPlan
  BY DEF MInv, TypeOK, ScriptFits, Alone, ExecutesOwnPlan, Running
<1> QED BY <1>1, ManualInvariant, PTL

-----------------------------------------------------------------------------
\* A report with its two names is the work of a script that has completed, on
\* the plan that script had read.
WrittenBy(rep, k) == script[k] = "done" /\ rep = [by |-> k, plan |-> read[k]]

ReportsHaveAuthors ==
  /\ report \in {NoReport, Torn} \/ \E k \in Runs : WrittenBy(report, k)
  /\ \A r \in Runs : pc[r] = "judged" => \E k \in Runs : WrittenBy(got[r], k)

\* Every verdict, of a run under overlap too, is that of one whole execution: a
\* script that completed, with the plan it had read.  A run that was alone is
\* judged by another's execution exactly if its own script was killed.
VerdictHasAnAuthor ==
  \A r \in Runs : pc[r] = "judged" =>
    /\ \E k \in Runs : WrittenBy(got[r], k)
    /\ r \notin overlapped => (got[r].by = r <=> script[r] = "done")

\* A completed script stays so, and so does what it has read.
LEMMA AuthorsStay ==
  ASSUME TypeOK, [Next]_vars, NEW k \in Runs, ScriptFits(k), script[k] = "done"
  PROVE  script'[k] = "done" /\ read'[k] = read[k]
<1>1. ASSUME NEW r \in Runs, Launch(r) \/ ReadPlan(r) \/ BeginReport(r) \/ EndReport(r) \/ Kill(r),
             k # r
      PROVE  script'[k] = "done" /\ read'[k] = read[k]
  BY <1>1 DEF TypeOK, Launch, ReadPlan, BeginReport, EndReport, Kill
<1>2. ~(Launch(k) \/ ReadPlan(k) \/ BeginReport(k) \/ EndReport(k) \/ Kill(k))
  BY DEF Launch, ReadPlan, BeginReport, EndReport, Kill, Running, ScriptFits
<1>3. CASE UNCHANGED <<script, read>>
  BY <1>3
<1> QED BY <1>1, <1>2, <1>3 DEF Next, vars, Start, BeginUpload, EndUpload, FetchReport,
           LoseConnection, FallSilent

LEMMA AuthorStep ==
  ASSUME MInv, ReportsHaveAuthors, [Next]_vars
  PROVE  ReportsHaveAuthors'
<1>0. TypeOK /\ \A k \in Runs : script[k] = "done" => script'[k] = "done" /\ read'[k] = read[k]
  BY AuthorsStay DEF MInv
<1> USE DEF WrittenBy, ReportsHaveAuthors
<1>1. report' \in {NoReport, Torn} \/
        \E k \in Runs : script'[k] = "done" /\ report' = [by |-> k, plan |-> read'[k]]
  <2>1. ASSUME NEW k \in Runs, EndReport(k)
        PROVE  script'[k] = "done" /\ report' = [by |-> k, plan |-> read'[k]]
    BY <1>0, <2>1 DEF EndReport, TypeOK
  <2>2. ASSUME NEW k \in Runs, BeginReport(k) PROVE report' = Torn
    BY <2>2 DEF BeginReport
  <2>3. CASE report' = report
    BY <1>0, <2>3
  <2> QED BY <2>1, <2>2, <2>3 DEF Next, vars, Start, BeginUpload, EndUpload, Launch,
             FetchReport, LoseConnection, FallSilent, ReadPlan, Kill
<1>2. ASSUME NEW r \in Runs, pc'[r] = "judged"
      PROVE  \/ pc[r] = "judged" /\ got'[r] = got[r]
             \/ report \notin {NoReport, Torn} /\ got'[r] = report
  <2>1. ASSUME NEW k \in Runs, FetchReport(k)
        PROVE  \/ pc[r] = "judged" /\ got'[r] = got[r]
               \/ report \notin {NoReport, Torn} /\ got'[r] = report
    BY <1>0, <1>2, <2>1 DEF FetchReport, Judge, TypeOK
  <2>2. ASSUME NEW k \in Runs,
               Start(k) \/ BeginUpload(k) \/ EndUpload(k) \/ Launch(k) \/ LoseConnection(k) \/ FallSilent(k)
        PROVE  pc[r] = "judged" /\ got'[r] = got[r]
    BY <1>0, <1>2, <2>2 DEF Start, BeginUpload, EndUpload, Launch, LoseConnection, FallSilent, TypeOK
  <2>3. CASE UNCHANGED <<pc, got>>
    BY <1>2, <2>3
  <2> QED BY <2>1, <2>2, <2>3 DEF Next, vars, ReadPlan, BeginReport, EndReport, Kill
<1>3. ASSUME NEW r \in Runs, pc'[r] = "judged"
      PROVE  \E k \in Runs : script'[k] = "done" /\ got'[r] = [by |-> k, plan |-> read'[k]]
  <2>1. PICK k \in Runs : script[k] = "done" /\ got'[r] = [by |-> k, plan |-> read[k]]
    BY <1>2, <1>3
  <2> QED BY <1>0, <2>1
<1> QED BY <1>1, <1>3

\* The panel never judges by a torn report or by a mixture of two, and where
\* nobody overlaps it takes an earlier run's report for its own in one case
\* only: its script was killed before it wrote one.
THEOREM VerdictsHaveAuthors == Spec => []VerdictHasAnAuthor
<1>1. Init => ReportsHaveAuthors
  BY DEF Init, ReportsHaveAuthors
<1>2. MInv /\ ReportsHaveAuthors /\ [Next]_vars => ReportsHaveAuthors'
  BY AuthorStep
<1>3. MInv /\ ReportsHaveAuthors => VerdictHasAnAuthor
  <2> SUFFICES ASSUME MInv, ReportsHaveAuthors, NEW r \in Runs, pc[r] = "judged"
               PROVE  /\ \E k \in Runs : WrittenBy(got[r], k)
                      /\ r \notin overlapped => (got[r].by = r <=> script[r] = "done")
    BY DEF VerdictHasAnAuthor
  <2>1. PICK k \in Runs : WrittenBy(got[r], k)
    BY DEF ReportsHaveAuthors
  <2>2. got[r].by = r => script[r] = "done"
    BY <2>1 DEF WrittenBy
  <2>3. ASSUME r \notin overlapped, script[r] = "done" PROVE got[r].by = r
    <3>1. Alone(r)
      BY <2>3 DEF MInv
    <3>2. got[r] = [by |-> r, plan |-> r]
      BY <2>3, <3>1 DEF Alone
    <3> QED BY <3>2
  <2> QED BY <2>1, <2>2, <2>3
<1> QED BY <1>1, <1>2, <1>3, ManualInvariant, PTL DEF Spec


-----------------------------------------------------------------------------
\* The places BackupService.run and the script of r may still go through.
RunLeft(r) ==
  CASE pc[r] = "idle" -> 5
    [] pc[r] = "connecting" -> 4
    [] pc[r] = "uploading" -> 3
    [] pc[r] = "uploaded" -> 2
    [] pc[r] = "streaming" -> 1
    [] OTHER -> 0

ScriptLeft(r) ==
  CASE script[r] = "none" -> 4
    [] script[r] = "launched" -> 3
    [] script[r] = "working" -> 2
    [] script[r] = "writing" -> 1
    [] OTHER -> 0

\* A run and its script only go forward.  The verdict of a run that has ended,
\* the plan a script has read and the fact that a run met another stand: no
\* report that comes late rewrites a verdict.
RunsOnlyAdvance ==
  [][\A r \in Runs :
       /\ pc'[r] = pc[r] \/ RunLeft(r)' < RunLeft(r)
       /\ script'[r] = script[r] \/ ScriptLeft(r)' < ScriptLeft(r)
       /\ RunLeft(r) = 0 => got'[r] = got[r]
       /\ read[r] # "none" => read'[r] = read[r]
       /\ r \in overlapped => r \in overlapped']_vars

\* Each run is judged once, by the report as it was when its stream ended; a
\* script that outlives its run's connection changes nothing in that verdict.
THEOREM VerdictsStand == Spec => RunsOnlyAdvance
<1> DEFINE On(r) ==
      /\ pc'[r] = pc[r] \/ RunLeft(r)' < RunLeft(r)
      /\ script'[r] = script[r] \/ ScriptLeft(r)' < ScriptLeft(r)
      /\ RunLeft(r) = 0 => got'[r] = got[r]
      /\ read[r] # "none" => read'[r] = read[r]
      /\ r \in overlapped => r \in overlapped'
<1>1. MInv /\ [Next]_vars => [\A r \in Runs : On(r)]_vars
  <2> SUFFICES ASSUME MInv, Next, NEW r \in Runs PROVE On(r)
    OBVIOUS
  <2>t. TypeOK /\ ScriptFits(r) /\ overlapped \subseteq overlapped'
    BY OverlappedGrows DEF MInv
  <2>p. PICK k \in Runs :
          \/ Start(k) \/ BeginUpload(k) \/ EndUpload(k) \/ Launch(k)
          \/ FetchReport(k) \/ LoseConnection(k) \/ FallSilent(k)
          \/ ReadPlan(k) \/ BeginReport(k) \/ EndReport(k) \/ Kill(k)
    BY DEF Next
  <2>1. CASE k # r
    <3>1. pc'[r] = pc[r] /\ script'[r] = script[r] /\ read'[r] = read[r] /\ got'[r] = got[r]
      BY <2>t, <2>p, <2>1 DEF TypeOK, Start, BeginUpload, EndUpload, Launch, FetchReport, Judge,
         LoseConnection, FallSilent, ReadPlan, BeginReport, EndReport, Kill
    <3> QED BY <2>t, <3>1
  <2>2. CASE k = r
    <3> USE <2>t, <2>2 DEF TypeOK, RunLeft, ScriptLeft
    <3>1. CASE Start(k) \/ BeginUpload(k) \/ EndUpload(k)
      BY <3>1 DEF Start, BeginUpload, EndUpload
    <3>2. CASE Launch(k)
      BY <3>2 DEF Launch, ScriptFits
    <3>3. CASE FetchReport(k)
      BY <3>3 DEF FetchReport, Judge
    <3>4. CASE LoseConnection(k) \/ FallSilent(k)
      BY <3>4 DEF LoseConnection, FallSilent, InFlight
    <3>5. CASE ReadPlan(k)
      <4>1. read[r] = "none"
        BY <3>5 DEF ReadPlan, ScriptFits
      <4> QED BY <3>5, <4>1 DEF ReadPlan
    <3>6. CASE BeginReport(k) \/ EndReport(k)
      BY <3>6 DEF BeginReport, EndReport
    <3>7. CASE Kill(k)
      BY <3>7 DEF Kill, Running
    <3> HIDE DEF On
    <3> QED BY <2>p, <3>1, <3>2, <3>3, <3>4, <3>5, <3>6, <3>7
  <2> HIDE DEF On
  <2> QED BY <2>1, <2>2
<1> QED BY <1>1, ManualInvariant, PTL DEF Spec, RunsOnlyAdvance
=============================================================================
