--------------------------- MODULE ScheduleProofs ---------------------------
(***************************************************************************)
(* Theorems about Schedule, for any number of handlers, runs, changes,     *)
(* requests, firings and troubles.                                         *)
(***************************************************************************)
EXTENDS Schedule, TLAPS

\* Every row that had the id was made by a change.
GenerationsAreChanges == gen <= now

\* A handler that works on something is at some step of it, and a plan that
\* was built from the rows as they are is a plan for the row that is there.
OpFits(h) ==
  /\ op[h].kind = "none" <=> op[h].step = "none"
  /\ op[h].kind # "none" =>
       op[h].plan.at <= now /\ (op[h].plan.at = now => op[h].plan.gen = gen)

\* What an install that nobody disturbed has put on the server so far.
Installed(h) ==
  (op[h].kind # "none" /\ op[h].alone) =>
    /\ \A g \in Handlers \ {h} : op[g].kind = "none"
    /\ op[h].step \in {"plan", "wrapper", "create", "clamp", "validate"} => dir
    /\ op[h].step \in {"wrapper", "create", "clamp", "validate"} => plan = op[h].plan
    /\ op[h].step \in {"create", "clamp", "validate"} => wrapper
    /\ op[h].step \in {"clamp", "validate"} => task.at = op[h].plan.at

\* What an answered install left stands until something begins.
Settled == settled => SettledInstallIsLive /\ \A h \in Handlers : op[h].kind = "none"

\* As long as no removal failed or met another request, the task, the plan
\* and the requests under way are those of the row that is there.
CleanRows ==
  ~dirty =>
    /\ task.limit # "none" => exists /\ task.gen = gen
    /\ plan # NoPlan => exists /\ plan.gen = gen
    /\ \A h \in Handlers : op[h].kind # "none" =>
         /\ exists /\ op[h].plan.gen = gen
         /\ op[h].alone /\ op[h].step = "remove" => task.limit = "none"

\* As long as no run survived a removal either, so are reports and runs.
CleanReports ==
  (~dirty /\ ~survivor) =>
    /\ report # 0 => exists /\ report = gen
    /\ \A r \in Runs : run[r].step # "idle" =>
         /\ exists /\ run[r].gen = gen
         /\ run[r].step = "copy" => run[r].plan.gen = gen

\* As long as no run survived a removal, runs do not meet, and the report a
\* run finds fresh is its own.
RunsFit ==
  ~survivor =>
    \A r \in Runs : run[r].step # "idle" =>
      /\ run[r].attached
      /\ \A s \in Runs \ {r} : run[s].step = "idle"
      /\ run[r].fresh => run[r].excuse \/ run[r].told \/ run[r].step = "message"

SInv ==
  /\ TypeOK
  /\ GenerationsAreChanges
  /\ \A h \in Handlers : OpFits(h) /\ Installed(h)
  /\ Settled
  /\ CleanRows
  /\ CleanReports
  /\ RunsFit

-----------------------------------------------------------------------------
\* The bounds are naturals, and the records that stand for nothing have the
\* types of the others.
LEMMA Numbers ==
  MaxChanges \in Nat /\ MaxRequests \in Nat /\ MaxFirings \in Nat /\ MaxTroubles \in Nat
BY BoundsAssumption

LEMMA NothingTypes ==
  NoPlan \in Plans /\ NoTask \in Tasks /\ Idle \in Requests /\ NotRunning \in NightlyRuns
<1>1. 0 \in 0..MaxChanges
  BY Numbers
<1>2. NoPlan \in Plans
  BY <1>1 DEF NoPlan, Plans
<1>3. NoTask \in Tasks
  BY <1>1 DEF NoTask, Tasks
<1>4. Idle \in Requests
  BY <1>2 DEF Idle, Requests
<1>5. NotRunning \in NightlyRuns
  BY <1>1, <1>2 DEF NotRunning, NightlyRuns
<1> QED BY <1>2, <1>3, <1>4, <1>5

\* A request goes to another step, or ends.
LEMMA GotoTypes ==
  ASSUME TypeOK, NEW h \in Handlers, NEW step \in InstallSteps \union RemovalSteps, Goto(h, step)
  PROVE  op' \in [Handlers -> Requests]
BY DEF TypeOK, Goto, Requests

LEMMA AnswerTypes ==
  ASSUME TypeOK, NEW h \in Handlers, Answer(h)
  PROVE  op' \in [Handlers -> Requests]
BY NothingTypes DEF TypeOK, Answer

LEMMA StepNames ==
  {"connect", "plan", "wrapper", "create", "clamp", "validate", "unregister", "remove"}
    = InstallSteps \union RemovalSteps
BY DEF InstallSteps, RemovalSteps

\* A change of a row, or the start of a request, keeps the types.
LEMMA PanelTypes ==
  ASSUME TypeOK, GenerationsAreChanges,
         \/ CreateConfig \/ EditConfig \/ EditOrDeleteStorage
         \/ \E h \in Handlers : BeginRequest(h)
  PROVE  TypeOK'
<1> USE Numbers
<1>1. Changed => now' \in 0..MaxChanges /\ (gen + 1) \in 0..MaxChanges
  BY DEF Changed, TypeOK, GenerationsAreChanges
<1>2. CASE CreateConfig
  <2>1. gen' \in 0..MaxChanges /\ now' \in 0..MaxChanges
    BY <1>1, <1>2 DEF CreateConfig
  <2>2. exists' \in BOOLEAN /\ stored' \in BOOLEAN /\ settled' \in BOOLEAN
    BY <1>2, Zenon DEF CreateConfig, Changed
  <2> QED BY <1>2, <2>1, <2>2 DEF CreateConfig, Changed, TypeOK, files, counts
<1>3. CASE EditConfig
  <2>1. stored' \in BOOLEAN /\ settled' \in BOOLEAN
    BY <1>3, Zenon DEF EditConfig, Changed
  <2> QED BY <1>1, <1>3, <2>1 DEF EditConfig, Changed, TypeOK, files, counts
<1>4. CASE EditOrDeleteStorage
  <2>1. stored' \in BOOLEAN /\ settled' \in BOOLEAN
    BY <1>4, Zenon DEF EditOrDeleteStorage, Changed
  <2> QED BY <1>1, <1>4, <2>1 DEF EditOrDeleteStorage, Changed, TypeOK, files, counts
<1>5. ASSUME NEW h \in Handlers, BeginRequest(h) PROVE TypeOK'
  <2>1. FrozenPlan \in Plans
    BY DEF FrozenPlan, Plans, TypeOK
  <2>2. PICK k \in {"install", "uninstall", "delete"} :
          op' = [g \in Handlers |->
            IF g = h
            THEN [kind |-> k, step |-> "connect", plan |-> FrozenPlan,
                  good |-> schedule = "good", alone |-> Busy = {}]
            ELSE IF g \in Busy THEN [op[g] EXCEPT !.alone = FALSE] ELSE op[g]]
    BY <1>5 DEF BeginRequest
  <2>3. [kind |-> k, step |-> "connect", plan |-> FrozenPlan,
         good |-> schedule = "good", alone |-> Busy = {}] \in Requests
    BY <2>1, StepNames DEF Requests
  <2>4. \A g \in Handlers : op[g] \in Requests /\ [op[g] EXCEPT !.alone = FALSE] \in Requests
    BY DEF TypeOK, Requests
  <2>5. op' \in [Handlers -> Requests]
    BY <2>2, <2>3, <2>4
  <2>6. requests' \in 0..MaxRequests
    BY <1>5 DEF BeginRequest, TypeOK
  <2>7. settled' \in BOOLEAN
    BY <1>5, Zenon DEF BeginRequest
  <2> QED BY <1>5, <2>5, <2>6, <2>7 DEF BeginRequest, TypeOK, row, files
<1> QED BY <1>2, <1>3, <1>4, <1>5

\* A step of an install keeps the types.
LEMMA InstallTypes ==
  ASSUME TypeOK, NEW h \in Handlers, Install(h)
  PROVE  TypeOK'
<1> USE Numbers, StepNames DEF row, files, memory, counts
<1>t. Trouble => troubles' \in 0..MaxTroubles
  BY DEF Trouble, TypeOK
<1>1. CASE Connect(h)
  <2>1. op' \in [Handlers -> Requests]
    BY <1>1, GotoTypes DEF Connect
  <2>2. dir' \in BOOLEAN
    BY <1>1, Zenon DEF Connect, TypeOK
  <2> QED BY <1>1, <2>1, <2>2 DEF Connect, TypeOK
<1>2. CASE PutPlan(h)
  <2>1. op' \in [Handlers -> Requests]
    BY <1>2, GotoTypes DEF PutPlan
  <2>2. plan' \in Plans
    BY <1>2 DEF PutPlan, TypeOK, Requests
  <2> QED BY <1>2, <2>1, <2>2 DEF PutPlan, TypeOK
<1>3. CASE PutWrapper(h)
  <2>1. op' \in [Handlers -> Requests]
    BY <1>3, GotoTypes DEF PutWrapper
  <2>2. wrapper' \in BOOLEAN
    BY <1>3, Zenon DEF PutWrapper
  <2> QED BY <1>3, <2>1, <2>2 DEF PutWrapper, TypeOK
<1>4. CASE CreateTask(h)
  <2>1. op' \in [Handlers -> Requests]
    BY <1>4, GotoTypes DEF CreateTask
  <2>2. task' \in Tasks
    BY <1>4 DEF CreateTask, TypeOK, Requests, Plans, Tasks
  <2> QED BY <1>4, <2>1, <2>2 DEF CreateTask, TypeOK
<1>5. CASE ClampTask(h)
  <2>1. op' \in [Handlers -> Requests]
    BY <1>5, GotoTypes DEF ClampTask
  <2>2. task' \in Tasks
    BY <1>5 DEF ClampTask, TypeOK, Tasks
  <2>3. troubles' \in 0..MaxTroubles
    BY <1>t, <1>5 DEF ClampTask, TypeOK
  <2> QED BY <1>5, <2>1, <2>2, <2>3 DEF ClampTask, TypeOK
<1>6. CASE ValidateTask(h)
  <2>1. op' \in [Handlers -> Requests]
    BY <1>6, AnswerTypes DEF ValidateTask
  <2>2. settled' \in BOOLEAN
    BY <1>6, Zenon DEF ValidateTask
  <2> QED BY <1>6, <2>1, <2>2 DEF ValidateTask, TypeOK
<1>7. CASE InstallFails(h)
  <2>1. op' \in [Handlers -> Requests]
    BY <1>7, AnswerTypes DEF InstallFails
  <2>2. troubles' \in 0..MaxTroubles
    BY <1>t, <1>7 DEF InstallFails, TypeOK
  <2> QED BY <1>7, <2>1, <2>2 DEF InstallFails, TypeOK
<1> QED BY <1>1, <1>2, <1>3, <1>4, <1>5, <1>6, <1>7 DEF Install

\* A step of a removal keeps the types.
LEMMA RemovalTypes ==
  ASSUME TypeOK, NEW h \in Handlers, Remove(h)
  PROVE  TypeOK'
<1> USE Numbers, StepNames DEF row, files, counts
<1>t. Trouble => troubles' \in 0..MaxTroubles
  BY DEF Trouble, TypeOK
<1>1. CASE Unregister(h)
  <2>1. op' \in [Handlers -> Requests]
    BY <1>1, GotoTypes DEF Unregister
  <2>2. task' \in Tasks /\ troubles' \in 0..MaxTroubles
    BY <1>t, <1>1, NothingTypes DEF Unregister, TypeOK
  <2>3. run' \in [Runs -> NightlyRuns]
    <3>1. \A r \in Runs : [run[r] EXCEPT !.attached = FALSE] \in NightlyRuns
      BY DEF TypeOK, NightlyRuns
    <3> QED BY <1>1, <3>1 DEF Unregister, TypeOK
  <2>4. dirty' \in BOOLEAN /\ survivor' \in BOOLEAN
    BY <1>1, Zenon DEF Unregister, RunsUnderWaySurvive, TypeOK
  <2> QED BY <1>1, <2>1, <2>2, <2>3, <2>4 DEF Unregister, TypeOK
<1>2. CASE RemoveFiles(h)
  <2>1. op' \in [Handlers -> Requests]
    BY <1>2, AnswerTypes DEF RemoveFiles, EndRemoval
  <2>2. plan' \in Plans /\ report' \in 0..MaxChanges /\ troubles' \in 0..MaxTroubles
    BY <1>t, <1>2, NothingTypes DEF RemoveFiles, TypeOK
  <2>3. dir' \in BOOLEAN /\ wrapper' \in BOOLEAN
    BY <1>2, Zenon DEF RemoveFiles, TypeOK
  <2>4. dirty' \in BOOLEAN /\ survivor' \in BOOLEAN
    BY <1>2, Zenon DEF RemoveFiles, RunsUnderWaySurvive, TypeOK
  <2>5. exists' \in BOOLEAN /\ settled' \in BOOLEAN
    BY <1>2, Zenon DEF RemoveFiles, EndRemoval
  <2> QED BY <1>2, <2>1, <2>2, <2>3, <2>4, <2>5 DEF RemoveFiles, TypeOK
<1>3. CASE RemovalFails(h)
  <2>1. op' \in [Handlers -> Requests]
    BY <1>3, AnswerTypes DEF RemovalFails, EndRemoval
  <2>2. exists' \in BOOLEAN /\ settled' \in BOOLEAN /\ dirty' \in BOOLEAN
    BY <1>3, Zenon DEF RemovalFails, EndRemoval
  <2> QED BY <1>t, <1>3, <2>1, <2>2 DEF RemovalFails, TypeOK
<1> QED BY <1>1, <1>2, <1>3 DEF Remove

\* A step of a nightly run keeps the types.
LEMMA NightlyTypes ==
  ASSUME TypeOK, NEW r \in Runs, Nightly(r)
  PROVE  TypeOK'
<1> USE Numbers DEF row, files, memory, counts, Quiet
<1>t. Trouble => troubles' \in 0..MaxTroubles
  BY DEF Trouble, TypeOK
<1>r. run[r] \in NightlyRuns /\ run \in [Runs -> NightlyRuns] /\ plan \in Plans /\ task \in Tasks
  BY DEF TypeOK
<1>1. CASE Fire(r)
  <2>1. [NotRunning EXCEPT !.step = "backup", !.gen = task.gen, !.attached = TRUE] \in NightlyRuns
    BY <1>r, NothingTypes DEF NightlyRuns, Tasks
  <2>2. firings' \in 0..MaxFirings
    BY <1>1 DEF Fire, TypeOK
  <2> QED BY <1>1, <2>1, <2>2 DEF Fire, TypeOK
<1>2. CASE ReadPlan(r)
  <2>1. [run[r] EXCEPT !.step = "copy", !.plan = plan] \in NightlyRuns
    BY <1>r DEF NightlyRuns
  <2> QED BY <1>2, <2>1 DEF ReadPlan, TypeOK
<1>3. ASSUME NEW step \in {"watchdog", "message"}, NEW by \in 0..MaxChanges, NEW sorry \in BOOLEAN,
             Report(r, step, by, sorry), Quiet
      PROVE  TypeOK'
  <2>1. [run[r] EXCEPT !.step = step, !.fresh = TRUE, !.excuse = sorry \/ @] \in NightlyRuns
    BY <1>r DEF NightlyRuns
  <2>2. \A s \in Runs : [run[s] EXCEPT !.fresh = TRUE] \in NightlyRuns /\ run[s] \in NightlyRuns
    BY <1>r DEF NightlyRuns
  <2>3. run' \in [Runs -> NightlyRuns]
    BY <1>3, <2>1, <2>2 DEF Report
  <2>4. dir' \in BOOLEAN
    BY <1>3, Zenon DEF Report
  <2> QED BY <1>3, <2>3, <2>4 DEF Report, TypeOK
<1>4. CASE PlanUnreadable(r)
  <2>1. run[r].gen \in 0..MaxChanges
    BY <1>r DEF NightlyRuns
  <2> QED BY <1>3, <1>4, <2>1 DEF PlanUnreadable
<1>5. CASE WriteReport(r)
  <2>1. run[r].plan.gen \in 0..MaxChanges
    BY <1>r DEF NightlyRuns, Plans
  <2> QED BY <1>3, <1>5, <2>1 DEF WriteReport
<1>6. CASE SendMessage(r)
  <2>1. [run[r] EXCEPT !.step = "watchdog", !.told = TRUE] \in NightlyRuns
    BY <1>r DEF NightlyRuns
  <2>2. [run[r] EXCEPT !.step = "watchdog", !.excuse = TRUE] \in NightlyRuns
    BY <1>r DEF NightlyRuns
  <2>3. run' \in [Runs -> NightlyRuns] /\ troubles' \in 0..MaxTroubles
    BY <1>t, <1>r, <1>6, <2>1, <2>2 DEF SendMessage, TypeOK
  <2> QED BY <1>6, <2>3 DEF SendMessage, TypeOK
<1>7. CASE ScriptDies(r)
  <2>1. [run[r] EXCEPT !.step = "watchdog",
                       !.excuse = run[r].excuse \/ run[r].step = "message"] \in NightlyRuns
    BY <1>r DEF NightlyRuns
  <2>3. run' \in [Runs -> NightlyRuns]
    BY <1>r, <1>7, <2>1 DEF ScriptDies
  <2> QED BY <1>t, <1>7, <2>3 DEF ScriptDies, TypeOK
<1>e. /\ [run[r] EXCEPT !.step = "idle", !.excuse = TRUE] \in NightlyRuns
      /\ [run[r] EXCEPT !.step = "idle", !.killed = TRUE] \in NightlyRuns
  BY <1>r DEF NightlyRuns
<1>8. CASE Watchdog(r)
  <2>1. \A told \in BOOLEAN : [run[r] EXCEPT !.step = "idle", !.told = told] \in NightlyRuns
    BY <1>r DEF NightlyRuns
  <2>2. run[r].told \in BOOLEAN
    BY <1>r DEF NightlyRuns
  <2>3. run' \in [Runs -> NightlyRuns]
    BY <1>r, <1>e, <1>8, <2>1, <2>2 DEF Watchdog, Over, Excused
  <2>4. troubles' \in 0..MaxTroubles
    BY <1>t, <1>8 DEF Watchdog, TypeOK
  <2> QED BY <1>8, <2>3, <2>4 DEF Watchdog, TypeOK
<1>9. CASE TimeLimit(r)
  BY <1>t, <1>r, <1>e, <1>9 DEF TimeLimit, TypeOK
<1> QED BY <1>1, <1>2, <1>4, <1>5, <1>6, <1>7, <1>8, <1>9 DEF Nightly

-----------------------------------------------------------------------------
\* A change of a row keeps the invariant: what was settled no longer is, and
\* a new row can only be made where no task, plan, report or run is left.
LEMMA ChangeStep ==
  ASSUME SInv, CreateConfig \/ EditConfig \/ EditOrDeleteStorage
  PROVE  SInv'
<1> USE DEF SInv
<1>1. TypeOK'
  BY PanelTypes
<1>2. /\ now' = now + 1 /\ ~settled'
      /\ UNCHANGED <<op, task, dir, wrapper, plan, report, run, dirty, survivor>>
      /\ now \in Nat /\ gen \in Nat
  BY DEF CreateConfig, EditConfig, EditOrDeleteStorage, Changed, files, TypeOK
<1>3. \/ gen' = gen /\ exists' = exists
      \/ gen' = gen + 1 /\ ~exists /\ exists'
  <2>1. CASE CreateConfig
    BY <2>1 DEF CreateConfig
  <2>2. CASE EditConfig
    BY <2>2 DEF EditConfig
  <2>3. CASE EditOrDeleteStorage
    BY <2>3 DEF EditOrDeleteStorage
  <2> QED BY <2>1, <2>2, <2>3
<1>4. \A h \in Handlers : op[h].plan.at \in Nat
  BY DEF TypeOK, Requests, Plans
<1>5. GenerationsAreChanges' /\ Settled'
  <2>1. gen' <= now'
    BY <1>2, <1>3 DEF GenerationsAreChanges
  <2> QED BY <1>2, <2>1 DEF GenerationsAreChanges, Settled
<1>6. \A h \in Handlers : OpFits(h)' /\ Installed(h)'
  BY <1>2, <1>4 DEF OpFits, Installed
<1>7. CleanRows' /\ CleanReports'
  BY <1>2, <1>3 DEF CleanRows, CleanReports
<1>8. RunsFit'
  BY <1>2 DEF RunsFit
<1> QED BY <1>1, <1>5, <1>6, <1>7, <1>8

\* A request that begins ends the loneliness of the others.
LEMMA BeginStep ==
  ASSUME SInv, NEW h \in Handlers, BeginRequest(h)
  PROVE  SInv'
<1> USE DEF SInv
<1>1. TypeOK'
  BY PanelTypes
<1>2. /\ UNCHANGED <<now, gen, exists, task, dir, wrapper, plan, report, run, dirty, survivor>>
      /\ ~settled' /\ exists /\ op[h].kind = "none"
  BY DEF BeginRequest, row, files
<1>3. /\ op'[h].kind # "none" /\ op'[h].step = "connect"
      /\ op'[h].plan = [gen |-> gen, at |-> now]
      /\ op'[h].alone => \A g \in Handlers : op[g].kind = "none"
  <2>1. PICK k \in {"install", "uninstall", "delete"} :
          op'[h] = [kind |-> k, step |-> "connect", plan |-> FrozenPlan,
                    good |-> schedule = "good", alone |-> Busy = {}]
    BY DEF BeginRequest
  <2>2. op'[h].alone = (Busy = {})
    BY <2>1
  <2>3. op'[h].alone => Busy = {}
    BY <2>2
  <2> QED BY <2>1, <2>3 DEF FrozenPlan, Busy
<1>4. \A g \in Handlers \ {h} :
        /\ op'[g].kind = op[g].kind /\ op'[g].step = op[g].step /\ op'[g].plan = op[g].plan
        /\ op[g].kind # "none" => ~op'[g].alone
  BY DEF BeginRequest, Busy, TypeOK, Requests
<1>5. now \in Nat
  BY DEF TypeOK
<1>6. GenerationsAreChanges' /\ Settled'
  BY <1>2 DEF GenerationsAreChanges, Settled
<1>7. ASSUME NEW g \in Handlers PROVE OpFits(g)' /\ Installed(g)'
  <2>1. CASE g = h
    BY <1>2, <1>3, <1>4, <1>5, <2>1 DEF OpFits, Installed
  <2>2. CASE g # h
    BY <1>2, <1>4, <2>2 DEF OpFits, Installed
  <2> QED BY <2>1, <2>2
<1>8. CleanRows'
  BY <1>2, <1>3, <1>4 DEF CleanRows
<1>9. CleanReports' /\ RunsFit'
  BY <1>2 DEF CleanReports, RunsFit
<1> QED BY <1>1, <1>6, <1>7, <1>8, <1>9

\* What a step of request h does to the requests.
Advances(h, step) ==
  /\ op'[h].kind = op[h].kind /\ op'[h].step = step /\ op'[h].plan = op[h].plan
  /\ op'[h].alone = op[h].alone
  /\ \A g \in Handlers \ {h} : op'[g] = op[g]

Ends(h) ==
  op'[h].kind = "none" /\ op'[h].step = "none" /\ \A g \in Handlers \ {h} : op'[g] = op[g]

LEMMA GotoAdvances ==
  ASSUME TypeOK, NEW h \in Handlers, NEW step, Goto(h, step)
  PROVE  Advances(h, step)
BY DEF TypeOK, Requests, Goto, Advances

LEMMA AnswerEnds ==
  ASSUME TypeOK, NEW h \in Handlers, Answer(h)
  PROVE  Ends(h)
BY DEF TypeOK, Answer, Idle, Ends

\* A step of an install that goes on keeps the invariant: each leaves on the
\* server what the next ones count on.
LEMMA InstallGoesOn ==
  ASSUME SInv, NEW h \in Handlers,
         Connect(h) \/ PutPlan(h) \/ PutWrapper(h) \/ CreateTask(h) \/ ClampTask(h)
  PROVE  SInv'
<1> USE DEF SInv
<1>1. TypeOK'
  BY InstallTypes, RemovalTypes DEF Install
<1>2. UNCHANGED <<now, gen, exists, report, run, settled, dirty, survivor>>
  BY DEF Connect, PutPlan, PutWrapper, CreateTask, ClampTask, row, memory, files
<1>3. op[h].kind # "none"
  BY DEF Connect, PutPlan, PutWrapper, CreateTask, ClampTask, OpFits
<1>4. ~settled
  BY <1>3 DEF Settled
<1>5. GenerationsAreChanges' /\ Settled' /\ CleanReports' /\ RunsFit'
  BY <1>2, <1>4 DEF GenerationsAreChanges, Settled, CleanReports, RunsFit
<1>6. PICK step \in {"plan", "unregister", "wrapper", "create", "clamp", "validate"} : Advances(h, step)
  BY GotoAdvances DEF Connect, PutPlan, PutWrapper, CreateTask, ClampTask
<1>7. \A g \in Handlers : OpFits(g)'
  BY <1>2, <1>3, <1>6 DEF OpFits, Advances
<1>8. \A g \in Handlers \ {h} : op[g].kind # "none" => ~op[g].alone
  BY <1>3 DEF Installed
<1>9. \A g \in Handlers \ {h} : Installed(g)'
  BY <1>6, <1>8 DEF Installed, Advances
<1>10. op[h].alone => \A g \in Handlers \ {h} : op'[g].kind = "none"
  BY <1>3, <1>6 DEF Installed, Advances
<1>11. CASE Connect(h)
  <2>1. op'[h].step # "unregister" => op'[h].step = "plan" /\ dir'
    BY <1>11, GotoAdvances DEF Connect, Advances
  <2>2. Installed(h)'
    BY <1>6, <1>10, <2>1 DEF Installed, Advances
  <2>3. UNCHANGED <<task, plan>>
    BY <1>11 DEF Connect
  <2>4. CleanRows'
    BY <1>2, <1>6, <2>3 DEF CleanRows, Advances
  <2> QED BY <1>1, <1>5, <1>7, <1>9, <2>2, <2>4
<1>12. CASE PutPlan(h)
  <2>1. op'[h].step = "wrapper" /\ plan' = op[h].plan /\ UNCHANGED <<task, dir>> /\ dir
    BY <1>12, GotoAdvances DEF PutPlan, Advances
  <2>2. Installed(h)'
    BY <1>6, <1>10, <2>1 DEF Installed, Advances
  <2>3. CleanRows'
    BY <1>2, <1>3, <1>6, <2>1 DEF CleanRows, Advances
  <2> QED BY <1>1, <1>5, <1>7, <1>9, <2>2, <2>3
<1>13. CASE PutWrapper(h)
  <2>1. op'[h].step = "create" /\ op[h].step = "wrapper" /\ wrapper' /\ UNCHANGED <<task, dir, plan>>
    BY <1>13, GotoAdvances DEF PutWrapper, Advances
  <2>2. Installed(h)'
    BY <1>3, <1>6, <1>10, <2>1 DEF Installed, Advances
  <2>3. CleanRows'
    BY <1>2, <1>6, <2>1 DEF CleanRows, Advances
  <2> QED BY <1>1, <1>5, <1>7, <1>9, <2>2, <2>3
<1>14. CASE CreateTask(h)
  <2>1. /\ op'[h].step = "clamp" /\ op[h].step = "create" /\ UNCHANGED <<wrapper, dir, plan>>
        /\ task'.at = op[h].plan.at /\ task'.gen = op[h].plan.gen
    BY <1>14, GotoAdvances DEF CreateTask, Advances, files
  <2>2. Installed(h)'
    BY <1>3, <1>6, <1>10, <2>1 DEF Installed, Advances
  <2>3. CleanRows'
    BY <1>2, <1>3, <1>6, <1>8, <2>1 DEF CleanRows, Advances
  <2> QED BY <1>1, <1>5, <1>7, <1>9, <2>2, <2>3
<1>15. CASE ClampTask(h)
  <2>1. /\ op'[h].step = "validate" /\ op[h].step = "clamp" /\ UNCHANGED <<wrapper, dir, plan>>
        /\ task'.at = task.at /\ task'.gen = task.gen /\ task.limit # "none"
    BY <1>15, GotoAdvances DEF ClampTask, Advances, files, TypeOK, Tasks
  <2>2. Installed(h)'
    BY <1>3, <1>6, <1>10, <2>1 DEF Installed, Advances
  <2>3. CleanRows'
    BY <1>2, <1>6, <2>1 DEF CleanRows, Advances
  <2> QED BY <1>1, <1>5, <1>7, <1>9, <2>2, <2>3
<1> QED BY <1>11, <1>12, <1>13, <1>14, <1>15

\* An install that ends, well or badly, keeps the invariant: an ok that
\* settles something finds the task validated and everything else in place.
LEMMA InstallEnds ==
  ASSUME SInv, NEW h \in Handlers, ValidateTask(h) \/ InstallFails(h)
  PROVE  SInv'
<1> USE DEF SInv
<1>1. TypeOK'
  BY InstallTypes DEF Install
<1>2. UNCHANGED <<now, gen, exists, task, dir, wrapper, plan, report, run, dirty, survivor>>
  BY DEF ValidateTask, InstallFails, row, files, memory
<1>3. op[h].kind # "none"
  BY DEF ValidateTask, InstallFails, OpFits
<1>4. Ends(h)
  BY AnswerEnds DEF ValidateTask, InstallFails
<1>5. GenerationsAreChanges' /\ CleanReports' /\ RunsFit'
  BY <1>2 DEF GenerationsAreChanges, CleanReports, RunsFit
<1>6. \A g \in Handlers : OpFits(g)'
  BY <1>2, <1>4 DEF OpFits, Ends
<1>7. \A g \in Handlers : Installed(g)'
  BY <1>2, <1>3, <1>4 DEF Installed, Ends
<1>8. CleanRows'
  BY <1>2, <1>4 DEF CleanRows, Ends
<1>9. Settled'
  <2>1. CASE ValidateTask(h)
    <3> SUFFICES ASSUME settled' PROVE Settled'
      BY DEF Settled
    <3>1. op[h].alone /\ op[h].plan.at = now /\ op[h].step = "validate" /\ task.limit = "30 minutes"
      BY <2>1 DEF ValidateTask, Validated
    <3>2. dir /\ wrapper /\ plan = op[h].plan /\ task.at = now
      BY <1>3, <3>1 DEF Installed
    <3>3. \A g \in Handlers \ {h} : op[g].kind = "none"
      BY <1>3, <3>1 DEF Installed
    <3>4. \A g \in Handlers : op'[g].kind = "none"
      BY <1>4, <3>3 DEF Ends
    <3>5. op[h].plan = [gen |-> gen, at |-> now]
      BY <1>3, <3>1 DEF OpFits, TypeOK, Requests, Plans
    <3> QED BY <1>2, <3>1, <3>2, <3>4, <3>5 DEF Settled, SettledInstallIsLive, FrozenPlan
  <2>2. CASE InstallFails(h)
    BY <1>3, <2>2 DEF InstallFails, memory, Settled
  <2> QED BY <2>1, <2>2
<1> QED BY <1>1, <1>5, <1>6, <1>7, <1>8, <1>9

\* A removal that goes well leaves no task and no report behind, one that
\* does not is remembered as dirty, and a run under way as a survivor.
LEMMA RemovalStep ==
  ASSUME SInv, NEW h \in Handlers, Remove(h)
  PROVE  SInv'
<1> USE DEF SInv
<1>1. TypeOK'
  BY RemovalTypes
<1>2. UNCHANGED <<now, gen>>
  BY DEF Remove, Unregister, RemoveFiles, RemovalFails, row
<1>3. op[h].kind # "none"
  <2>1. op[h].kind # "none" \/ op[h].step \in {"unregister", "remove"}
    BY DEF Remove, Unregister, RemoveFiles, RemovalFails
  <2> QED BY <2>1 DEF OpFits
<1>4. GenerationsAreChanges'
  BY <1>2 DEF GenerationsAreChanges
<1>5. \A g \in Handlers \ {h} : op[g].kind # "none" => ~op[g].alone
  BY <1>3 DEF Installed
<1>6. op[h].alone => \A g \in Handlers \ {h} : op[g].kind = "none"
  BY <1>3 DEF Installed
<1>7. \A r \in Runs : run[r] \in NightlyRuns
  BY DEF TypeOK
<1>8. CASE Unregister(h)
  <2>1. Advances(h, "remove")
    BY <1>8, GotoAdvances DEF Unregister
  <2>2. UNCHANGED <<exists, dir, wrapper, plan, report, settled>>
    BY <1>8 DEF Unregister, row, files
  <2>3. ~settled
    BY <1>3 DEF Settled
  <2>4. Settled'
    BY <2>2, <2>3 DEF Settled
  <2>5. \A g \in Handlers : OpFits(g)' /\ Installed(g)'
    <3>1. \A g \in Handlers : OpFits(g)'
      BY <1>2, <1>3, <2>1 DEF OpFits, Advances
    <3>2. \A g \in Handlers \ {h} : Installed(g)'
      BY <1>5, <2>1 DEF Installed, Advances
    <3>3. Installed(h)'
      BY <1>6, <2>1 DEF Installed, Advances
    <3> QED BY <3>1, <3>2, <3>3
  <2>6. CASE task' = NoTask /\ run' = [r \in Runs |-> [run[r] EXCEPT !.attached = FALSE]]
             /\ RunsUnderWaySurvive /\ UNCHANGED dirty
    <3>1. task'.limit = "none"
      BY <2>6 DEF NoTask
    <3>2. CleanRows'
      BY <1>2, <2>1, <2>2, <2>6, <3>1 DEF CleanRows, Advances
    <3>3. \A r \in Runs : run'[r].step = run[r].step
      BY <1>7, <2>6 DEF NightlyRuns
    <3>4. ~survivor' => ~survivor /\ \A r \in Runs : run[r].step = "idle"
      BY <2>6 DEF RunsUnderWaySurvive
    <3>5. CleanReports' /\ RunsFit'
      BY <1>2, <2>2, <2>6, <3>3, <3>4 DEF CleanReports, RunsFit
    <3> QED BY <1>1, <1>4, <2>4, <2>5, <3>2, <3>5
  <2>7. CASE dirty' /\ UNCHANGED <<task, run, survivor>>
    <3>1. CleanRows' /\ CleanReports' /\ RunsFit'
      BY <2>7 DEF CleanRows, CleanReports, RunsFit
    <3> QED BY <1>1, <1>4, <2>4, <2>5, <3>1
  <2> QED BY <1>8, <2>6, <2>7 DEF Unregister
<1>9. ASSUME EndRemoval(h) PROVE Settled' /\ \A g \in Handlers : OpFits(g)' /\ Installed(g)'
  <2>1. Ends(h) /\ ~settled'
    BY <1>9, AnswerEnds DEF EndRemoval
  <2>2. Settled'
    BY <2>1 DEF Settled
  <2>3. \A g \in Handlers : OpFits(g)'
    BY <1>2, <2>1 DEF OpFits, Ends
  <2>4. \A g \in Handlers : Installed(g)'
    BY <1>5, <2>1 DEF Installed, Ends
  <2> QED BY <2>2, <2>3, <2>4
<1>10. CASE RemoveFiles(h)
  <2>1. EndRemoval(h) /\ UNCHANGED <<task, run>> /\ op[h].step = "remove"
    BY <1>10 DEF RemoveFiles
  <2>2. Ends(h)
    BY <2>1, AnswerEnds DEF EndRemoval
  <2>3. CASE /\ plan' = NoPlan /\ report' = 0 /\ RunsUnderWaySurvive
             /\ dirty' = (dirty \/ ~op[h].alone)
    <3>1. ~dirty' => ~dirty /\ op[h].alone
      BY <2>3
    <3>2. ~dirty' => task'.limit = "none" /\ \A g \in Handlers : op'[g].kind = "none"
      <4> SUFFICES ASSUME ~dirty' PROVE task'.limit = "none" /\ \A g \in Handlers : op'[g].kind = "none"
        OBVIOUS
      <4>1. task'.limit = "none"
        BY <1>3, <2>1, <3>1 DEF CleanRows
      <4>2. \A g \in Handlers \ {h} : op[g].kind = "none"
        BY <1>6, <3>1
      <4> QED BY <2>2, <4>1, <4>2 DEF Ends
    <3>3. CleanRows'
      BY <2>3, <3>2 DEF CleanRows
    <3>4. ~survivor' => ~survivor /\ \A r \in Runs : run[r].step = "idle"
      BY <2>3 DEF RunsUnderWaySurvive
    <3>5. CleanReports' /\ RunsFit'
      BY <2>1, <2>3, <3>4 DEF CleanReports, RunsFit
    <3> QED BY <1>1, <1>4, <1>9, <2>1, <3>3, <3>5
  <2>4. CASE dirty' /\ UNCHANGED survivor
    <3>1. CleanRows' /\ CleanReports' /\ RunsFit'
      BY <2>1, <2>4 DEF CleanRows, CleanReports, RunsFit
    <3> QED BY <1>1, <1>4, <1>9, <2>1, <3>1
  <2> QED BY <1>10, <2>3, <2>4 DEF RemoveFiles
<1>11. CASE RemovalFails(h)
  <2>1. EndRemoval(h) /\ dirty' /\ UNCHANGED <<run, survivor>>
    BY <1>11 DEF RemovalFails
  <2>2. CleanRows' /\ CleanReports' /\ RunsFit'
    BY <2>1 DEF CleanRows, CleanReports, RunsFit
  <2> QED BY <1>1, <1>4, <1>9, <2>1, <2>2
<1> QED BY <1>8, <1>10, <1>11 DEF Remove

\* What every step of a nightly run leaves alone: the panel and its requests,
\* the task, the wrapper and the plan.  It may make the folder again.
NightFacts ==
  /\ UNCHANGED <<now, gen, exists, op, task, wrapper, plan, settled, dirty, survivor>>
  /\ dir => dir'

LEMMA NightFrame ==
  ASSUME TypeOK, NEW r \in Runs, Nightly(r)
  PROVE  NightFacts
<1> USE DEF Quiet, NightFacts, row, memory, files
<1>1. CASE Fire(r)
  BY <1>1 DEF Fire
<1>2. CASE ReadPlan(r)
  BY <1>2 DEF ReadPlan
<1>3. CASE PlanUnreadable(r)
  BY <1>3 DEF PlanUnreadable, Report
<1>4. CASE WriteReport(r)
  BY <1>4 DEF WriteReport, Report
<1>5. CASE SendMessage(r)
  BY <1>5 DEF SendMessage
<1>6. CASE ScriptDies(r)
  BY <1>6 DEF ScriptDies
<1>7. CASE Watchdog(r)
  BY <1>7 DEF Watchdog
<1>8. CASE TimeLimit(r)
  BY <1>8 DEF TimeLimit
<1> QED BY <1>1, <1>2, <1>3, <1>4, <1>5, <1>6, <1>7, <1>8 DEF Nightly

\* Where no run has survived a removal, a run that takes a step is the only
\* one, and the step leaves the others idle as they were.
LEMMA RunsAlone ==
  ASSUME SInv, NEW r \in Runs, Nightly(r), ~survivor
  PROVE  \A s \in Runs \ {r} : run[s].step = "idle" /\ run'[s] = run[s]
<1> USE DEF SInv
<1>1. \A s \in Runs \ {r} : run[s].step = "idle"
  <2>1. CASE Fire(r)
    BY <2>1 DEF Fire, RunsFit
  <2>2. CASE ~Fire(r)
    <3>1. run[r].step # "idle"
      BY <2>2 DEF Nightly, ReadPlan, PlanUnreadable, WriteReport, SendMessage, ScriptDies,
                  Watchdog, TimeLimit
    <3> QED BY <3>1 DEF RunsFit
  <2> QED BY <2>1, <2>2
<1>r. run \in [Runs -> NightlyRuns]
  BY DEF TypeOK
<1>2. ASSUME NEW x, run' = [run EXCEPT ![r] = x]
      PROVE  \A s \in Runs \ {r} : run'[s] = run[s]
  BY <1>r, <1>2
<1>3. ASSUME NEW step, NEW by, NEW sorry, Report(r, step, by, sorry)
      PROVE  \A s \in Runs \ {r} : run'[s] = run[s]
  BY <1>1, <1>3 DEF Report
<1>4. CASE Fire(r)
  BY <1>1, <1>2, <1>4 DEF Fire
<1>5. CASE ReadPlan(r)
  BY <1>1, <1>2, <1>5 DEF ReadPlan
<1>6. CASE PlanUnreadable(r)
  BY <1>1, <1>3, <1>6 DEF PlanUnreadable
<1>7. CASE WriteReport(r)
  BY <1>1, <1>3, <1>7 DEF WriteReport
<1>8. CASE SendMessage(r)
  BY <1>1, <1>2, <1>8 DEF SendMessage
<1>9. CASE ScriptDies(r)
  BY <1>1, <1>2, <1>9 DEF ScriptDies
<1>10. CASE Watchdog(r)
  BY <1>1, <1>2, <1>10 DEF Watchdog, Over, Excused
<1>11. CASE TimeLimit(r)
  BY <1>1, <1>2, <1>11 DEF TimeLimit
<1> QED BY <1>4, <1>5, <1>6, <1>7, <1>8, <1>9, <1>10, <1>11 DEF Nightly

\* What a run has of its row after a step of it, and the report with it.
OwnRow(r) ==
  /\ report' # 0 => exists /\ report' = gen
  /\ run'[r].step # "idle" =>
       /\ exists /\ run'[r].gen = gen
       /\ run'[r].step = "copy" => run'[r].plan.gen = gen

\* What a run has told by then.
OwnNews(r) ==
  run'[r].step # "idle" =>
    /\ run'[r].attached
    /\ run'[r].fresh => run'[r].excuse \/ run'[r].told \/ run'[r].step = "message"

LEMMA RunMoves ==
  ASSUME SInv, NEW r \in Runs, Nightly(r), ~survivor
  PROVE  OwnNews(r) /\ (~dirty => OwnRow(r))
<1> USE DEF SInv
<1>r. run[r] \in NightlyRuns /\ run \in [Runs -> NightlyRuns]
  BY DEF TypeOK
<1>b. run[r].excuse \in BOOLEAN /\ run[r].told \in BOOLEAN /\ run[r].fresh \in BOOLEAN
      /\ run[r].attached \in BOOLEAN
  BY <1>r DEF NightlyRuns
<1>n. run[r].step # "idle" =>
        /\ run[r].attached
        /\ run[r].fresh => run[r].excuse \/ run[r].told \/ run[r].step = "message"
  BY DEF RunsFit
<1>o. ~dirty => /\ report # 0 => exists /\ report = gen
                /\ run[r].step # "idle" =>
                     /\ exists /\ run[r].gen = gen
                     /\ run[r].step = "copy" => run[r].plan.gen = gen
  BY DEF CleanReports
<1>e. ASSUME run'[r].step = "idle", report' = report PROVE OwnNews(r) /\ (~dirty => OwnRow(r))
  BY <1>o, <1>e DEF OwnNews, OwnRow
<1>1. CASE Fire(r)
  <2>1. /\ run'[r].step = "backup" /\ run'[r].gen = task.gen /\ run'[r].attached
        /\ ~run'[r].fresh /\ report' = report /\ task.limit # "none"
    BY <1>r, <1>1 DEF Fire, NotRunning, files
  <2>2. ~dirty => exists /\ task.gen = gen
    BY <2>1 DEF CleanRows
  <2> QED BY <1>o, <2>1, <2>2 DEF OwnNews, OwnRow
<1>2. CASE ReadPlan(r)
  <2>1. /\ run'[r].step = "copy" /\ run'[r].gen = run[r].gen /\ run'[r].plan = plan
        /\ run'[r].attached = run[r].attached /\ run'[r].fresh = run[r].fresh
        /\ run'[r].told = run[r].told /\ run'[r].excuse = run[r].excuse
        /\ report' = report /\ plan # NoPlan /\ run[r].step = "backup"
    BY <1>r, <1>2 DEF ReadPlan, NightlyRuns, files
  <2>2. ~dirty => plan.gen = gen
    BY <2>1 DEF CleanRows
  <2> QED BY <1>n, <1>o, <2>1, <2>2 DEF OwnNews, OwnRow
<1>3. CASE PlanUnreadable(r)
  <2>1. /\ run'[r].step = "watchdog" /\ run'[r].gen = run[r].gen
        /\ run'[r].attached = run[r].attached /\ run'[r].excuse
        /\ report' = run[r].gen /\ run[r].step = "backup"
    BY <1>r, <1>b, <1>3 DEF PlanUnreadable, Report, NightlyRuns
  <2> QED BY <1>n, <1>o, <2>1 DEF OwnNews, OwnRow
<1>4. CASE WriteReport(r)
  <2>1. /\ run'[r].step = "message" /\ run'[r].gen = run[r].gen
        /\ run'[r].attached = run[r].attached
        /\ report' = run[r].plan.gen /\ run[r].step = "copy"
    BY <1>r, <1>b, <1>4 DEF WriteReport, Report, NightlyRuns
  <2> QED BY <1>n, <1>o, <2>1 DEF OwnNews, OwnRow
<1>5. CASE SendMessage(r)
  <2>1. /\ run'[r].step = "watchdog" /\ run'[r].gen = run[r].gen
        /\ run'[r].attached = run[r].attached /\ run[r].step = "message" /\ report' = report
    <3>1. CASE run' = [run EXCEPT ![r] = [@ EXCEPT !.step = "watchdog", !.told = TRUE]]
      BY <1>r, <1>5, <3>1 DEF SendMessage, NightlyRuns, files
    <3>2. CASE run' = [run EXCEPT ![r] = [@ EXCEPT !.step = "watchdog", !.excuse = TRUE]]
      BY <1>r, <1>5, <3>2 DEF SendMessage, NightlyRuns, files
    <3> QED BY <1>5, <3>1, <3>2 DEF SendMessage
  <2>2. run'[r].told \/ run'[r].excuse
    <3>1. CASE run' = [run EXCEPT ![r] = [@ EXCEPT !.step = "watchdog", !.told = TRUE]]
      BY <1>r, <3>1 DEF NightlyRuns
    <3>2. CASE run' = [run EXCEPT ![r] = [@ EXCEPT !.step = "watchdog", !.excuse = TRUE]]
      BY <1>r, <3>2 DEF NightlyRuns
    <3> QED BY <1>5, <3>1, <3>2 DEF SendMessage
  <2> QED BY <1>n, <1>o, <2>1, <2>2 DEF OwnNews, OwnRow
<1>6. CASE ScriptDies(r)
  <2>1. /\ run'[r].step = "watchdog" /\ run'[r].gen = run[r].gen
        /\ run'[r].attached = run[r].attached /\ run'[r].fresh = run[r].fresh
        /\ run'[r].told = run[r].told /\ report' = report /\ run[r].step # "idle"
    BY <1>r, <1>6 DEF ScriptDies, NightlyRuns, files
  <2>2. run'[r].excuse = (run[r].excuse \/ run[r].step = "message")
    BY <1>r, <1>6 DEF ScriptDies, NightlyRuns
  <2> QED BY <1>n, <1>o, <2>1, <2>2 DEF OwnNews, OwnRow
<1>7. CASE Watchdog(r)
  <2>1. run'[r].step = "idle" /\ report' = report
    BY <1>r, <1>7 DEF Watchdog, Over, Excused, NightlyRuns, files
  <2> QED BY <1>e, <2>1
<1>8. CASE TimeLimit(r)
  <2>1. run'[r].step = "idle" /\ report' = report
    BY <1>r, <1>8 DEF TimeLimit, NightlyRuns, files
  <2> QED BY <1>e, <2>1
<1> QED BY <1>1, <1>2, <1>3, <1>4, <1>5, <1>6, <1>7, <1>8 DEF Nightly

\* A step of a nightly run keeps the invariant.
LEMMA NightlyStep ==
  ASSUME SInv, NEW r \in Runs, Nightly(r)
  PROVE  SInv'
<1>1. TypeOK'
  BY NightlyTypes DEF SInv
<1>2. NightFacts
  BY NightFrame DEF SInv
<1> USE DEF SInv, NightFacts
<1>3. GenerationsAreChanges' /\ CleanRows'
  BY <1>2 DEF GenerationsAreChanges, CleanRows
<1>4. \A h \in Handlers : OpFits(h)' /\ Installed(h)'
  BY <1>2 DEF OpFits, Installed
<1>5. Settled'
  BY <1>2 DEF Settled, SettledInstallIsLive, FrozenPlan
<1>6. ~survivor => OwnNews(r) /\ (~dirty => OwnRow(r))
  BY RunMoves
<1>7. ~survivor => \A s \in Runs \ {r} : run[s].step = "idle" /\ run'[s].step = "idle"
  BY RunsAlone
<1>8. CleanReports'
  BY <1>2, <1>6, <1>7 DEF CleanReports, OwnRow
<1>9. RunsFit'
  BY <1>2, <1>6, <1>7 DEF RunsFit, OwnNews
<1> QED BY <1>1, <1>3, <1>4, <1>5, <1>8, <1>9

LEMMA InitInv == Init => SInv
<1> SUFFICES ASSUME Init PROVE SInv
  OBVIOUS
<1> USE Numbers DEF Init
<1>1. TypeOK
  <2>1. op \in [Handlers -> Requests] /\ run \in [Runs -> NightlyRuns] /\ task \in Tasks /\ plan \in Plans
    BY NothingTypes
  <2>2. /\ exists \in BOOLEAN /\ stored \in BOOLEAN /\ comma \in BOOLEAN
        /\ dir \in BOOLEAN /\ wrapper \in BOOLEAN
        /\ settled \in BOOLEAN /\ dirty \in BOOLEAN /\ survivor \in BOOLEAN
    BY Zenon
  <2> QED BY <2>1, <2>2 DEF TypeOK
<1>2. GenerationsAreChanges /\ Settled
  BY DEF GenerationsAreChanges, Settled
<1>3. \A h \in Handlers : op[h].kind = "none" /\ op[h].step = "none"
  BY DEF Idle
<1>4. \A h \in Handlers : OpFits(h) /\ Installed(h)
  BY <1>3 DEF OpFits, Installed
<1>5. \A r \in Runs : run[r].step = "idle"
  BY DEF NotRunning
<1>6. CleanRows /\ CleanReports /\ RunsFit
  BY <1>3, <1>5 DEF CleanRows, CleanReports, RunsFit, NoTask
<1> QED BY <1>1, <1>2, <1>4, <1>6 DEF SInv

LEMMA StepInv ==
  ASSUME SInv, [Next]_vars
  PROVE  SInv'
<1>1. CASE CreateConfig \/ EditConfig \/ EditOrDeleteStorage
  BY <1>1, ChangeStep
<1>2. ASSUME NEW h \in Handlers, BeginRequest(h) PROVE SInv'
  BY <1>2, BeginStep
<1>3. ASSUME NEW h \in Handlers, Install(h) PROVE SInv'
  BY <1>3, InstallGoesOn, InstallEnds DEF Install
<1>4. ASSUME NEW h \in Handlers, Remove(h) PROVE SInv'
  BY <1>4, RemovalStep
<1>5. ASSUME NEW r \in Runs, Nightly(r) PROVE SInv'
  BY <1>5, NightlyStep
<1>6. CASE UNCHANGED vars
  <2> USE <1>6 DEF vars, SInv
  <2>1. TypeOK'
    BY DEF TypeOK
  <2>2. GenerationsAreChanges' /\ Settled'
    BY DEF GenerationsAreChanges, Settled, SettledInstallIsLive, FrozenPlan
  <2>3. \A h \in Handlers : OpFits(h)' /\ Installed(h)'
    BY DEF OpFits, Installed
  <2>4. CleanRows' /\ CleanReports' /\ RunsFit'
    BY DEF CleanRows, CleanReports, RunsFit
  <2> QED BY <2>1, <2>2, <2>3, <2>4
<1> QED BY <1>1, <1>2, <1>3, <1>4, <1>5, <1>6 DEF Next

-----------------------------------------------------------------------------
\* The inductive invariant holds of every reachable state: what is on the
\* server is explained by the requests and the runs that put it there.
THEOREM ScheduleInvariant == Spec => []SInv
BY InitInv, StepInv, PTL DEF Spec

\* Rows, requests, task, plan, report and runs always have their types.
THEOREM ScheduleTypes == Spec => []TypeOK
<1>1. SInv => TypeOK
  BY DEF SInv
<1> QED BY <1>1, ScheduleInvariant, PTL

\* install_schedule's ok is true of the server until something is changed or
\* begun: task, limit, wrapper and plan are all there, and of these rows.
THEOREM SettledIsLive == Spec => []SettledInstallIsLive
<1>1. SInv => SettledInstallIsLive
  BY DEF SInv, Settled, SettledInstallIsLive
<1> QED BY <1>1, ScheduleInvariant, PTL

\* remove_schedule leaves a task for a row that is gone only where a removal
\* failed unseen or ran beside another request.
THEOREM NoUnexplainedOrphan == Spec => []OrphanTaskExplained
<1>1. SInv => OrphanTaskExplained
  BY DEF SInv, CleanRows, OrphanTaskExplained
<1> QED BY <1>1, ScheduleInvariant, PTL

\* The report found under a reused id is the new row's own, but for removals
\* that failed, met another request or passed by a run under way.
THEOREM NoUnexplainedReport == Spec => []ForeignReportExplained
<1>1. SInv => ForeignReportExplained
  BY DEF SInv, CleanReports, ForeignReportExplained
<1> QED BY <1>1, ScheduleInvariant, PTL

\* Only a run itself ends: its watchdog line is over, or its time limit is.
LEMMA WhoEnds ==
  ASSUME TypeOK, [Next]_vars, NEW r \in Runs, run[r].step # "idle", run'[r].step = "idle"
  PROVE  Watchdog(r) \/ TimeLimit(r)
<1>r. run \in [Runs -> NightlyRuns] /\ \A s \in Runs : run[s] \in NightlyRuns
  BY DEF TypeOK
<1>1. run' # run
  OBVIOUS
<1>2. ASSUME NEW h \in Handlers, BeginRequest(h) \/ Install(h) \/ Remove(h) PROVE FALSE
  <2>1. Unregister(h)
    BY <1>1, <1>2 DEF BeginRequest, Install, Connect, PutPlan, PutWrapper, CreateTask, ClampTask,
              ValidateTask, InstallFails, Remove, RemoveFiles, RemovalFails
  <2>2. run' = [s \in Runs |-> [run[s] EXCEPT !.attached = FALSE]]
    BY <1>1, <2>1 DEF Unregister
  <2> QED BY <1>r, <2>2 DEF NightlyRuns
<1>3. PICK s \in Runs : Nightly(s)
  BY <1>1, <1>2 DEF Next, CreateConfig, EditConfig, EditOrDeleteStorage, Changed, vars
<1>4. ASSUME NEW step \in {"watchdog", "message"}, NEW by, NEW sorry, Report(s, step, by, sorry)
      PROVE  FALSE
  <2>1. CASE r = s
    BY <1>r, <1>4, <2>1 DEF Report, NightlyRuns
  <2>2. CASE r # s
    BY <1>r, <1>4, <2>2 DEF Report, NightlyRuns
  <2> QED BY <2>1, <2>2
<1>5. ASSUME NEW x, run' = [run EXCEPT ![s] = x] PROVE r = s /\ x.step = "idle"
  BY <1>r, <1>5
<1>6. ~Fire(s)
  BY <1>5 DEF Fire, NotRunning
<1>7. ~ReadPlan(s)
  <2>1. [run[s] EXCEPT !.step = "copy", !.plan = plan].step = "copy"
    BY <1>r DEF NightlyRuns
  <2> QED BY <1>5, <2>1 DEF ReadPlan
<1>8. ~PlanUnreadable(s) /\ ~WriteReport(s)
  BY <1>4 DEF PlanUnreadable, WriteReport
<1>9. ~SendMessage(s)
  <2>1. [run[s] EXCEPT !.step = "watchdog", !.told = TRUE].step = "watchdog"
        /\ [run[s] EXCEPT !.step = "watchdog", !.excuse = TRUE].step = "watchdog"
    BY <1>r DEF NightlyRuns
  <2> QED BY <1>5, <2>1 DEF SendMessage
<1>10. ~ScriptDies(s)
  <2>1. [run[s] EXCEPT !.step = "watchdog",
                       !.excuse = run[s].excuse \/ run[s].step = "message"].step = "watchdog"
    BY <1>r DEF NightlyRuns
  <2> QED BY <1>5, <2>1 DEF ScriptDies
<1>11. r = s
  BY <1>3, <1>5, <1>6, <1>7, <1>8, <1>9, <1>10 DEF Nightly, Watchdog, TimeLimit, Over, Excused
<1> QED BY <1>3, <1>6, <1>7, <1>8, <1>9, <1>10, <1>11 DEF Nightly

\* A nightly run that ends and has told nobody has one of the named causes:
\* the watchdog takes only a run's own report for its news, unless a run
\* survived a removal.
THEOREM SilenceHasACause == Spec => SilenceExplained
<1>1. ASSUME SInv, [Next]_vars, NEW r \in Runs,
             run[r].step # "idle", run'[r].step = "idle", ~run'[r].killed, ~run'[r].told
      PROVE  run'[r].excuse \/ ~wrapper \/ plan = NoPlan \/ comma \/ survivor
  <2>2. run[r] \in NightlyRuns /\ run \in [Runs -> NightlyRuns]
    BY <1>1 DEF SInv, TypeOK
  <2>1. Watchdog(r)
    <3>1. [run[r] EXCEPT !.step = "idle", !.killed = TRUE].killed
      BY <2>2 DEF NightlyRuns
    <3>2. ASSUME TimeLimit(r) PROVE FALSE
      <4>1. run'[r] = [run[r] EXCEPT !.step = "idle", !.killed = TRUE]
        BY <2>2, <3>2 DEF TimeLimit
      <4> QED BY <1>1, <3>1, <4>1
    <3> QED BY <1>1, <3>2, WhoEnds DEF SInv
  <2>3. CASE Excused(r)
    BY <2>2, <2>3 DEF Excused, NightlyRuns
  <2>4. CASE Over(r, TRUE)
    <3>1. run'[r].told
      BY <2>2, <2>4 DEF Over, NightlyRuns
    <3> QED BY <1>1, <3>1
  <2>5. CASE Over(r, run[r].told) /\ run[r].step = "watchdog"
             /\ (~wrapper \/ comma \/ FreshReport(r) \/ plan = NoPlan)
    <3>1. run'[r].told = run[r].told /\ run'[r].excuse = run[r].excuse
      BY <2>2, <2>5 DEF Over, NightlyRuns
    <3>2. (~survivor /\ run[r].fresh) => run[r].excuse \/ run[r].told
      BY <1>1, <2>5 DEF SInv, RunsFit
    <3> QED BY <1>1, <2>5, <3>1, <3>2 DEF FreshReport
  <2> QED BY <2>1, <2>3, <2>4, <2>5 DEF Watchdog
<1>2. (SInv /\ [Next]_vars) =>
        \A r \in Runs :
          (run[r].step # "idle" /\ run'[r].step = "idle" /\ ~run'[r].killed) =>
            \/ run'[r].told
            \/ run'[r].excuse \/ ~wrapper \/ plan = NoPlan \/ comma \/ survivor
  BY <1>1
<1> QED BY <1>2, ScheduleInvariant, PTL DEF Spec, SilenceExplained
=============================================================================
