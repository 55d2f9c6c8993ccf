------------------------ MODULE ScheduledSyncProofs ------------------------
(***************************************************************************)
(* Theorems about ScheduledSync, for any servers, configs, clicks and      *)
(* numbers of runs, manual rows and faults.                                *)
(***************************************************************************)
EXTENDS ScheduledSync, FiniteSetTheorems, SequenceTheorems, TLAPS

\* A config's rows follow its runs; a further row of a run would; no row is of
\* a later run.
Ordered(q) ==
  \A i, j \in DOMAIN q : i < j /\ q[i] # 0 /\ q[j] # 0 =>
    q[i] < q[j] \/ (q[i] = q[j] /\ \E k \in i..j : q[k] = 0)

Follows(q, run) ==
  \A i \in DOMAIN q : q[i] # 0 => q[i] < run \/ (q[i] = run /\ \E k \in i..Len(q) : q[k] = 0)

UpTo(q, run) == \A i \in DOMAIN q : q[i] <= run

\* What a syncer walks and judges is on the server it is on.
Walks(s) ==
  /\ state[s] \in {"walking", "judging"} => todo[s] \subseteq ConfigsOn(server[s])
  /\ state[s] = "judging" =>
       held[s].config \in ConfigsOn(server[s]) /\ held[s].report.run > 0

\* One session at a time works on a server that is not raced.
Apart ==
  \A v \in Servers \ raced : \A s, t \in Syncers : Engaged(s, v) /\ Engaged(t, v) => s = t

\* Nothing is known of a run that is yet to come.
Past ==
  \A c \in Configs :
    /\ UpTo(history[c], last[c].run)
    /\ \A s \in Syncers :
         /\ \A r \in pending[s] : r.config = c => r.run <= last[c].run
         /\ state[s] = "judging" /\ held[s].config = c => held[s].report.run <= last[c].run

\* As long as no sessions met: a row that is not committed yet will follow
\* those that are, and a report about to be judged is none of the older ones.
PendingFits(s) ==
  \A r \in pending[s] : ServerOf[r.config] \notin raced => Follows(history[r.config], r.run)

HeldFits(s) ==
  state[s] = "judging" /\ server[s] \notin raced =>
    UpTo(history[held[s].config], held[s].report.run)

SInv ==
  /\ TypeOK
  /\ \A s \in Syncers : Walks(s) /\ PendingFits(s) /\ HeldFits(s)
  /\ Apart /\ Past
  /\ HistoryFollowsRuns

-----------------------------------------------------------------------------
\* Rows of manual runs and of scheduled ones are appended.
LEMMA Appended ==
  ASSUME NEW q \in Seq(Nat), NEW x \in Nat
  PROVE  /\ Append(q, x) \in Seq(Nat)
         /\ DOMAIN q = 1..Len(q) /\ Len(q) \in Nat
         /\ DOMAIN Append(q, x) = 1..(Len(q) + 1)
         /\ Len(Append(q, x)) = Len(q) + 1
         /\ \A i \in 1..Len(q) : Append(q, x)[i] = q[i] /\ q[i] \in Nat
         /\ Append(q, x)[Len(q) + 1] = x
OBVIOUS

LEMMA ManualRowKeeps ==
  ASSUME NEW q \in Seq(Nat), NEW run \in Nat
  PROVE  /\ Ordered(q) => Ordered(Append(q, 0))
         /\ Follows(q, run) => Follows(Append(q, 0), run)
         /\ UpTo(q, run) => UpTo(Append(q, 0), run)
<1> DEFINE p == Append(q, 0)
<1>1. /\ DOMAIN q = 1..Len(q) /\ Len(q) \in Nat
      /\ DOMAIN p = 1..(Len(q) + 1) /\ Len(p) = Len(q) + 1
      /\ \A i \in 1..Len(q) : p[i] = q[i] /\ q[i] \in Nat
      /\ p[Len(q) + 1] = 0
  BY Appended
<1> HIDE DEF p
<1>2. ASSUME NEW i \in DOMAIN p, p[i] # 0 PROVE i \in DOMAIN q /\ p[i] = q[i]
  BY <1>1, <1>2
<1>3. ASSUME Ordered(q) PROVE Ordered(p)
  <2> SUFFICES ASSUME NEW i \in DOMAIN p, NEW j \in DOMAIN p, i < j, p[i] # 0, p[j] # 0
               PROVE  p[i] < p[j] \/ (p[i] = p[j] /\ \E k \in i..j : p[k] = 0)
    BY DEF Ordered
  <2>1. /\ i \in DOMAIN q /\ j \in DOMAIN q /\ p[i] = q[i] /\ p[j] = q[j]
        /\ q[i] < q[j] \/ (q[i] = q[j] /\ \E k \in i..j : q[k] = 0)
    BY <1>2, <1>3 DEF Ordered
  <2>2. \A k \in i..j : p[k] = q[k]
    BY <1>1, <2>1
  <2> QED BY <2>1, <2>2
<1>4. ASSUME Follows(q, run) PROVE Follows(p, run)
  <2> SUFFICES ASSUME NEW i \in DOMAIN p, p[i] # 0
               PROVE  p[i] < run \/ (p[i] = run /\ \E k \in i..Len(p) : p[k] = 0)
    BY DEF Follows
  <2>1. /\ i \in DOMAIN q /\ p[i] = q[i]
        /\ q[i] < run \/ q[i] = run
    BY <1>2, <1>4 DEF Follows
  <2>2. Len(p) \in i..Len(p) /\ p[Len(p)] = 0
    BY <1>1, <2>1
  <2> QED BY <2>1, <2>2
<1>5. ASSUME UpTo(q, run) PROVE UpTo(p, run)
  BY <1>1, <1>5 DEF UpTo
<1> QED BY <1>3, <1>4, <1>5 DEF p

LEMMA RunRowKeeps ==
  ASSUME NEW q \in Seq(Nat), NEW run \in Nat, NEW bound \in Nat
  PROVE  /\ Ordered(q) /\ Follows(q, run) => Ordered(Append(q, run))
         /\ UpTo(q, bound) /\ run <= bound => UpTo(Append(q, run), bound)
<1> DEFINE p == Append(q, run)
<1>1. /\ DOMAIN q = 1..Len(q) /\ Len(q) \in Nat
      /\ DOMAIN p = 1..(Len(q) + 1) /\ Len(p) = Len(q) + 1
      /\ \A i \in 1..Len(q) : p[i] = q[i] /\ q[i] \in Nat
      /\ p[Len(q) + 1] = run
  BY Appended
<1> HIDE DEF p
<1>2. ASSUME Ordered(q), Follows(q, run) PROVE Ordered(p)
  <2> SUFFICES ASSUME NEW i \in DOMAIN p, NEW j \in DOMAIN p, i < j, p[i] # 0, p[j] # 0
               PROVE  p[i] < p[j] \/ (p[i] = p[j] /\ \E k \in i..j : p[k] = 0)
    BY DEF Ordered
  <2>1. i \in DOMAIN q /\ p[i] = q[i]
    BY <1>1
  <2>2. CASE j \in DOMAIN q
    <3>1. q[i] < q[j] \/ (q[i] = q[j] /\ \E k \in i..j : q[k] = 0)
      BY <1>1, <1>2, <2>1, <2>2 DEF Ordered
    <3>2. \A k \in i..j : p[k] = q[k]
      BY <1>1, <2>1, <2>2
    <3> QED BY <1>1, <2>1, <2>2, <3>1, <3>2
  <2>3. CASE j = Len(q) + 1
    <3>1. q[i] < run \/ (q[i] = run /\ \E k \in i..Len(q) : q[k] = 0)
      BY <1>2, <2>1 DEF Follows
    <3>2. \A k \in i..Len(q) : k \in i..j /\ p[k] = q[k]
      BY <1>1, <2>1, <2>3
    <3> QED BY <1>1, <2>1, <2>3, <3>1, <3>2
  <2> QED BY <1>1, <2>2, <2>3
<1>3. ASSUME UpTo(q, bound), run <= bound PROVE UpTo(p, bound)
  BY <1>1, <1>3 DEF UpTo
<1> QED BY <1>2, <1>3 DEF p

\* The comparison with the latest row is enough: the report of a run that is
\* no older than any row, and not that of the latest, has no row or one that a
\* manual run has hidden.
LEMMA UnknownFollows ==
  ASSUME NEW q \in Seq(Nat), NEW run \in Nat, Ordered(q), UpTo(q, run), run > 0,
         ~(q # <<>> /\ q[Len(q)] = run)
  PROVE  Follows(q, run)
<1>1. DOMAIN q = 1..Len(q) /\ Len(q) \in Nat /\ \A i \in DOMAIN q : q[i] \in Nat
  OBVIOUS
<1> SUFFICES ASSUME NEW i \in DOMAIN q, q[i] # 0
             PROVE  q[i] < run \/ (q[i] = run /\ \E k \in i..Len(q) : q[k] = 0)
  BY DEF Follows
<1>2. q[i] <= run
  BY DEF UpTo
<1>3. CASE q[i] = run
  <2>1. Len(q) \in DOMAIN q /\ q[Len(q)] # run /\ q[Len(q)] <= run /\ i < Len(q)
    <3>1. Len(q) \in DOMAIN q /\ q # <<>>
      BY <1>1
    <3> QED BY <1>1, <1>3, <3>1 DEF UpTo
  <2>2. q[Len(q)] = 0
    BY <1>1, <1>3, <2>1 DEF Ordered
  <2> QED BY <1>1, <1>3, <2>1, <2>2
<1>4. CASE q[i] # run
  <2>1. q[i] \in Nat
    BY <1>1
  <2>2. q[i] < run
    BY <1>2, <1>4, <2>1
  <2> QED BY <2>2
<1> QED BY <1>3, <1>4

-----------------------------------------------------------------------------
\* What a step does.  Rows are appended, one of a committing session or one of
\* a manual run.
HistoryStep(c) ==
  \/ history'[c] = history[c]
  \/ history'[c] = Append(history[c], 0)
  \/ \E s \in Syncers : \E r \in pending[s] :
       /\ r.config = c /\ history'[c] = Append(history[c], r.run)
       /\ pending'[s] = {} /\ state'[s] # "judging"

\* A syncer goes on judging the report it holds, or has just fetched one.
JudgeStep(s) ==
  state'[s] = "judging" =>
    \/ state[s] = "judging" /\ held'[s] = held[s] /\ server'[s] = server[s]
    \/ /\ state[s] = "walking" /\ server'[s] = server[s]
       /\ history' = history /\ last' = last
       /\ \E c \in todo[s] : last[c].run > 0 /\ held'[s] = [config |-> c, report |-> last[c]]

\* It adds at most the row of a report it has judged to be new.
PendingStep(s) ==
  \A r \in pending'[s] :
    \/ r \in pending[s]
    \/ /\ state[s] = "judging" /\ history' = history /\ last' = last
       /\ r = [config |-> held[s].config, run |-> held[s].report.run]
       /\ ~Known(r.config, r.run)

TodoStep(s) ==
  state'[s] \in {"walking", "judging"} => todo'[s] \subseteq ConfigsOn(server'[s])

\* It begins with a server at one step only, which notes who is there already.
EngagedStep(s) ==
  \A v \in Servers : Engaged(s, v)' =>
    Engaged(s, v) \/ \A t \in Syncers \ {s} : Engaged(t, v)' => v \in raced'

Advance ==
  /\ \A c \in Configs : last[c].run <= last'[c].run
  /\ raced \subseteq raced'
  /\ \A c \in Configs : HistoryStep(c)
  /\ \A s \in Syncers : JudgeStep(s) /\ PendingStep(s) /\ TodoStep(s) /\ EngagedStep(s)

Same(s) ==
  /\ state'[s] = state[s] /\ server'[s] = server[s] /\ todo'[s] = todo[s]
  /\ held'[s] = held[s] /\ pending'[s] = pending[s]

Working == {"connecting", "walking", "judging", "closing"}

LEMMA SameSteps ==
  ASSUME NEW s \in Syncers, Walks(s), Same(s)
  PROVE  /\ JudgeStep(s) /\ PendingStep(s) /\ TodoStep(s) /\ EngagedStep(s)
         /\ \A v \in Servers : Engaged(s, v)' = Engaged(s, v)
<1>1. JudgeStep(s) /\ PendingStep(s) /\ TodoStep(s)
  BY DEF Walks, Same, JudgeStep, PendingStep, TodoStep
<1>2. \A v \in Servers : Engaged(s, v)' = Engaged(s, v)
  BY DEF Same, Engaged
<1> QED BY <1>1, <1>2 DEF EngagedStep

\* A step of one syncer that does not begin with a server.
LEMMA OwnAdvances ==
  ASSUME TypeOK, \A t \in Syncers : Walks(t), NEW s \in Syncers,
         \A t \in Syncers \ {s} : Same(t),
         last' = last, raced' = raced, \A c \in Configs : HistoryStep(c),
         state'[s] \in Working => state[s] \in Working /\ server'[s] = server[s],
         JudgeStep(s), PendingStep(s), TodoStep(s)
  PROVE  Advance
<1>1. \A c \in Configs : last[c].run <= last'[c].run
  BY DEF TypeOK, Reports
<1>2. \A t \in Syncers \ {s} : JudgeStep(t) /\ PendingStep(t) /\ TodoStep(t) /\ EngagedStep(t)
  BY SameSteps
<1>3. EngagedStep(s)
  <2> SUFFICES ASSUME NEW v \in Servers, Engaged(s, v)' PROVE Engaged(s, v)
    BY DEF EngagedStep
  <2>1. CASE state'[s] \in Working /\ server'[s] = v
    BY <2>1 DEF Engaged, Working
  <2>2. CASE \E r \in pending'[s] : ServerOf[r.config] = v
    <3>1. PICK r \in pending'[s] : ServerOf[r.config] = v
      BY <2>2
    <3>2. CASE r \in pending[s]
      BY <3>1, <3>2 DEF Engaged
    <3>3. CASE state[s] = "judging" /\ r = [config |-> held[s].config, run |-> held[s].report.run]
      <4>1. ServerOf[held[s].config] = server[s]
        BY <3>3 DEF Walks, ConfigsOn
      <4> QED BY <3>1, <3>3, <4>1 DEF Engaged
    <3> QED BY <3>1, <3>2, <3>3 DEF PendingStep
  <2> QED BY <2>1, <2>2 DEF Engaged, Working
<1> QED BY <1>1, <1>2, <1>3 DEF Advance

LEMMA NoRowStep ==
  ASSUME history' = history, NEW c \in Configs
  PROVE  HistoryStep(c)
BY DEF HistoryStep

\* A commit adds at most one row to each config, one that was pending.
LEMMA CommitSteps ==
  ASSUME TypeOK, NEW s \in Syncers, Commit(s), state'[s] # "judging"
  PROVE  /\ \A c \in Configs : HistoryStep(c)
         /\ pending'[s] = {} /\ \A t \in Syncers \ {s} : pending'[t] = pending[t]
         /\ history' \in [Configs -> Seq(0..MaxRuns)]
         /\ pending' \in [Syncers -> SUBSET Row]
         /\ lock' \in Syncers \union {"nobody"}
<1>1. pending' = [pending EXCEPT ![s] = {}] /\ lock' = "nobody"
      /\ history' = [c \in Configs |-> HistoryWith(pending[s], c)]
  BY DEF Commit
<1>2. pending'[s] = {} /\ \A t \in Syncers \ {s} : pending'[t] = pending[t]
  BY <1>1 DEF TypeOK
<1>3. ASSUME NEW c \in Configs
      PROVE  HistoryStep(c) /\ HistoryWith(pending[s], c) \in Seq(0..MaxRuns)
  <2>1. history[c] \in Seq(0..MaxRuns) /\ pending[s] \subseteq Row
    BY DEF TypeOK
  <2>2. history'[c] = HistoryWith(pending[s], c)
    BY <1>1
  <2>3. CASE \E r \in pending[s] : r.config = c
    <3>1. PICK r \in pending[s] : r.config = c /\ r = CHOOSE x \in pending[s] : x.config = c
      BY <2>3
    <3>2. HistoryWith(pending[s], c) = history[c] \o <<r.run>>
      BY <2>3, <3>1 DEF HistoryWith
    <3>3. r.run \in 0..MaxRuns
      BY <2>1, SyncBoundsAssumption DEF Row
    <3>4. history[c] \o <<r.run>> = Append(history[c], r.run)
          /\ Append(history[c], r.run) \in Seq(0..MaxRuns)
      BY <2>1, <3>3
    <3> QED BY <1>2, <2>2, <3>1, <3>2, <3>4 DEF HistoryStep
  <2>4. CASE ~\E r \in pending[s] : r.config = c
    <3>1. HistoryWith(pending[s], c) = history[c] \o <<>>
      BY <2>4 DEF HistoryWith
    <3>2. history[c] \o <<>> = history[c]
      BY <2>1
    <3> QED BY <2>1, <2>2, <3>1, <3>2 DEF HistoryStep
  <2> QED BY <2>3, <2>4
<1>4. history' \in [Configs -> Seq(0..MaxRuns)]
  BY <1>1, <1>3
<1>5. pending' \in [Syncers -> SUBSET Row]
  BY <1>1 DEF TypeOK
<1> QED BY <1>1, <1>2, <1>3, <1>4, <1>5

LEMMA RollbackSteps ==
  ASSUME TypeOK, NEW s \in Syncers, Rollback(s)
  PROVE  /\ history' = history
         /\ pending'[s] = {} /\ \A t \in Syncers \ {s} : pending'[t] = pending[t]
         /\ pending' \in [Syncers -> SUBSET Row]
         /\ lock' \in Syncers \union {"nobody"}
BY DEF Rollback, TypeOK

\* Where a syncer that leaves a server is.
LEMMA NothingHeld ==
  /\ Configs # {} /\ Servers # {}
  /\ NextOf(Servers) \in Servers
  /\ NoHold \in [config : Configs, report : Reports]
<1>1. PICK c : c \in Configs
  BY ServerAssumption
<1>2. ServerOf[c] \in Servers
  BY <1>1, ServerAssumption
<1>3. NextOf(Servers) \in Servers /\ NextOf(Configs) \in Configs
  BY <1>1, <1>2 DEF NextOf
<1>4. [run |-> 0, kind |-> "good"] \in Reports
  BY SyncBoundsAssumption DEF Reports, Kinds
<1> QED BY <1>1, <1>2, <1>3, <1>4 DEF NoHold

-----------------------------------------------------------------------------
\* The steps of a syncer, one by one.
Fit == TypeOK /\ \A t \in Syncers : Walks(t)

Places == {"idle", "connecting", "walking", "judging", "closing", "spent"}

LEMMA ListConfigsAdvances ==
  ASSUME Fit, NEW s \in Syncers, ListConfigs(s)
  PROVE  Advance /\ TypeOK'
<1> USE DEF Fit
<1>1. /\ state[s] = "connecting" /\ state' = [state EXCEPT ![s] = "walking"]
      /\ todo' = [todo EXCEPT ![s] = ConfigsOn(server[s])]
      /\ created' = [created EXCEPT ![s] = FALSE]
      /\ UNCHANGED <<last, server, held, left, raced, faults, hung>>
  BY DEF ListConfigs
<1>2. state'[s] = "walking"
  BY <1>1 DEF TypeOK
<1>3. /\ \A c \in Configs : HistoryStep(c)
      /\ pending'[s] \subseteq pending[s] /\ \A t \in Syncers \ {s} : pending'[t] = pending[t]
      /\ history' \in [Configs -> Seq(0..MaxRuns)]
      /\ pending' \in [Syncers -> SUBSET Row]
      /\ lock' \in Syncers \union {"nobody"}
  <2>1. CASE Commit(s)
    BY <1>2, <2>1, CommitSteps
  <2>2. CASE UNCHANGED <<history, pending, lock>>
    BY <2>2, NoRowStep DEF TypeOK
  <2> QED BY <2>1, <2>2 DEF ListConfigs
<1>4. \A t \in Syncers \ {s} : Same(t)
  BY <1>1, <1>3 DEF Same, TypeOK
<1>5. todo'[s] = ConfigsOn(server'[s])
  BY <1>1 DEF TypeOK
<1>6. JudgeStep(s) /\ TodoStep(s)
  BY <1>2, <1>5 DEF JudgeStep, TodoStep
<1>7. PendingStep(s)
  BY <1>3 DEF PendingStep
<1>8. Advance
  BY <1>1, <1>3, <1>4, <1>6, <1>7, OwnAdvances DEF Working
<1>9. TypeOK'
  BY <1>1, <1>3 DEF TypeOK, ConfigsOn
<1> QED BY <1>8, <1>9

LEMMA WalkAdvances ==
  ASSUME Fit, NEW s \in Syncers, NEW c \in todo[s], PassOver(s, c) \/ Fetch(s, c)
  PROVE  Advance /\ TypeOK'
<1> USE DEF Fit
<1>1. /\ state[s] = "walking" /\ todo' = [todo EXCEPT ![s] = @ \ {c}]
      /\ UNCHANGED <<last, history, server, pending, created, left, lock, raced, hung>>
  BY DEF PassOver, Fetch
<1>2. c \in Configs
  BY DEF TypeOK
<1>3. todo'[s] = todo[s] \ {c} /\ todo' \in [Syncers -> SUBSET Configs]
      /\ \A t \in Syncers \ {s} : todo'[t] = todo[t]
  BY <1>1 DEF TypeOK
<1>4. TodoStep(s) /\ PendingStep(s)
  BY <1>1, <1>3 DEF TodoStep, PendingStep, Walks
<1>5. \A d \in Configs : HistoryStep(d)
  BY <1>1, NoRowStep
<1>6. CASE PassOver(s, c)
  <2>1. state' = state /\ held' = held /\ faults' \in 0..MaxFaults
    BY <1>6, SyncBoundsAssumption DEF PassOver, TypeOK
  <2>2. JudgeStep(s)
    BY <1>1, <2>1 DEF JudgeStep
  <2>3. \A t \in Syncers \ {s} : Same(t)
    BY <1>1, <1>3, <2>1 DEF Same
  <2>4. Advance
    BY <1>1, <1>4, <1>5, <2>1, <2>2, <2>3, OwnAdvances DEF Working
  <2>5. TypeOK'
    BY <1>1, <1>3, <2>1 DEF TypeOK
  <2> QED BY <2>4, <2>5
<1>7. CASE Fetch(s, c)
  <2>1. /\ last[c].run > 0 /\ faults' = faults
        /\ held' = [held EXCEPT ![s] = [config |-> c, report |-> last[c]]]
        /\ state' = [state EXCEPT ![s] = "judging"]
    BY <1>7 DEF Fetch
  <2>2. [config |-> c, report |-> last[c]] \in [config : Configs, report : Reports]
    BY <1>2 DEF TypeOK
  <2>3. held'[s] = [config |-> c, report |-> last[c]]
    BY <2>1 DEF TypeOK
  <2>4. JudgeStep(s)
    BY <1>1, <2>1, <2>3 DEF JudgeStep
  <2>5. \A t \in Syncers \ {s} : Same(t)
    BY <1>1, <1>3, <2>1 DEF Same, TypeOK
  <2>6. Advance
    BY <1>1, <1>4, <1>5, <2>1, <2>4, <2>5, OwnAdvances DEF Working
  <2>7. TypeOK'
    BY <1>1, <1>3, <2>1, <2>2 DEF TypeOK
  <2> QED BY <2>6, <2>7
<1> QED BY <1>6, <1>7

\* How the sync of a server goes on or ends.
LEMMA CreatedTypes ==
  ASSUME TypeOK, NEW s \in Syncers, NEW b \in BOOLEAN
  PROVE  [created EXCEPT ![s] = @ \/ b] \in [Syncers -> BOOLEAN]
<1>1. created \in [Syncers -> BOOLEAN]
  BY DEF TypeOK
<1>2. (created[s] \/ b) \in BOOLEAN
  OBVIOUS
<1> QED BY <1>1, <1>2

LEMMA JudgeAdvances ==
  ASSUME Fit, NEW s \in Syncers, Judge(s)
  PROVE  Advance /\ TypeOK'
<1> USE DEF Fit
<1> DEFINE c == held[s].config
           run == held[s].report.run
           row == [config |-> c, run |-> run]
<1>1. /\ state[s] = "judging"
      /\ lock' = IF pending[s] # {} THEN s ELSE lock
      /\ held' = [held EXCEPT ![s] = NoHold]
      /\ UNCHANGED <<last, history, server, left, raced, faults, hung>>
      /\ \/ Continue(s, FALSE) /\ UNCHANGED pending
         \/ Close(s) /\ UNCHANGED pending
         \/ /\ ~Known(c, run) /\ Continue(s, TRUE)
            /\ pending' = [pending EXCEPT ![s] = @ \union {row}]
  BY DEF Judge
<1>2. c \in Configs /\ run \in 1..MaxRuns
  <2>1. held[s] \in [config : Configs, report : Reports]
    BY DEF TypeOK
  <2> QED BY <1>1, <2>1 DEF Walks, Reports
<1>3. row \in Row /\ row.config = c /\ row.run = run
  BY <1>2 DEF Row
<1>4. /\ \A r \in pending'[s] : r \in pending[s] \/ (r = row /\ ~Known(c, run))
      /\ \A t \in Syncers \ {s} : pending'[t] = pending[t]
      /\ pending' \in [Syncers -> SUBSET Row]
  <2>1. CASE UNCHANGED pending
    BY <2>1 DEF TypeOK
  <2>2. CASE ~Known(c, run) /\ pending' = [pending EXCEPT ![s] = @ \union {row}]
    BY <1>3, <2>2 DEF TypeOK
  <2> QED BY <1>1, <2>1, <2>2
<1>5. /\ state'[s] \in {"walking", "closing"} /\ state' \in [Syncers -> Places]
      /\ \A t \in Syncers \ {s} : state'[t] = state[t] /\ todo'[t] = todo[t]
      /\ todo'[s] \subseteq todo[s] /\ todo' \in [Syncers -> SUBSET Configs]
  <2>1. CASE Continue(s, FALSE) \/ Continue(s, TRUE)
    BY <2>1 DEF Continue, TypeOK, Places
  <2>2. CASE Close(s)
    BY <2>2 DEF Close, TypeOK, Places
  <2> QED BY <1>1, <2>1, <2>2
<1>6. created' \in [Syncers -> BOOLEAN]
  <2>1. CASE Continue(s, FALSE) \/ Continue(s, TRUE)
    BY <2>1, CreatedTypes DEF Continue
  <2>2. CASE Close(s)
    BY <2>2 DEF Close, TypeOK
  <2> QED BY <1>1, <2>1, <2>2
<1> HIDE DEF row
<1>7. JudgeStep(s) /\ TodoStep(s)
  BY <1>1, <1>5 DEF JudgeStep, TodoStep, Walks
<1>8. PendingStep(s)
  BY <1>1, <1>3, <1>4 DEF PendingStep, row
<1>9. \A t \in Syncers \ {s} : Same(t)
  BY <1>1, <1>4, <1>5 DEF Same, TypeOK
<1>10. \A d \in Configs : HistoryStep(d)
  BY <1>1, NoRowStep
<1>11. Advance
  BY <1>1, <1>7, <1>8, <1>9, <1>10, OwnAdvances DEF Working
<1>12. TypeOK'
  BY <1>1, <1>4, <1>5, <1>6, NothingHeld DEF TypeOK, Places
<1> QED BY <1>11, <1>12

LEMMA CloseSteps ==
  ASSUME Fit, NEW s \in Syncers, Close(s)
  PROVE  /\ state'[s] = "closing" /\ state' \in [Syncers -> Places]
         /\ \A t \in Syncers \ {s} : state'[t] = state[t] /\ todo'[t] = todo[t]
         /\ todo' \in [Syncers -> SUBSET Configs] /\ created' \in [Syncers -> BOOLEAN]
         /\ JudgeStep(s) /\ TodoStep(s)
BY DEF Fit, Close, TypeOK, Places, JudgeStep, TodoStep

LEMMA FinishAdvances ==
  ASSUME Fit, NEW s \in Syncers, Finish(s)
  PROVE  Advance /\ TypeOK'
<1> USE DEF Fit
<1>1. /\ state[s] = "walking" /\ Close(s)
      /\ UNCHANGED <<last, server, held, left, raced, faults, hung>>
      /\ Commit(s) \/ UNCHANGED <<history, pending, lock>>
  BY DEF Finish
<1>2. /\ state'[s] = "closing" /\ state' \in [Syncers -> Places]
      /\ \A t \in Syncers \ {s} : state'[t] = state[t] /\ todo'[t] = todo[t]
      /\ todo' \in [Syncers -> SUBSET Configs] /\ created' \in [Syncers -> BOOLEAN]
      /\ JudgeStep(s) /\ TodoStep(s)
  BY <1>1, CloseSteps
<1>3. /\ \A c \in Configs : HistoryStep(c)
      /\ pending'[s] \subseteq pending[s] /\ \A t \in Syncers \ {s} : pending'[t] = pending[t]
      /\ history' \in [Configs -> Seq(0..MaxRuns)]
      /\ pending' \in [Syncers -> SUBSET Row]
      /\ lock' \in Syncers \union {"nobody"}
  <2>1. CASE Commit(s)
    BY <1>2, <2>1, CommitSteps
  <2>2. CASE UNCHANGED <<history, pending, lock>>
    BY <2>2, NoRowStep DEF TypeOK
  <2> QED BY <1>1, <2>1, <2>2
<1>4. \A t \in Syncers \ {s} : Same(t)
  BY <1>1, <1>2, <1>3 DEF Same
<1>5. PendingStep(s)
  BY <1>3 DEF PendingStep
<1>6. Advance
  BY <1>1, <1>2, <1>3, <1>4, <1>5, OwnAdvances DEF Working
<1>7. TypeOK'
  BY <1>1, <1>2, <1>3 DEF TypeOK, Places
<1> QED BY <1>6, <1>7

LEMMA FailConnectAdvances ==
  ASSUME Fit, NEW s \in Syncers, FailConnect(s)
  PROVE  Advance /\ TypeOK'
<1> USE DEF Fit
<1>1. /\ state[s] = "connecting" /\ Close(s) /\ faults' \in 0..MaxFaults
      /\ UNCHANGED <<last, history, server, held, pending, left, lock, raced, hung>>
  BY SyncBoundsAssumption DEF FailConnect, TypeOK
<1>2. /\ state'[s] = "closing" /\ state' \in [Syncers -> Places]
      /\ \A t \in Syncers \ {s} : state'[t] = state[t] /\ todo'[t] = todo[t]
      /\ todo' \in [Syncers -> SUBSET Configs] /\ created' \in [Syncers -> BOOLEAN]
      /\ JudgeStep(s) /\ TodoStep(s)
  BY <1>1, CloseSteps
<1>3. \A t \in Syncers \ {s} : Same(t)
  BY <1>1, <1>2 DEF Same
<1>4. PendingStep(s) /\ \A c \in Configs : HistoryStep(c)
  BY <1>1, NoRowStep DEF PendingStep
<1>5. Advance
  BY <1>1, <1>2, <1>3, <1>4, OwnAdvances DEF Working
<1>6. TypeOK'
  BY <1>1, <1>2 DEF TypeOK, Places
<1> QED BY <1>5, <1>6

LEMMA LeaveSteps ==
  ASSUME Fit, NEW s \in Syncers, NEW next \in {"idle", "spent"}, Leave(s, next)
  PROVE  /\ state'[s] = next /\ state' \in [Syncers -> Places]
         /\ server' \in [Syncers -> Servers] /\ todo' \in [Syncers -> SUBSET Configs]
         /\ held' \in [Syncers -> [config : Configs, report : Reports]]
         /\ created' \in [Syncers -> BOOLEAN]
         /\ \A t \in Syncers \ {s} : /\ state'[t] = state[t] /\ server'[t] = server[t]
                                     /\ todo'[t] = todo[t] /\ held'[t] = held[t]
         /\ JudgeStep(s) /\ TodoStep(s)
BY NothingHeld DEF Fit, Leave, TypeOK, Places, JudgeStep, TodoStep

\* A syncer that leaves its server, whether it commits, rolls back or neither.
LEMMA LeaveAdvances ==
  ASSUME Fit, NEW s \in Syncers, NEW next \in {"idle", "spent"}, Leave(s, next),
         Commit(s) \/ Rollback(s) \/ UNCHANGED <<history, pending, lock>>,
         UNCHANGED <<last, raced, faults, hung>>, left' \in SUBSET Servers
  PROVE  Advance /\ TypeOK'
<1> USE DEF Fit
<1>1. /\ state'[s] = next /\ state' \in [Syncers -> Places]
      /\ server' \in [Syncers -> Servers] /\ todo' \in [Syncers -> SUBSET Configs]
      /\ held' \in [Syncers -> [config : Configs, report : Reports]]
      /\ created' \in [Syncers -> BOOLEAN]
      /\ \A t \in Syncers \ {s} : /\ state'[t] = state[t] /\ server'[t] = server[t]
                                  /\ todo'[t] = todo[t] /\ held'[t] = held[t]
      /\ JudgeStep(s) /\ TodoStep(s)
  BY LeaveSteps
<1>2. /\ \A c \in Configs : HistoryStep(c)
      /\ pending'[s] \subseteq pending[s] /\ \A t \in Syncers \ {s} : pending'[t] = pending[t]
      /\ history' \in [Configs -> Seq(0..MaxRuns)]
      /\ pending' \in [Syncers -> SUBSET Row]
      /\ lock' \in Syncers \union {"nobody"}
  <2>1. CASE Commit(s)
    BY <1>1, <2>1, CommitSteps
  <2>2. CASE Rollback(s)
    BY <2>2, RollbackSteps, NoRowStep DEF TypeOK
  <2>3. CASE UNCHANGED <<history, pending, lock>>
    BY <2>3, NoRowStep DEF TypeOK
  <2> QED BY <2>1, <2>2, <2>3
<1>3. \A t \in Syncers \ {s} : Same(t)
  BY <1>1, <1>2 DEF Same
<1>4. PendingStep(s)
  BY <1>2 DEF PendingStep
<1>5. Advance
  BY <1>1, <1>2, <1>3, <1>4, OwnAdvances DEF Working
<1>6. TypeOK'
  BY <1>1, <1>2 DEF TypeOK, Places
<1> QED BY <1>5, <1>6

LEMMA SyncStepAdvances ==
  ASSUME Fit, NEW s \in Syncers, SyncStep(s)
  PROVE  Advance /\ TypeOK'
<1>1. CASE LockedOut(s)
  <2>1. PICK next \in {"idle", "spent"} : Leave(s, next)
    BY <1>1 DEF LockedOut
  <2>2. left' \in SUBSET Servers
    BY <1>1 DEF LockedOut, Fit, TypeOK
  <2> QED BY <1>1, <2>1, <2>2, LeaveAdvances DEF LockedOut
<1>2. CASE EndRequest(s)
  <2>1. left' \in SUBSET Servers
    BY <1>2 DEF EndRequest, Fit, TypeOK
  <2> QED BY <1>2, <2>1, LeaveAdvances DEF EndRequest
<1>3. CASE \E c \in todo[s] : PassOver(s, c) \/ Fetch(s, c)
  BY <1>3, WalkAdvances
<1> QED BY <1>1, <1>2, <1>3, ListConfigsAdvances, JudgeAdvances, FinishAdvances,
           FailConnectAdvances DEF SyncStep

LEMMA CycleAdvances ==
  ASSUME Fit, NextServer \/ EndCycle
  PROVE  Advance /\ TypeOK'
<1> USE DEF Fit
<1>0. "loop" \in Syncers
  BY DEF Syncers
<1>1. CASE NextServer
  <2>1. left' \in SUBSET Servers
    BY <1>1 DEF NextServer, TypeOK
  <2> QED BY <1>0, <1>1, <2>1, LeaveAdvances DEF NextServer
<1>2. CASE EndCycle
  <2>1. /\ state["loop"] = "idle" /\ left' = Servers /\ Rollback("loop")
        /\ UNCHANGED <<last, state, server, todo, held, created, raced, faults, hung>>
    BY <1>2 DEF EndCycle
  <2>2. /\ history' = history /\ pending'["loop"] = {}
        /\ \A t \in Syncers \ {"loop"} : pending'[t] = pending[t]
        /\ pending' \in [Syncers -> SUBSET Row]
        /\ lock' \in Syncers \union {"nobody"}
    BY <1>0, <2>1, RollbackSteps
  <2>3. /\ JudgeStep("loop") /\ TodoStep("loop") /\ PendingStep("loop")
        /\ \A c \in Configs : HistoryStep(c)
    BY <2>1, <2>2, NoRowStep DEF JudgeStep, TodoStep, PendingStep
  <2>4. \A t \in Syncers \ {"loop"} : Same(t)
    BY <2>1, <2>2 DEF Same
  <2>5. Advance
    BY <1>0, <2>1, <2>3, <2>4, OwnAdvances DEF Working
  <2>6. TypeOK'
    BY <2>1, <2>2 DEF TypeOK
  <2> QED BY <2>5, <2>6
<1> QED BY <1>1, <1>2

LEMMA BeginAdvances ==
  ASSUME Fit, NEW s \in Syncers, NEW v \in Servers, Begin(s, v)
  PROVE  Advance /\ TypeOK'
<1> USE DEF Fit
<1>1. /\ state' = [state EXCEPT ![s] = "connecting"] /\ server' = [server EXCEPT ![s] = v]
      /\ left' \in SUBSET Servers
      /\ raced' = IF \E t \in Syncers \ {s} : Engaged(t, v) THEN raced \union {v} ELSE raced
      /\ UNCHANGED <<last, history, todo, held, pending, created, lock, faults, hung>>
  BY DEF Begin, TypeOK
<1>2. /\ state'[s] = "connecting" /\ server'[s] = v
      /\ \A t \in Syncers \ {s} : Same(t)
  BY <1>1 DEF Same, TypeOK
<1>3. raced \subseteq raced' /\ raced' \subseteq Servers
  BY <1>1 DEF TypeOK
<1>4. JudgeStep(s) /\ TodoStep(s) /\ PendingStep(s)
  BY <1>1, <1>2 DEF JudgeStep, TodoStep, PendingStep
<1>5. \A t \in Syncers \ {s} : /\ JudgeStep(t) /\ PendingStep(t) /\ TodoStep(t) /\ EngagedStep(t)
                              /\ \A w \in Servers : Engaged(t, w)' = Engaged(t, w)
  BY <1>2, SameSteps
<1>6. EngagedStep(s)
  <2> SUFFICES ASSUME NEW w \in Servers, Engaged(s, w)', ~Engaged(s, w)
               PROVE  \A t \in Syncers \ {s} : Engaged(t, w)' => w \in raced'
    BY DEF EngagedStep
  <2>1. w = v
    BY <1>1, <1>2 DEF Engaged
  <2> QED BY <1>1, <1>5, <2>1
<1>7. \A c \in Configs : HistoryStep(c) /\ last[c].run <= last'[c].run
  BY <1>1, NoRowStep DEF TypeOK, Reports
<1>8. Advance
  BY <1>3, <1>4, <1>5, <1>6, <1>7 DEF Advance
<1>9. TypeOK'
  BY <1>1, <1>3 DEF TypeOK
<1> QED BY <1>8, <1>9

\* The bound on all runs bounds those of one config.
LEMMA RoomForRun ==
  ASSUME TypeOK, NEW c \in Configs,
         Cardinality(UNION {{d} \X (1..last[d].run) : d \in Configs}) < MaxRuns
  PROVE  last[c].run + 1 \in 0..MaxRuns
<1> DEFINE n == last[c].run
           all == UNION {{d} \X (1..last[d].run) : d \in Configs}
           own == {c} \X (1..n)
<1>1. n \in 0..MaxRuns /\ MaxRuns \in Nat /\ n \in Nat
  BY SyncBoundsAssumption DEF TypeOK, Reports
<1>2. IsFiniteSet(Configs \X (1..MaxRuns))
  <2>1. 1 \in Int /\ MaxRuns \in Int
    BY <1>1
  <2>2. IsFiniteSet(1..MaxRuns)
    BY <2>1, FS_Interval
  <2>3. IsFiniteSet(Configs)
    BY ServerAssumption
  <2> HIDE DEF all, own
  <2> QED BY <2>2, <2>3, FS_Product
<1>3. all \subseteq Configs \X (1..MaxRuns)
  BY SyncBoundsAssumption DEF TypeOK, Reports
<1>4. IsFiniteSet(all)
  BY <1>2, <1>3, FS_Subset
<1>5. own \subseteq all
  OBVIOUS
<1>6. Cardinality(own) = n
  <2>1. IsFiniteSet({c}) /\ Cardinality({c}) = 1
    BY FS_Singleton
  <2>2. IsFiniteSet(1..n) /\ Cardinality(1..n) = n
    <3>1. 1 \in Int /\ n \in Int /\ n \in Nat
      BY <1>1
    <3> HIDE DEF n
    <3>2. IsFiniteSet(1..n) /\ Cardinality(1..n) = IF 1 > n THEN 0 ELSE n - 1 + 1
      BY <3>1, FS_Interval
    <3> QED BY <3>1, <3>2
  <2>3. Cardinality(own) = Cardinality({c}) * Cardinality(1..n)
    BY <2>1, <2>2, FS_Product
  <2> QED BY <1>1, <2>1, <2>2, <2>3
<1>7. Cardinality(own) <= Cardinality(all)
  BY <1>4, <1>5, FS_Subset
<1>8. Cardinality(all) \in Nat
  BY <1>4, FS_CardinalityType
<1> HIDE DEF all, own
<1>9. Cardinality(all) < MaxRuns
  BY DEF all
<1> QED BY <1>1, <1>6, <1>7, <1>8, <1>9

LEMMA SurroundingsAdvance ==
  ASSUME Fit, NEW c \in Configs, ScheduledRun(c) \/ ManualRow(c)
  PROVE  Advance /\ TypeOK'
<1> USE DEF Fit
<1>1. UNCHANGED <<state, server, todo, held, pending, created, left, lock, raced, faults, hung>>
  BY DEF ScheduledRun, ManualRow
<1>2. \A t \in Syncers : JudgeStep(t) /\ PendingStep(t) /\ TodoStep(t) /\ EngagedStep(t)
  <2>1. \A t \in Syncers : Same(t)
    BY <1>1 DEF Same
  <2> QED BY <2>1, SameSteps
<1>3. CASE ScheduledRun(c)
  <2>1. PICK k \in Kinds : last' = [last EXCEPT ![c] = [run |-> @.run + 1, kind |-> k]]
    BY <1>3 DEF ScheduledRun
  <2>2. last[c].run + 1 \in 0..MaxRuns
    BY <1>3, RoomForRun DEF ScheduledRun
  <2>3. [run |-> last[c].run + 1, kind |-> k] \in Reports
    BY <2>2 DEF Reports
  <2>4. last' \in [Configs -> Reports]
    BY <2>1, <2>3 DEF TypeOK
  <2>5. \A d \in Configs : last[d].run <= last'[d].run
    <3>1. \A d \in Configs : last[d].run \in Nat
      BY SyncBoundsAssumption DEF TypeOK, Reports
    <3> QED BY <2>1, <3>1 DEF TypeOK
  <2>6. history' = history
    BY <1>3 DEF ScheduledRun
  <2>7. Advance
    BY <1>1, <1>2, <2>5, <2>6, NoRowStep DEF Advance
  <2>8. TypeOK'
    BY <1>1, <2>4, <2>6 DEF TypeOK
  <2> QED BY <2>7, <2>8
<1>4. CASE ManualRow(c)
  <2>1. history' = [history EXCEPT ![c] = Append(history[c], 0)] /\ last' = last
    BY <1>4 DEF ManualRow
  <2>2. history[c] \in Seq(0..MaxRuns) /\ 0 \in 0..MaxRuns
    BY SyncBoundsAssumption DEF TypeOK
  <2>3. Append(history[c], 0) \in Seq(0..MaxRuns)
    BY <2>2
  <2>4. history' \in [Configs -> Seq(0..MaxRuns)] /\ \A d \in Configs : HistoryStep(d)
    BY <2>1, <2>3 DEF TypeOK, HistoryStep
  <2>5. \A d \in Configs : last[d].run <= last'[d].run
    BY <2>1 DEF TypeOK, Reports
  <2>6. Advance
    BY <1>1, <1>2, <2>4, <2>5 DEF Advance
  <2>7. TypeOK'
    BY <1>1, <2>1, <2>4 DEF TypeOK
  <2> QED BY <2>6, <2>7
<1> QED BY <1>3, <1>4

LEMMA EveryStepAdvances ==
  ASSUME Fit, [Next]_vars
  PROVE  Advance /\ TypeOK'
<1>0. Clicks \subseteq Syncers /\ "loop" \in Syncers
  BY DEF Syncers
<1>1. ASSUME UNCHANGED vars \/ \E s \in Syncers : Hang(s) PROVE Advance /\ TypeOK'
  <2>0. /\ UNCHANGED <<last, history, state, server, todo, held, pending, created, left, lock, raced>>
        /\ hung' \subseteq Syncers /\ faults' \in 0..MaxFaults
    BY <1>1, SyncBoundsAssumption DEF Hang, Fit, TypeOK, vars
  <2>1. \A t \in Syncers : Same(t)
    BY <2>0 DEF Same
  <2>2. \A t \in Syncers : JudgeStep(t) /\ PendingStep(t) /\ TodoStep(t) /\ EngagedStep(t)
    BY <2>1, SameSteps DEF Fit
  <2>3. \A c \in Configs : last[c].run <= last'[c].run
    BY <2>0 DEF Fit, TypeOK, Reports
  <2>4. Advance
    BY <2>0, <2>2, <2>3, NoRowStep DEF Advance
  <2>5. TypeOK'
    BY <2>0 DEF Fit, TypeOK
  <2> QED BY <2>4, <2>5
<1>2. CASE LoopStep
  BY <1>0, <1>2, SyncStepAdvances, CycleAdvances, BeginAdvances DEF LoopStep
<1> QED BY <1>0, <1>1, <1>2, SyncStepAdvances, BeginAdvances, SurroundingsAdvance DEF Next

-----------------------------------------------------------------------------
\* What the steps do to the invariant.
LEMMA WalksStep ==
  ASSUME SInv, Advance, NEW s \in Syncers
  PROVE  Walks(s)'
<1>1. Walks(s) /\ JudgeStep(s) /\ TodoStep(s)
  BY DEF SInv, Advance
<1>2. state'[s] = "judging" =>
        held'[s].config \in ConfigsOn(server'[s]) /\ held'[s].report.run > 0
  <2> SUFFICES ASSUME state'[s] = "judging"
               PROVE  held'[s].config \in ConfigsOn(server'[s]) /\ held'[s].report.run > 0
    OBVIOUS
  <2>1. CASE /\ state[s] = "judging"
             /\ held'[s] = held[s] /\ server'[s] = server[s]
    <3>1. held[s].config \in ConfigsOn(server[s]) /\ held[s].report.run > 0
      BY <1>1, <2>1 DEF Walks
    <3> QED BY <2>1, <3>1, Zenon DEF ConfigsOn
  <2>2. CASE /\ state[s] = "walking" /\ server'[s] = server[s]
             /\ \E c \in todo[s] : last[c].run > 0 /\ held'[s] = [config |-> c, report |-> last[c]]
    <3>1. PICK c \in todo[s] : last[c].run > 0 /\ held'[s] = [config |-> c, report |-> last[c]]
      BY <2>2
    <3>2. c \in ConfigsOn(server[s])
      BY <1>1, <2>2 DEF Walks
    <3>3. held'[s].config = c /\ held'[s].report = last[c]
      BY <3>1
    <3> QED BY <2>2, <3>1, <3>2, <3>3, Zenon DEF ConfigsOn
  <2> QED BY <1>1, <2>1, <2>2 DEF JudgeStep
<1> QED BY <1>1, <1>2 DEF Walks, TodoStep, ConfigsOn

LEMMA ApartStep ==
  ASSUME SInv, Advance
  PROVE  Apart'
<1> SUFFICES ASSUME NEW v \in Servers \ raced', NEW s \in Syncers, NEW t \in Syncers,
                    Engaged(s, v)', Engaged(t, v)', s # t
             PROVE  FALSE
  BY DEF Apart
<1>1. v \notin raced /\ EngagedStep(s) /\ EngagedStep(t)
  BY DEF Advance
<1>2. Engaged(s, v) /\ Engaged(t, v)
  BY <1>1 DEF EngagedStep
<1> QED BY <1>1, <1>2 DEF SInv, Apart

\* On a server that is not raced, a row of another session is not committed
\* beside one that is pending or about to be judged.
LEMMA NobodyElse ==
  ASSUME SInv, NEW c \in Configs, ServerOf[c] \notin raced,
         NEW s \in Syncers, Engaged(s, ServerOf[c]),
         NEW t \in Syncers, NEW r \in pending[t], r.config = c
  PROVE  s = t
<1>1. ServerOf[c] \in Servers
  BY ServerAssumption
<1>2. Engaged(t, ServerOf[c])
  BY DEF Engaged
<1> QED BY <1>1, <1>2 DEF SInv, Apart

LEMMA Numbers ==
  ASSUME TypeOK
  PROVE  /\ \A c \in Configs : history[c] \in Seq(Nat) /\ last[c].run \in Nat
         /\ \A s \in Syncers : held[s].config \in Configs /\ held[s].report.run \in Nat
         /\ \A s \in Syncers : \A r \in pending[s] : r.config \in Configs /\ r.run \in Nat
<1>1. 0..MaxRuns \subseteq Nat /\ 1..MaxRuns \subseteq Nat
  BY SyncBoundsAssumption
<1>2. \A c \in Configs : history[c] \in Seq(Nat)
  <2> SUFFICES ASSUME NEW c \in Configs
               PROVE  history[c] \in Seq(Nat)
    OBVIOUS
  <2> DEFINE h == history[c]
  <2>1. h \in Seq(0..MaxRuns)
    BY DEF TypeOK
  <2> HIDE DEF h
  <2>2. Len(h) \in Nat /\ h \in [1..Len(h) -> 0..MaxRuns]
    BY <2>1, LenProperties
  <2>3. h \in [1..Len(h) -> Nat]
    BY <1>1, <2>2
  <2>4. h \in Seq(Nat)
    BY <2>2, <2>3
  <2> QED BY <2>4 DEF h
<1> QED BY <1>1, <1>2 DEF TypeOK, Reports, Row

LEMMA PastStep ==
  ASSUME SInv, Advance, TypeOK'
  PROVE  Past'
<1> USE DEF SInv
<1> SUFFICES ASSUME NEW c \in Configs
             PROVE  /\ UpTo(history'[c], last'[c].run)
                    /\ \A s \in Syncers :
                         /\ \A r \in pending'[s] : r.config = c => r.run <= last'[c].run
                         /\ state'[s] = "judging" /\ held'[s].config = c =>
                              held'[s].report.run <= last'[c].run
  BY DEF Past
<1>1. history[c] \in Seq(Nat) /\ last[c].run \in Nat /\ last'[c].run \in Nat
  <2>1. last'[c].run \in Nat
    BY SyncBoundsAssumption DEF TypeOK, Reports
  <2> QED BY <2>1, Numbers
<1>2. last[c].run <= last'[c].run /\ HistoryStep(c)
  BY DEF Advance
<1>3. UpTo(history[c], last'[c].run)
  <2>1. UpTo(history[c], last[c].run)
    BY DEF Past
  <2>2. \A i \in DOMAIN history[c] : history[c][i] \in Nat
    BY <1>1
  <2> QED BY <1>1, <1>2, <2>1, <2>2 DEF UpTo
<1>4. UpTo(history'[c], last'[c].run)
  <2>1. CASE history'[c] = history[c]
    BY <1>3, <2>1
  <2>2. CASE history'[c] = Append(history[c], 0)
    BY <1>1, <1>3, <2>2, ManualRowKeeps
  <2>3. CASE \E s \in Syncers : \E r \in pending[s] :
               r.config = c /\ history'[c] = Append(history[c], r.run)
    <3>1. PICK s \in Syncers : \E r \in pending[s] :
                 r.config = c /\ history'[c] = Append(history[c], r.run)
      BY <2>3
    <3>2. PICK r \in pending[s] : r.config = c /\ history'[c] = Append(history[c], r.run)
      BY <3>1
    <3>3. r.run \in Nat
      BY Numbers
    <3>4. r.run <= last'[c].run
      BY <1>1, <1>2, <3>2, <3>3 DEF Past
    <3> QED BY <1>1, <1>3, <3>2, <3>3, <3>4, RunRowKeeps
  <2> QED BY <1>2, <2>1, <2>2, <2>3 DEF HistoryStep
<1>5. ASSUME NEW s \in Syncers, NEW r \in pending'[s], r.config = c
      PROVE  r.run <= last'[c].run
  <2>1. CASE r \in pending[s]
    <3>1. r.run \in Nat /\ r.run <= last[c].run
      BY <1>5, <2>1, Numbers DEF Past
    <3> QED BY <1>1, <1>2, <3>1
  <2>2. CASE state[s] = "judging" /\ r = [config |-> held[s].config, run |-> held[s].report.run]
    <3>1. r.run \in Nat /\ r.run <= last[c].run
      BY <1>5, <2>2, Numbers DEF Past
    <3> QED BY <1>1, <1>2, <3>1
  <2> QED BY <2>1, <2>2 DEF Advance, PendingStep
<1>6. ASSUME NEW s \in Syncers, state'[s] = "judging", held'[s].config = c
      PROVE  held'[s].report.run <= last'[c].run
  <2>1. CASE state[s] = "judging" /\ held'[s] = held[s]
    <3>1. held[s].report.run \in Nat /\ held[s].report.run <= last[c].run
      BY <1>6, <2>1, Numbers DEF Past
    <3> QED BY <1>1, <1>2, <2>1, <3>1
  <2>2. CASE last' = last /\ \E d \in todo[s] : held'[s] = [config |-> d, report |-> last[d]]
    BY <1>1, <1>6, <2>2
  <2> QED BY <1>6, <2>1, <2>2 DEF Advance, JudgeStep
<1> QED BY <1>4, <1>5, <1>6

LEMMA OrderStep ==
  ASSUME SInv, Advance
  PROVE  HistoryFollowsRuns'
<1> USE DEF SInv
<1>1. ASSUME NEW c \in Configs, ServerOf[c] \notin raced' PROVE Ordered(history'[c])
  <2>1. Ordered(history[c]) /\ history[c] \in Seq(Nat) /\ ServerOf[c] \notin raced
    BY <1>1, Numbers DEF HistoryFollowsRuns, Ordered, Advance
  <2>2. CASE history'[c] = history[c]
    BY <2>1, <2>2
  <2>3. CASE history'[c] = Append(history[c], 0)
    BY <2>1, <2>3, ManualRowKeeps
  <2>4. CASE \E s \in Syncers : \E r \in pending[s] :
               r.config = c /\ history'[c] = Append(history[c], r.run)
    <3>1. PICK s \in Syncers : \E r \in pending[s] :
                 r.config = c /\ history'[c] = Append(history[c], r.run)
      BY <2>4
    <3>2. PICK r \in pending[s] : r.config = c /\ history'[c] = Append(history[c], r.run)
      BY <3>1
    <3>3. r.run \in Nat /\ Follows(history[c], r.run)
      BY <2>1, <3>2, Numbers DEF PendingFits
    <3> QED BY <2>1, <3>2, <3>3, RunRowKeeps
  <2> QED BY <2>2, <2>3, <2>4 DEF Advance, HistoryStep
<1> QED BY <1>1 DEF HistoryFollowsRuns, Ordered

LEMMA PendingStepFits ==
  ASSUME SInv, Advance, NEW s \in Syncers
  PROVE  PendingFits(s)'
<1> USE DEF SInv
<1> SUFFICES ASSUME NEW r \in pending'[s], ServerOf[r.config] \notin raced'
             PROVE  Follows(history'[r.config], r.run)
  BY DEF PendingFits
<1>1. ServerOf[r.config] \notin raced
  BY DEF Advance
<1>2. CASE r \in pending[s]
  <2>1. r.config \in Configs /\ r.run \in Nat /\ history[r.config] \in Seq(Nat)
    BY <1>2, Numbers
  <2>2. Follows(history[r.config], r.run)
    BY <1>1, <1>2 DEF PendingFits
  <2>3. CASE history'[r.config] = history[r.config]
    BY <2>2, <2>3
  <2>4. CASE history'[r.config] = Append(history[r.config], 0)
    BY <2>1, <2>2, <2>4, ManualRowKeeps
  <2>5. ASSUME NEW t \in Syncers, NEW x \in pending[t], x.config = r.config, pending'[t] = {}
        PROVE  FALSE
    <3>1. Engaged(s, ServerOf[r.config])
      BY <1>2 DEF Engaged
    <3>2. s = t
      BY <1>1, <2>1, <2>5, <3>1, NobodyElse
    <3> QED BY <2>5, <3>2
  <2> QED BY <2>1, <2>3, <2>4, <2>5 DEF Advance, HistoryStep
<1>3. CASE /\ state[s] = "judging" /\ history' = history
           /\ r = [config |-> held[s].config, run |-> held[s].report.run]
           /\ ~Known(r.config, r.run)
  <2>1. r.config = held[s].config /\ r.run = held[s].report.run
    BY <1>3
  <2>2. /\ r.config \in Configs /\ r.run \in Nat /\ history[r.config] \in Seq(Nat)
        /\ ServerOf[r.config] = server[s] /\ r.run > 0
    BY <1>3, <2>1, Numbers DEF Walks, ConfigsOn
  <2>3. Ordered(history[r.config])
    BY <1>1, <2>2 DEF HistoryFollowsRuns, Ordered
  <2>4. UpTo(history[r.config], r.run)
    BY <1>1, <1>3, <2>1, <2>2 DEF HeldFits
  <2>5. Follows(history[r.config], r.run)
    BY <1>3, <2>2, <2>3, <2>4, UnknownFollows DEF Known
  <2> QED BY <1>3, <2>5
<1> QED BY <1>2, <1>3 DEF Advance, PendingStep

LEMMA HeldStepFits ==
  ASSUME SInv, Advance, NEW s \in Syncers
  PROVE  HeldFits(s)'
<1> USE DEF SInv
<1> SUFFICES ASSUME state'[s] = "judging", server'[s] \notin raced'
             PROVE  UpTo(history'[held'[s].config], held'[s].report.run)
  BY DEF HeldFits
<1>1. CASE state[s] = "judging" /\ held'[s] = held[s] /\ server'[s] = server[s]
  <2> DEFINE c == held[s].config
             run == held[s].report.run
  <2>1. /\ c \in Configs /\ run \in Nat /\ history[c] \in Seq(Nat)
        /\ ServerOf[c] = server[s] /\ ServerOf[c] \notin raced
    BY <1>1, Numbers DEF Walks, ConfigsOn, Advance
  <2>2. UpTo(history[c], run)
    BY <1>1, <2>1 DEF HeldFits
  <2>3. HistoryStep(c)
    BY <2>1 DEF Advance
  <2>4. Engaged(s, ServerOf[c])
    BY <1>1, <2>1 DEF Engaged
  <2> HIDE DEF c, run
  <2>5. CASE history'[c] = history[c]
    BY <1>1, <2>2, <2>5 DEF c, run
  <2>6. CASE history'[c] = Append(history[c], 0)
    <3>1. UpTo(history'[c], run)
      BY <2>1, <2>2, <2>6, ManualRowKeeps
    <3> QED BY <1>1, <3>1 DEF c, run
  <2>7. ASSUME NEW t \in Syncers, NEW x \in pending[t], x.config = c, state'[t] # "judging"
        PROVE  FALSE
    <3>1. s = t
      BY <2>1, <2>4, <2>7, NobodyElse
    <3> QED BY <2>7, <3>1
  <2> QED BY <2>3, <2>5, <2>6, <2>7 DEF HistoryStep
<1>2. CASE /\ state[s] = "walking" /\ history' = history
           /\ \E c \in todo[s] : held'[s] = [config |-> c, report |-> last[c]]
  <2>1. PICK c \in todo[s] : held'[s] = [config |-> c, report |-> last[c]]
    BY <1>2
  <2>2. c \in Configs
    BY DEF TypeOK
  <2> QED BY <1>2, <2>1, <2>2 DEF Past
<1> QED BY <1>1, <1>2 DEF Advance, JudgeStep

LEMMA InitInv == Init => SInv
<1> SUFFICES ASSUME Init PROVE SInv
  OBVIOUS
<1> USE DEF Init
<1>1. TypeOK
  <2>1. [run |-> 0, kind |-> "good"] \in Reports
    BY SyncBoundsAssumption DEF Reports, Kinds
  <2>2. 0 \in 0..MaxFaults /\ <<>> \in Seq(0..MaxRuns)
    BY SyncBoundsAssumption
  <2>3. created \in [Syncers -> BOOLEAN]
    OBVIOUS
  <2> QED BY <2>1, <2>2, <2>3, NothingHeld DEF TypeOK
<1>2. \A s \in Syncers : Walks(s) /\ PendingFits(s) /\ HeldFits(s)
  BY DEF Walks, PendingFits, HeldFits
<1>3. Apart
  BY DEF Apart, Engaged
<1>4. \A c \in Configs : DOMAIN history[c] = {}
  OBVIOUS
<1>5. Past
  BY <1>4 DEF Past, UpTo
<1>6. HistoryFollowsRuns
  BY <1>4 DEF HistoryFollowsRuns
<1> QED BY <1>1, <1>2, <1>3, <1>5, <1>6 DEF SInv

LEMMA StepInv == SInv /\ [Next]_vars => SInv'
<1> SUFFICES ASSUME SInv, [Next]_vars PROVE SInv'
  OBVIOUS
<1>1. Advance /\ TypeOK'
  BY EveryStepAdvances DEF SInv, Fit
<1>2. \A s \in Syncers : Walks(s)' /\ PendingFits(s)' /\ HeldFits(s)'
  BY <1>1, WalksStep, PendingStepFits, HeldStepFits
<1>3. Apart' /\ Past' /\ HistoryFollowsRuns'
  BY <1>1, ApartStep, PastStep, OrderStep
<1> QED BY <1>1, <1>2, <1>3 DEF SInv

\* The inductive invariant: sessions on a server that is not raced are apart,
\* and what they hold, add and have committed is in the order of the runs.
THEOREM SyncInvariant == Spec => []SInv
<1> QED BY InitInv, StepInv, PTL DEF Spec

\* Reports, sessions, their rows and the lock always have their types.
THEOREM SyncTypes == Spec => []TypeOK
<1>1. SInv => TypeOK
  BY DEF SInv
<1> QED BY <1>1, SyncInvariant, PTL

\* Comparing a report with the latest row only is enough to keep a config's
\* imported rows in the order of its runs, a repeated one hidden by a manual
\* run before, on every server that no two sessions have synced at a time.
THEOREM RowsFollowRuns == Spec => []HistoryFollowsRuns
<1>1. SInv => HistoryFollowsRuns
  BY DEF SInv
<1> QED BY <1>1, SyncInvariant, PTL

-----------------------------------------------------------------------------
(***************************************************************************)
(* ScheduledSync implements ImportLog                                      *)
(***************************************************************************)

\* What the log shows depends on the last reports, the history and the races.
LEMMA NotShown ==
  ASSUME UNCHANGED <<last, history, raced>>
  PROVE  UNCHANGED Log!vars
BY DEF Log!vars

\* The row a commit of s gives c, 0 if it gives it none.
RowOf(s, c) ==
  IF \E r \in pending[s] : r.config = c THEN (CHOOSE r \in pending[s] : r.config = c).run ELSE 0

LEMMA RowOfPending ==
  ASSUME SInv, NEW s \in Syncers, NEW c \in Configs
  PROVE  /\ RowOf(s, c) \in 0..MaxRuns
         /\ history[c] \in Seq(0..MaxRuns)
         /\ RowOf(s, c) # 0 => /\ [config |-> c, run |-> RowOf(s, c)] \in pending[s]
                               /\ HistoryWith(pending[s], c) = Append(history[c], RowOf(s, c))
         /\ RowOf(s, c) = 0 => HistoryWith(pending[s], c) = history[c]
<1>1. history[c] \in Seq(0..MaxRuns) /\ pending[s] \subseteq Row /\ MaxRuns \in Nat
  BY SyncBoundsAssumption DEF SInv, TypeOK
<1>2. CASE \E r \in pending[s] : r.config = c
  <2>1. PICK r \in pending[s] : r.config = c /\ r = CHOOSE x \in pending[s] : x.config = c
    BY <1>2
  <2>2. RowOf(s, c) = r.run /\ HistoryWith(pending[s], c) = history[c] \o <<r.run>>
    BY <1>2, <2>1 DEF RowOf, HistoryWith
  <2>3. r \in Row /\ r.run \in 1..MaxRuns /\ r = [config |-> c, run |-> r.run]
    BY <1>1, <2>1 DEF Row
  <2>4. r.run \in 0..MaxRuns /\ r.run # 0
    BY <1>1, <2>3
  <2>5. history[c] \o <<r.run>> = Append(history[c], r.run)
    BY <1>1, <2>4
  <2> QED BY <1>1, <2>1, <2>2, <2>3, <2>4, <2>5
<1>3. CASE ~\E r \in pending[s] : r.config = c
  <2>1. RowOf(s, c) = 0 /\ HistoryWith(pending[s], c) = history[c] \o <<>>
    BY <1>3 DEF RowOf, HistoryWith
  <2>2. history[c] \o <<>> = history[c]
    BY <1>1
  <2> QED BY <1>1, <2>1, <2>2
<1> QED BY <1>2, <1>3

\* A commit is one transaction of the log.
LEMMA CommitImports ==
  ASSUME SInv, NEW s \in Syncers, Commit(s), UNCHANGED <<last, raced>>
  PROVE  \E rows \in [Configs -> 0..MaxRuns] : Log!Import(rows)
<1> DEFINE rows == [c \in Configs |-> RowOf(s, c)]
<1>1. rows \in [Configs -> 0..MaxRuns] /\ \A c \in Configs : rows[c] = RowOf(s, c)
  BY RowOfPending
<1> HIDE DEF rows
<1>2. ASSUME NEW c \in Configs, rows[c] # 0
      PROVE  /\ rows[c] <= last[c].run
             /\ ServerOf[c] \in raced \/ Log!Fresh(history[c], rows[c])
  <2>1. [config |-> c, run |-> rows[c]] \in pending[s]
    BY <1>1, <1>2, RowOfPending
  <2>2. PICK r \in pending[s] : r.config = c /\ r.run = rows[c]
    BY <2>1
  <2>3. rows[c] <= last[c].run
    BY <2>2 DEF SInv, Past
  <2>4. ServerOf[c] \notin raced => Follows(history[c], rows[c])
    BY <2>2 DEF SInv, PendingFits
  <2> QED BY <2>3, <2>4 DEF Follows, Log!Fresh
<1>3. history' = [c \in Configs |-> IF rows[c] = 0 THEN history[c] ELSE Append(history[c], rows[c])]
  <2>1. \A c \in Configs :
          HistoryWith(pending[s], c) = IF rows[c] = 0 THEN history[c] ELSE Append(history[c], rows[c])
    BY <1>1, RowOfPending
  <2> QED BY <2>1 DEF Commit
<1>4. Log!Import(rows)
  BY <1>1, <1>2, <1>3 DEF Log!Import
<1> QED BY <1>1, <1>4

\* A step of a syncer commits, or shows nothing.
LEMMA SyncStepShows ==
  ASSUME NEW s \in Syncers, SyncStep(s)
  PROVE  UNCHANGED <<last, raced>> /\ (Commit(s) \/ history' = history)
<1>1. CASE ListConfigs(s) \/ Finish(s) \/ EndRequest(s)
  BY <1>1 DEF ListConfigs, Finish, EndRequest
<1>2. CASE Judge(s)
  BY <1>2 DEF Judge
<1>3. CASE FailConnect(s) \/ LockedOut(s)
  BY <1>3 DEF FailConnect, LockedOut, Rollback
<1>4. CASE \E c \in todo[s] : PassOver(s, c) \/ Fetch(s, c)
  BY <1>4 DEF PassOver, Fetch
<1> QED BY <1>1, <1>2, <1>3, <1>4 DEF SyncStep

LEMMA BeginShows ==
  ASSUME NEW s \in Syncers, NEW v \in Servers, Begin(s, v)
  PROVE  \E S \in SUBSET Configs : Log!Contest(S)
<1>1. UNCHANGED <<last, history>> /\ (raced' = raced \/ raced' = raced \union {v})
  BY DEF Begin
<1>2. CASE raced' = raced
  <2>1. Log!Contest({})
    BY <1>1, <1>2 DEF Log!Contest
  <2> QED BY <2>1
<1>3. CASE raced' = raced \union {v}
  <2>1. Log!Contest(ConfigsOn(v))
    BY <1>1, <1>3 DEF Log!Contest, ConfigsOn
  <2> QED BY <2>1 DEF ConfigsOn
<1> QED BY <1>1, <1>2, <1>3

LEMMA SurroundingsShow ==
  ASSUME TypeOK, NEW c \in Configs, ScheduledRun(c) \/ ManualRow(c)
  PROVE  Log!Report(c) \/ Log!Manual(c)
<1>1. CASE ScheduledRun(c)
  <2>1. PICK k \in Kinds : last' = [last EXCEPT ![c] = [run |-> last[c].run + 1, kind |-> k]]
    BY <1>1 DEF ScheduledRun
  <2>2. [d \in Configs |-> last'[d].run] =
          [[d \in Configs |-> last[d].run] EXCEPT ![c] = last[c].run + 1]
    BY <2>1 DEF TypeOK
  <2> QED BY <1>1, <2>2 DEF ScheduledRun, Log!Report
<1>2. CASE ManualRow(c)
  BY <1>2 DEF ManualRow, Log!Manual
<1> QED BY <1>1, <1>2

\* Whatever fails on the way and whoever syncs at a time, what the panel's
\* history shows is a log of whole transactions that only grows: at most one
\* row per config in each, of a run that has reported, in the order of the
\* runs on every server that no two sessions have worked on at a time.
THEOREM ImplementsImportLog == Spec => ImportSpec
<1>1. Init => Log!Init
  BY DEF Init, Log!Init
<1>2. SInv /\ [Next]_vars => [Log!Next]_(Log!vars)
  <2> SUFFICES ASSUME SInv, [Next]_vars PROVE Log!Next \/ UNCHANGED Log!vars
    OBVIOUS
  <2>0. TypeOK /\ "loop" \in Syncers /\ Clicks \subseteq Syncers
    BY DEF SInv, Syncers
  <2>1. ASSUME NEW c \in Configs, ScheduledRun(c) \/ ManualRow(c) PROVE Log!Next
    BY <2>0, <2>1, SurroundingsShow DEF Log!Next
  <2>2. ASSUME NEW s \in Syncers, NEW v \in Servers, Begin(s, v) PROVE Log!Next
    BY <2>2, BeginShows DEF Log!Next
  <2>3. ASSUME NEW s \in Syncers, SyncStep(s) PROVE Log!Next \/ UNCHANGED Log!vars
    <3>1. UNCHANGED <<last, raced>> /\ (Commit(s) \/ history' = history)
      BY <2>3, SyncStepShows
    <3>2. CASE Commit(s)
      <4>1. \E rows \in [Configs -> 0..MaxRuns] : Log!Import(rows)
        BY <3>1, <3>2, CommitImports
      <4> QED BY <4>1 DEF Log!Next
    <3>3. CASE history' = history
      BY <3>1, <3>3, NotShown
    <3> QED BY <3>1, <3>2, <3>3
  <2>4. CASE NextServer \/ EndCycle
    <3>1. UNCHANGED <<last, history, raced>>
      BY <2>4 DEF NextServer, EndCycle, Rollback
    <3> QED BY <3>1, NotShown
  <2>5. ASSUME UNCHANGED vars \/ \E s \in Syncers : Hang(s) PROVE UNCHANGED Log!vars
    BY <2>5, NotShown DEF vars, Hang
  <2>6. CASE LoopStep
    BY <2>0, <2>2, <2>3, <2>4, <2>6 DEF LoopStep
  <2> QED BY <2>0, <2>1, <2>2, <2>3, <2>5, <2>6 DEF Next
<1> QED BY <1>1, <1>2, SyncInvariant, PTL DEF Spec, ImportSpec, Log!Spec

-----------------------------------------------------------------------------
(***************************************************************************)
(* The write lock and the ways of a syncer                                 *)
(***************************************************************************)

\* The lock is that of a session with uncommitted rows, and a click that has
\* such rows is still at work.
HolderFits(s) ==
  /\ lock = s => pending[s] # {}
  /\ s \in Clicks /\ pending[s] # {} => state[s] \in {"walking", "judging", "closing"}

\* The write lock is never orphaned: whoever has it has rows to commit and a
\* step left that commits or undoes them (once it is out of its SSH call).
LockHasHolder ==
  lock # "nobody" =>
    /\ pending[lock] # {}
    /\ lock \in Clicks => state[lock] \in {"walking", "judging", "closing"}

\* Nobody's step touches the rows of another session, or the lock it holds.
Keeps(t) == pending'[t] = pending[t] /\ state'[t] = state[t] /\ (lock' = t => lock = t)

LEMMA KeepsHolder ==
  ASSUME NEW t \in Syncers, HolderFits(t), Keeps(t)
  PROVE  HolderFits(t)'
BY DEF HolderFits, Keeps

LEMMA CommitOwn ==
  ASSUME TypeOK, NEW s \in Syncers, Commit(s)
  PROVE  /\ pending'[s] = {} /\ lock' = "nobody"
         /\ \A t \in Syncers \ {s} : pending'[t] = pending[t]
BY DEF Commit, TypeOK

LEMMA SyncStepHolds ==
  ASSUME Fit, NEW s \in Syncers, HolderFits(s), SyncStep(s)
  PROVE  HolderFits(s)' /\ \A t \in Syncers \ {s} : Keeps(t)
<1> USE DEF Fit, HolderFits, Keeps
<1>0. "nobody" \notin Syncers
  BY LoopAssumption DEF Syncers
<1>1. CASE ListConfigs(s)
  <2>1. state' = [state EXCEPT ![s] = "walking"]
    BY <1>1 DEF ListConfigs
  <2> QED BY <1>0, <1>1, <2>1, CommitOwn DEF ListConfigs, TypeOK
<1>2. CASE Judge(s)
  <2> DEFINE row == [config |-> held[s].config, run |-> held[s].report.run]
  <2>1. /\ lock' = IF pending[s] # {} THEN s ELSE lock
        /\ state' = [state EXCEPT ![s] = "walking"] \/ state' = [state EXCEPT ![s] = "closing"]
        /\ pending' = pending \/ pending' = [pending EXCEPT ![s] = @ \union {row}]
    BY <1>2 DEF Judge, Continue, Close
  <2>2. /\ state'[s] \in {"walking", "closing"}
        /\ pending'[s] = pending[s] \/ pending'[s] = pending[s] \union {row}
        /\ \A t \in Syncers \ {s} : pending'[t] = pending[t] /\ state'[t] = state[t]
    BY <2>1 DEF TypeOK
  <2> HIDE DEF row
  <2> QED BY <1>0, <2>1, <2>2
<1>3. CASE Finish(s)
  <2>1. state' = [state EXCEPT ![s] = "closing"] /\ (Commit(s) \/ UNCHANGED <<pending, lock>>)
    BY <1>3 DEF Finish, Close
  <2> QED BY <1>0, <2>1, CommitOwn DEF TypeOK
<1>4. CASE FailConnect(s)
  <2>1. state' = [state EXCEPT ![s] = "closing"] /\ UNCHANGED <<pending, lock>>
    BY <1>4 DEF FailConnect, Close
  <2> QED BY <2>1 DEF TypeOK
<1>5. CASE LockedOut(s)
  <2>1. /\ \E next \in {"idle", "spent"} : state' = [state EXCEPT ![s] = next]
        /\ pending' = [pending EXCEPT ![s] = {}] /\ lock' = lock /\ lock # s
    BY <1>0, <1>5 DEF LockedOut, Leave, Rollback, MayWrite
  <2> QED BY <2>1 DEF TypeOK
<1>6. CASE EndRequest(s)
  <2>1. state' = [state EXCEPT ![s] = "spent"] /\ s \in Clicks
    BY <1>6 DEF EndRequest, Leave
  <2>2. CASE Commit(s)
    BY <1>0, <2>1, <2>2, CommitOwn DEF TypeOK
  <2>3. CASE pending[s] = {} /\ UNCHANGED <<pending, lock>>
    BY <2>1, <2>3 DEF TypeOK
  <2> QED BY <1>6, <2>2, <2>3 DEF EndRequest
<1>7. CASE \E c \in todo[s] : PassOver(s, c) \/ Fetch(s, c)
  <2>1. /\ state[s] = "walking" /\ UNCHANGED <<pending, lock>>
        /\ state' = state \/ state' = [state EXCEPT ![s] = "judging"]
    BY <1>7 DEF PassOver, Fetch
  <2> QED BY <2>1 DEF TypeOK
<1> QED BY <1>1, <1>2, <1>3, <1>4, <1>5, <1>6, <1>7 DEF SyncStep

LEMMA OtherStepHolds ==
  ASSUME Fit, \A t \in Syncers : HolderFits(t),
         \/ \E c \in Configs : ScheduledRun(c) \/ ManualRow(c)
         \/ \E s \in Syncers, v \in Servers : Begin(s, v)
         \/ NextServer \/ EndCycle
  PROVE  \A t \in Syncers : HolderFits(t)'
<1> USE DEF Fit, HolderFits
<1>0. "loop" \in Syncers \ Clicks /\ "nobody" \notin Syncers
  BY LoopAssumption DEF Syncers
<1>1. CASE \E c \in Configs : ScheduledRun(c) \/ ManualRow(c)
  BY <1>1 DEF ScheduledRun, ManualRow
<1>2. ASSUME NEW s \in Syncers, NEW v \in Servers, Begin(s, v)
      PROVE  \A t \in Syncers : HolderFits(t)'
  <2>1. state[s] = "idle" /\ state' = [state EXCEPT ![s] = "connecting"] /\ UNCHANGED <<pending, lock>>
    BY <1>2 DEF Begin
  <2> QED BY <2>1 DEF TypeOK
<1>3. CASE NextServer
  <2>1. state' = [state EXCEPT !["loop"] = "idle"] /\ UNCHANGED <<pending, lock>>
    BY <1>3 DEF NextServer, Leave
  <2> QED BY <1>0, <2>1 DEF TypeOK
<1>4. CASE EndCycle
  <2>1. /\ UNCHANGED state /\ pending' = [pending EXCEPT !["loop"] = {}]
        /\ lock' = IF lock = "loop" THEN "nobody" ELSE lock
    BY <1>4 DEF EndCycle, Rollback
  <2> QED BY <1>0, <2>1 DEF TypeOK
<1> QED BY <1>1, <1>2, <1>3, <1>4

\* A syncer cannot keep the lock beyond its rows, through failed syncs,
\* lock-outs of others and the end of a request.
THEOREM LockNeverOrphaned == Spec => []LockHasHolder
<1> DEFINE LInv == SInv /\ \A s \in Syncers : HolderFits(s)
<1>1. Init => LInv
  <2>1. Init => \A s \in Syncers : HolderFits(s)
    BY LoopAssumption DEF Init, HolderFits, Syncers
  <2> QED BY <2>1, InitInv
<1>2. LInv /\ [Next]_vars => LInv'
  <2> SUFFICES ASSUME SInv, \A s \in Syncers : HolderFits(s), [Next]_vars
               PROVE  \A s \in Syncers : HolderFits(s)'
    BY StepInv
  <2>0. Fit /\ Clicks \subseteq Syncers /\ "loop" \in Syncers
    BY DEF SInv, Fit, Syncers
  <2>1. ASSUME NEW s \in Syncers, SyncStep(s) PROVE \A t \in Syncers : HolderFits(t)'
    <3>1. HolderFits(s)' /\ \A t \in Syncers \ {s} : Keeps(t)
      BY <2>0, <2>1, SyncStepHolds
    <3> QED BY <3>1, KeepsHolder
  <2>2. ASSUME UNCHANGED vars \/ \E s \in Syncers : Hang(s) PROVE \A s \in Syncers : HolderFits(s)'
    BY <2>2 DEF vars, Hang, HolderFits
  <2>3. CASE LoopStep
    BY <2>0, <2>1, <2>3, OtherStepHolds DEF LoopStep
  <2> QED BY <2>0, <2>1, <2>2, <2>3, OtherStepHolds DEF Next
<1>3. LInv => LockHasHolder
  BY DEF SInv, TypeOK, HolderFits, LockHasHolder
<1> QED BY <1>1, <1>2, <1>3, PTL DEF Spec

\* A run has two rows only where two sessions synced its server at a time or a
\* manual run has hidden the first row: the one way a loop that is alone on a
\* server can import a run twice.
DuplicateHasACause ==
  \A c \in Configs : \A i, j \in DOMAIN history[c] :
    i < j /\ history[c][i] = history[c][j] /\ history[c][i] # 0 =>
      ServerOf[c] \in raced \/ \E k \in i..j : history[c][k] = 0

\* What HistoryFollowsRuns leaves of the docstring's "dedupes by run_id": the
\* causes of the duplicates that NoDuplicateImport meets, and no others.
COROLLARY DuplicatesExplained == Spec => []DuplicateHasACause
<1>1. SInv => DuplicateHasACause
  <2> SUFFICES ASSUME SInv, NEW c \in Configs, NEW i \in DOMAIN history[c],
                      NEW j \in DOMAIN history[c], i < j, ServerOf[c] \notin raced,
                      history[c][i] = history[c][j], history[c][i] # 0
               PROVE  \E k \in i..j : history[c][k] = 0
    BY DEF DuplicateHasACause
  <2>1. history[c] \in Seq(Nat)
    BY Numbers DEF SInv
  <2>2. history[c][i] \in Nat
    BY <2>1
  <2>3. \/ history[c][i] < history[c][j]
        \/ history[c][i] = history[c][j] /\ \E k \in i..j : history[c][k] = 0
    BY DEF SInv, HistoryFollowsRuns
  <2> QED BY <2>2, <2>3
<1> QED BY <1>1, SyncInvariant, PTL

-----------------------------------------------------------------------------
\* How many steps of its own a syncer is from the end of its server.
Work(s) ==
  CASE state[s] = "connecting" -> 2 * Cardinality(Configs) + 4
    [] state[s] = "walking" -> 2 * Cardinality(todo[s]) + 2
    [] state[s] = "judging" -> 2 * Cardinality(todo[s]) + 3
    [] state[s] = "closing" -> 1
    [] OTHER -> 0

\* Every step of a syncer brings it nearer to the end of its server, and
\* nothing else takes it back: only an idle one begins, a click once and the
\* loop with a server it has not visited in this cycle.
SyncsMoveOn ==
  [][\A s \in Syncers :
       /\ SyncStep(s) \/ (s = "loop" /\ NextServer) => Work(s)' < Work(s)
       /\ Work(s)' > Work(s) =>
            /\ state[s] = "idle" /\ state'[s] = "connecting"
            /\ s = "loop" => left' \subseteq left /\ left' # left
       /\ state[s] = "spent" => state'[s] = "spent"
       /\ s # "loop" /\ state'[s] = "idle" => state[s] = "idle"]_vars

LEMMA TodoCounted ==
  ASSUME TypeOK, NEW s \in Syncers
  PROVE  /\ Cardinality(todo[s]) \in Nat /\ Cardinality(Configs) \in Nat
         /\ \A v \in Servers : /\ Cardinality(ConfigsOn(v)) \in Nat
                               /\ Cardinality(ConfigsOn(v)) <= Cardinality(Configs)
         /\ \A c \in todo[s] : Cardinality(todo[s] \ {c}) = Cardinality(todo[s]) - 1
         /\ Work(s) \in Nat
<1>1. IsFiniteSet(Configs) /\ IsFiniteSet(todo[s])
  BY ServerAssumption, FS_Subset DEF TypeOK
<1>2. Cardinality(todo[s]) \in Nat /\ Cardinality(Configs) \in Nat
  BY <1>1, FS_CardinalityType
<1>3. \A v \in Servers : IsFiniteSet(ConfigsOn(v)) /\ Cardinality(ConfigsOn(v)) <= Cardinality(Configs)
  BY <1>1, FS_Subset DEF ConfigsOn
<1>4. \A v \in Servers : Cardinality(ConfigsOn(v)) \in Nat
  BY <1>3, FS_CardinalityType
<1>5. \A c \in todo[s] : Cardinality(todo[s] \ {c}) = Cardinality(todo[s]) - 1
  BY <1>1, FS_RemoveElement
<1>6. Work(s) \in Nat
  BY <1>2 DEF Work
<1> QED BY <1>2, <1>3, <1>4, <1>5, <1>6

LEMMA SyncStepNearer ==
  ASSUME Fit, NEW s \in Syncers, SyncStep(s) \/ (s = "loop" /\ NextServer)
  PROVE  /\ Work(s)' < Work(s) /\ state[s] \notin {"idle", "spent"}
         /\ s # "loop" => state'[s] # "idle"
         /\ \A t \in Syncers \ {s} : state'[t] = state[t] /\ todo'[t] = todo[t]
<1> USE DEF Fit
<1>0. /\ Cardinality(todo[s]) \in Nat /\ Cardinality(Configs) \in Nat
      /\ \A c \in todo[s] : Cardinality(todo[s] \ {c}) = Cardinality(todo[s]) - 1
  BY TodoCounted
<1>1. CASE ListConfigs(s)
  <2>1. /\ state[s] = "connecting" /\ state'[s] = "walking" /\ todo'[s] = ConfigsOn(server[s])
        /\ \A t \in Syncers \ {s} : state'[t] = state[t] /\ todo'[t] = todo[t]
    BY <1>1 DEF ListConfigs, TypeOK
  <2>2. server[s] \in Servers
    BY DEF TypeOK
  <2>3. Cardinality(todo'[s]) \in Nat /\ Cardinality(todo'[s]) <= Cardinality(Configs)
    BY <2>1, <2>2, TodoCounted
  <2>4. Work(s) = 2 * Cardinality(Configs) + 4 /\ Work(s)' = 2 * Cardinality(todo'[s]) + 2
    BY <2>1 DEF Work
  <2> QED BY <1>0, <2>1, <2>3, <2>4
<1>2. CASE Judge(s)
  <2>1. state[s] = "judging"
    BY <1>2 DEF Judge
  <2>2. CASE Continue(s, FALSE) \/ Continue(s, TRUE)
    <3>1. state'[s] = "walking" /\ todo' = todo /\ \A t \in Syncers \ {s} : state'[t] = state[t]
      BY <2>2 DEF Continue, TypeOK
    <3>2. Work(s) = 2 * Cardinality(todo[s]) + 3 /\ Work(s)' = 2 * Cardinality(todo[s]) + 2
      BY <2>1, <3>1 DEF Work
    <3> QED BY <1>0, <2>1, <3>1, <3>2
  <2>3. CASE Close(s)
    <3>1. /\ state'[s] = "closing"
          /\ \A t \in Syncers \ {s} : state'[t] = state[t] /\ todo'[t] = todo[t]
      BY <2>3 DEF Close, TypeOK
    <3>2. Work(s) = 2 * Cardinality(todo[s]) + 3 /\ Work(s)' = 1
      BY <2>1, <3>1 DEF Work
    <3> QED BY <1>0, <2>1, <3>1, <3>2
  <2> QED BY <1>2, <2>2, <2>3 DEF Judge
<1>3. CASE Finish(s) \/ FailConnect(s)
  <2>1. /\ state[s] \in {"walking", "connecting"} /\ state'[s] = "closing"
        /\ \A t \in Syncers \ {s} : state'[t] = state[t] /\ todo'[t] = todo[t]
    BY <1>3 DEF Finish, FailConnect, Close, TypeOK
  <2>2. Work(s)' = 1 /\ Work(s) \in {2 * Cardinality(todo[s]) + 2, 2 * Cardinality(Configs) + 4}
    BY <2>1 DEF Work
  <2> QED BY <1>0, <2>1, <2>2
<1>4. CASE LockedOut(s) \/ EndRequest(s) \/ (s = "loop" /\ NextServer)
  <2>1. /\ state[s] \in {"walking", "judging", "closing"} /\ state'[s] \in {"idle", "spent"}
        /\ s # "loop" => state'[s] = "spent"
        /\ \A t \in Syncers \ {s} : state'[t] = state[t] /\ todo'[t] = todo[t]
    BY <1>4 DEF LockedOut, EndRequest, NextServer, Leave, TypeOK
  <2>2. Work(s)' = 0
    BY <2>1 DEF Work
  <2>3. Work(s) \in {2 * Cardinality(todo[s]) + 2, 2 * Cardinality(todo[s]) + 3, 1}
    BY <2>1 DEF Work
  <2> QED BY <1>0, <2>1, <2>2, <2>3
<1>5. ASSUME NEW c \in todo[s], PassOver(s, c) \/ Fetch(s, c)
      PROVE  /\ Work(s)' < Work(s) /\ state[s] = "walking" /\ state'[s] \in {"walking", "judging"}
             /\ \A t \in Syncers \ {s} : state'[t] = state[t] /\ todo'[t] = todo[t]
  <2>1. /\ state[s] = "walking" /\ state'[s] \in {"walking", "judging"}
        /\ todo'[s] = todo[s] \ {c}
        /\ \A t \in Syncers \ {s} : state'[t] = state[t] /\ todo'[t] = todo[t]
    BY <1>5 DEF PassOver, Fetch, TypeOK
  <2>2. Cardinality(todo'[s]) = Cardinality(todo[s]) - 1
    BY <1>0, <2>1
  <2>3. Work(s) = 2 * Cardinality(todo[s]) + 2
        /\ Work(s)' \in {2 * Cardinality(todo'[s]) + 2, 2 * Cardinality(todo'[s]) + 3}
    BY <2>1 DEF Work
  <2> QED BY <1>0, <2>1, <2>2, <2>3
<1> QED BY <1>1, <1>2, <1>3, <1>4, <1>5 DEF SyncStep

\* A sync of a server takes at most 2|Configs| + 5 steps, whatever fails in it
\* and whoever holds the lock, and it is not repeated but by a new cycle or a
\* new click.
THEOREM SyncsAreFinite == Spec => SyncsMoveOn
<1> DEFINE On(s) ==
      /\ SyncStep(s) \/ (s = "loop" /\ NextServer) => Work(s)' < Work(s)
      /\ Work(s)' > Work(s) =>
           /\ state[s] = "idle" /\ state'[s] = "connecting"
           /\ s = "loop" => left' \subseteq left /\ left' # left
      /\ state[s] = "spent" => state'[s] = "spent"
      /\ s # "loop" /\ state'[s] = "idle" => state[s] = "idle"
<1>1. SInv /\ [Next]_vars => [\A s \in Syncers : On(s)]_vars
  <2> SUFFICES ASSUME SInv, Next, NEW s \in Syncers PROVE On(s)
    OBVIOUS
  <2>0. Fit /\ "loop" \in Syncers /\ Clicks \subseteq Syncers /\ Work(s) \in Nat
    BY TodoCounted DEF SInv, Fit, Syncers
  <2>1. Work(s)' \in Nat
    <3>1. todo'[s] \in SUBSET Configs
      BY <2>0, EveryStepAdvances DEF TypeOK
    <3>2. Cardinality(todo'[s]) \in Nat /\ Cardinality(Configs) \in Nat
      BY <3>1, ServerAssumption, FS_Subset, FS_CardinalityType
    <3> QED BY <3>2 DEF Work
  <2> DEFINE Own == SyncStep(s) \/ (s = "loop" /\ NextServer)
  <2>2. CASE Own
    <3>1. /\ Work(s)' < Work(s) /\ state[s] \notin {"idle", "spent"}
          /\ s # "loop" => state'[s] # "idle"
      BY <2>0, <2>2, SyncStepNearer
    <3> QED BY <2>0, <2>1, <3>1
  <2>3. ASSUME ~Own, state'[s] = state[s], todo'[s] = todo[s] PROVE On(s)
    <3>1. Work(s)' = Work(s)
      BY <2>3 DEF Work
    <3> QED BY <2>0, <2>3, <3>1
  <2>4. ASSUME ~Own, NEW t \in Syncers, SyncStep(t) \/ (t = "loop" /\ NextServer) PROVE On(s)
    <3>1. state'[s] = state[s] /\ todo'[s] = todo[s]
      BY <2>0, <2>4, SyncStepNearer
    <3> QED BY <2>3, <2>4, <3>1
  <2>5. ASSUME ~Own, NEW t \in Syncers, NEW v \in Servers, Begin(t, v) PROVE On(s)
    <3>1. CASE t # s
      <4>1. state'[s] = state[s] /\ todo'[s] = todo[s]
        BY <2>5, <3>1 DEF Begin
      <4> QED BY <2>3, <2>5, <4>1
    <3>2. CASE t = s
      <4>1. state[s] = "idle" /\ state'[s] = "connecting"
        BY <2>0, <2>5, <3>2 DEF Begin, Fit, TypeOK
      <4>2. s = "loop" => left' = left \ {v} /\ v \in left
        BY <2>5, <3>2 DEF Begin, NextOf
      <4> QED BY <2>5, <4>1, <4>2
    <3> QED BY <3>1, <3>2
  <2>6. ASSUME ~Own, \/ \E c \in Configs : ScheduledRun(c) \/ ManualRow(c)
                     \/ EndCycle \/ \E t \in Syncers : Hang(t)
        PROVE  On(s)
    <3>1. state'[s] = state[s] /\ todo'[s] = todo[s]
      BY <2>6 DEF ScheduledRun, ManualRow, EndCycle, Hang
    <3> QED BY <2>3, <2>6, <3>1
  <2> HIDE DEF On
  <2> QED BY <2>0, <2>2, <2>4, <2>5, <2>6 DEF Next, LoopStep
<1> QED BY <1>1, SyncInvariant, PTL DEF Spec, SyncsMoveOn
=============================================================================
