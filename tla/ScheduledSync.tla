----------------------------- MODULE ScheduledSync -----------------------------
(***************************************************************************)
(* How scheduled runs reach the panel's history.  On each server the       *)
(* scheduled script overwrites last_report.json of its config; the panel's *)
(* sync loop and the sync buttons walk those files and add a history row   *)
(* for each report they take to be new.                                    *)
(*                                                                         *)
(* A step is what a syncer does between two awaits.  A syncer is the loop  *)
(* (one database session per cycle, all servers) or the request behind one *)
(* click (its own session, one server).  SQLite's write lock is modelled:  *)
(* a session holds it from its first flush to its commit or rollback.      *)
(***************************************************************************)
EXTENDS Naturals, Sequences, FiniteSets

CONSTANTS
  Servers,    \* servers with SSH credentials
  Configs,    \* backup configs whose schedule is installed, of any server
  ServerOf,   \* ServerOf[c]: the server c is on
  Clicks,     \* clicks on a sync button
  MaxRuns,    \* bound: scheduled runs of all configs
  MaxManual,  \* bound: manual rows of all configs
  MaxFaults   \* bound: SSH calls that fail or never return

ASSUME ServerAssumption ==
  /\ ServerOf \in [Configs -> Servers]
  /\ IsFiniteSet(Configs) /\ Configs # {}

ASSUME LoopAssumption == "loop" \notin Clicks /\ "nobody" \notin Clicks

ASSUME SyncBoundsAssumption ==
  MaxRuns \in Nat /\ MaxManual \in Nat /\ MaxFaults \in Nat

VARIABLES
  last,     \* last[c]: the report on c's server; run 0: there is none yet
  history,  \* history[c]: run of each committed row by id; 0 is a manual row
  state,    \* state[s]: where syncer s is
  server,   \* server[s]: the server it is on
  todo,     \* todo[s]: the config directories it has yet to look at
  held,     \* held[s]: the report it has fetched, of which config
  pending,  \* pending[s]: rows added to its session and not committed
  created,  \* created[s]: whether this server's sync added one
  left,     \* the servers the loop has yet to visit in this cycle
  lock,     \* the session that holds the write lock, or "nobody"
  raced,    \* servers that two sessions have worked on at a time
  hung,     \* the syncers in an SSH call that never returns
  faults    \* SSH calls that have failed or will never return

vars == <<last, history, state, server, todo, held, pending, created, left, lock, raced, faults, hung>>

Syncers == {"loop"} \union Clicks

\* What sync makes of a report: importable, without run_id, or a TypeError when
\* the errors of its failed destinations are joined (BackupScript's Raises).
Kinds   == {"good", "noid", "poison"}
Reports == [run : 0..MaxRuns, kind : Kinds]
Row     == [config : Configs, run : 1..MaxRuns]

ConfigsOn(v) == {c \in Configs : ServerOf[c] = v}

TypeOK ==
  /\ last \in [Configs -> Reports]
  /\ history \in [Configs -> Seq(0..MaxRuns)]
  /\ state \in [Syncers -> {"idle", "connecting", "walking", "judging", "closing", "spent"}]
  /\ server \in [Syncers -> Servers]
  /\ todo \in [Syncers -> SUBSET Configs]
  /\ held \in [Syncers -> [config : Configs, report : Reports]]
  /\ pending \in [Syncers -> SUBSET Row]
  /\ created \in [Syncers -> BOOLEAN]
  /\ left \subseteq Servers
  /\ lock \in Syncers \union {"nobody"}
  /\ raced \subseteq Servers
  /\ hung \subseteq Syncers
  /\ faults \in 0..MaxFaults

\* Servers and directories are visited in an order that does not change.
NextOf(S) == CHOOSE x \in S : TRUE

NoHold == [config |-> NextOf(Configs), report |-> [run |-> 0, kind |-> "good"]]

Init ==
  /\ last = [c \in Configs |-> [run |-> 0, kind |-> "good"]]
  /\ history = [c \in Configs |-> <<>>]
  /\ state = [s \in Syncers |-> "idle"]
  /\ server = [s \in Syncers |-> NextOf(Servers)]
  /\ todo = [s \in Syncers |-> {}]
  /\ held = [s \in Syncers |-> NoHold]
  /\ pending = [s \in Syncers |-> {}]
  /\ created = [s \in Syncers |-> FALSE]
  /\ left = Servers
  /\ lock = "nobody"
  /\ raced = {}
  /\ hung = {}
  /\ faults = 0

-----------------------------------------------------------------------------
(***************************************************************************)
(* The surroundings                                                        *)
(***************************************************************************)

\* The scheduled task of c runs and overwrites last_report.json.
ScheduledRun(c) ==
  /\ Cardinality(UNION {{d} \X (1..last[d].run) : d \in Configs}) < MaxRuns
  /\ \E k \in Kinds : last' = [last EXCEPT ![c] = [run |-> @.run + 1, kind |-> k]]
  /\ UNCHANGED <<history, state, server, todo, held, pending, created, left, lock, raced, faults, hung>>

\* "Run now" inserts a row of its own, without a run_id.
ManualRow(c) ==
  /\ lock = "nobody"
  /\ Cardinality(UNION {{d} \X {i \in DOMAIN history[d] : history[d][i] = 0} : d \in Configs}) < MaxManual
  /\ history' = [history EXCEPT ![c] = Append(@, 0)]
  /\ UNCHANGED <<last, state, server, todo, held, pending, created, left, lock, raced, faults, hung>>

-----------------------------------------------------------------------------
(***************************************************************************)
(* A sync of one server                                                    *)
(***************************************************************************)

MayWrite(s) == lock \in {"nobody", s}

\* Mutant of HistoryWith: the row of the new report replaces the latest one.
HistoryUpdated(rows, c) ==
  IF \E r \in rows : r.config = c
    THEN SubSeq(history[c], 1, Len(history[c]) - 1) \o <<(CHOOSE r \in rows : r.config = c).run>>
    ELSE history[c]

\* What a commit of s leaves in c's history.
HistoryWith(rows, c) ==
  history[c] \o (IF \E r \in rows : r.config = c
                   THEN <<(CHOOSE r \in rows : r.config = c).run>>
                   ELSE <<>>)

Commit(s) ==
  /\ MayWrite(s)
  /\ history' = [c \in Configs |-> HistoryWith(pending[s], c)]
  /\ pending' = [pending EXCEPT ![s] = {}]
  /\ lock' = "nobody"

\* The session's transaction is undone and its lock, if it has it, released.
Rollback(s) ==
  /\ pending' = [pending EXCEPT ![s] = {}]
  /\ lock' = IF lock = s THEN "nobody" ELSE lock
  /\ UNCHANGED history

\* s is in the middle of a sync of server v, or has uncommitted rows of it.
Engaged(s, v) ==
  \/ state[s] \in {"connecting", "walking", "judging", "closing"} /\ server[s] = v
  \/ \E r \in pending[s] : ServerOf[r.config] = v

\* The loop goes to the next server, a click to its own.
Begin(s, v) ==
  /\ state[s] = "idle"
  /\ s = "loop" => left # {} /\ v = NextOf(left)
  /\ left' = IF s = "loop" THEN left \ {v} ELSE left
  /\ state' = [state EXCEPT ![s] = "connecting"]
  /\ server' = [server EXCEPT ![s] = v]
  /\ raced' = IF \E t \in Syncers \ {s} : Engaged(t, v) THEN raced \union {v} ELSE raced
  /\ UNCHANGED <<last, history, todo, held, pending, created, lock, faults, hung>>

\* A call on the server does not return, listing the directories (execute waits
\* in recv_exit_status) or reading a report over SFTP: neither has a deadline.
\* The session stays as it is, with its rows and its lock.
Hang(s) ==
  /\ s \notin hung
  /\ state[s] = "connecting" \/ (state[s] = "walking" /\ todo[s] # {})
  /\ faults < MaxFaults
  /\ faults' = faults + 1
  /\ hung' = hung \union {s}
  /\ UNCHANGED <<last, history, state, server, todo, held, pending, created, left, lock, raced>>

\* A host key learned on connecting is committed, and with it whatever an
\* earlier server's failed sync left in the session.
ListConfigs(s) ==
  /\ state[s] = "connecting"
  /\ s \notin hung
  /\ state' = [state EXCEPT ![s] = "walking"]
  /\ todo' = [todo EXCEPT ![s] = ConfigsOn(server[s])]
  /\ created' = [created EXCEPT ![s] = FALSE]
  /\ \/ pending[s] # {} /\ Commit(s)
     \/ UNCHANGED <<history, pending, lock>>
  /\ UNCHANGED <<last, server, held, left, raced, faults, hung>>

\* The sync of this server ends, by return or by exception.
Close(s) ==
  /\ state' = [state EXCEPT ![s] = "closing"]
  /\ todo' = [todo EXCEPT ![s] = {}]
  /\ created' = [created EXCEPT ![s] = FALSE]

Continue(s, added) ==
  /\ state' = [state EXCEPT ![s] = "walking"]
  /\ created' = [created EXCEPT ![s] = @ \/ added]
  /\ UNCHANGED todo

\* No report yet, one without run_id, or a fetch that fails: the next one.
PassOver(s, c) ==
  /\ state[s] = "walking"
  /\ s \notin hung
  /\ \/ (last[c].run = 0 \/ last[c].kind = "noid") /\ UNCHANGED faults
     \/ faults < MaxFaults /\ faults' = faults + 1
  /\ todo' = [todo EXCEPT ![s] = @ \ {c}]
  /\ UNCHANGED <<last, history, state, server, held, pending, created, left, lock, raced, hung>>

\* Mutant of Fetch: a config without a report is taken to have an empty one.
FetchAny(s, c) ==
  /\ state[s] = "walking"
  /\ s \notin hung
  /\ last[c].kind # "noid"
  /\ todo' = [todo EXCEPT ![s] = @ \ {c}]
  /\ held' = [held EXCEPT ![s] = [config |-> c, report |-> last[c]]]
  /\ state' = [state EXCEPT ![s] = "judging"]
  /\ UNCHANGED <<last, history, server, pending, created, left, lock, raced, faults, hung>>

Fetch(s, c) ==
  /\ state[s] = "walking"
  /\ s \notin hung
  /\ last[c].run > 0 /\ last[c].kind # "noid"
  /\ todo' = [todo EXCEPT ![s] = @ \ {c}]
  /\ held' = [held EXCEPT ![s] = [config |-> c, report |-> last[c]]]
  /\ state' = [state EXCEPT ![s] = "judging"]
  /\ UNCHANGED <<last, history, server, pending, created, left, lock, raced, faults, hung>>

\* Mutant of Known: the report is compared with the first row of the config.
KnownFirst(c, run) == history[c] # <<>> /\ history[c][1] = run

\* The latest row of the config has this run_id.
Known(c, run) == history[c] # <<>> /\ history[c][Len(history[c])] = run

\* The query for the latest row, which first flushes the rows added so far (and
\* so takes the write lock), the comparison, and the new row.
Judge(s) ==
  LET c == held[s].config
      run == held[s].report.run
  IN
  /\ state[s] = "judging"
  /\ pending[s] # {} => MayWrite(s)
  /\ lock' = IF pending[s] # {} THEN s ELSE lock
  /\ IF Known(c, run)
       THEN Continue(s, FALSE) /\ UNCHANGED pending
     ELSE IF held[s].report.kind = "poison"
       THEN Close(s) /\ UNCHANGED pending
       ELSE /\ Continue(s, TRUE)
            /\ pending' = [pending EXCEPT ![s] = @ \union {[config |-> c, run |-> run]}]
  /\ held' = [held EXCEPT ![s] = NoHold]
  /\ UNCHANGED <<last, history, server, left, raced, faults, hung>>

\* The walk is over: commit if this server's sync added a row.
Finish(s) ==
  /\ state[s] = "walking"
  /\ todo[s] = {}
  /\ IF created[s] THEN Commit(s) ELSE UNCHANGED <<history, pending, lock>>
  /\ Close(s)
  /\ UNCHANGED <<last, server, held, left, raced, faults, hung>>

\* Mutant of FailConnect: the loop does not catch the error and dies.
FailConnectEscapes(s) ==
  /\ state[s] = "connecting"
  /\ s \notin hung
  /\ faults < MaxFaults
  /\ faults' = faults + 1
  /\ state' = [state EXCEPT ![s] = "spent"]
  /\ UNCHANGED <<last, history, server, todo, held, pending, created, left, lock, raced, hung>>

\* Connecting or listing fails.
FailConnect(s) ==
  /\ state[s] = "connecting"
  /\ s \notin hung
  /\ faults < MaxFaults
  /\ faults' = faults + 1
  /\ Close(s)
  /\ UNCHANGED <<last, history, server, held, pending, left, lock, raced, hung>>

\* s is done with its server.
Leave(s, next) ==
  /\ state' = [state EXCEPT ![s] = next]
  /\ server' = [server EXCEPT ![s] = NextOf(Servers)]
  /\ todo' = [todo EXCEPT ![s] = {}]
  /\ held' = [held EXCEPT ![s] = NoHold]
  /\ created' = [created EXCEPT ![s] = FALSE]

\* "database is locked": the flush or the commit's flush fails, the session is
\* of no more use.
LockedOut(s) ==
  /\ ~MayWrite(s)
  /\ pending[s] # {}
  /\ \/ state[s] = "judging"
     \/ state[s] = "walking" /\ todo[s] = {} /\ created[s]
  /\ Rollback(s)
  /\ Leave(s, IF s = "loop" THEN "idle" ELSE "spent")
  /\ left' = IF s = "loop" THEN {} ELSE left
  /\ UNCHANGED <<last, raced, faults, hung>>

\* The button's handler has caught any exception, so get_db commits.
EndRequest(s) ==
  /\ s \in Clicks
  /\ state[s] = "closing"
  /\ Leave(s, "spent")
  /\ IF pending[s] # {} THEN Commit(s) ELSE UNCHANGED <<history, pending, lock>>
  /\ UNCHANGED <<last, left, raced, faults, hung>>

-----------------------------------------------------------------------------
(***************************************************************************)
(* The sync loop                                                           *)
(***************************************************************************)

\* An exception is logged; the loop goes on to the next server with the same
\* session, the rows it holds and their lock.
NextServer ==
  /\ state["loop"] = "closing"
  /\ Leave("loop", "idle")
  /\ UNCHANGED <<last, history, pending, left, lock, raced, faults, hung>>

\* Mutant of EndCycle: the session outlives the cycle.
EndCycleKeepSession ==
  /\ state["loop"] = "idle"
  /\ left = {}
  /\ left' = Servers
  /\ UNCHANGED <<last, history, state, server, todo, held, pending, created, lock, raced, faults, hung>>

\* The session is closed, which rolls back what nobody committed; after the
\* interval a new cycle starts.
EndCycle ==
  /\ state["loop"] = "idle"
  /\ left = {}
  /\ left' = Servers
  /\ Rollback("loop")
  /\ UNCHANGED <<last, state, server, todo, held, created, raced, faults, hung>>

SyncStep(s) ==
  \/ ListConfigs(s) \/ Judge(s) \/ Finish(s) \/ FailConnect(s) \/ LockedOut(s) \/ EndRequest(s)
  \/ \E c \in todo[s] : c = NextOf(todo[s]) /\ (PassOver(s, c) \/ Fetch(s, c))

LoopStep ==
  \/ SyncStep("loop") \/ NextServer \/ EndCycle
  \/ \E v \in Servers : Begin("loop", v)

Next ==
  \/ \E c \in Configs : ScheduledRun(c) \/ ManualRow(c)
  \/ \E s \in Clicks, v \in Servers : Begin(s, v)
  \/ \E s \in Clicks : SyncStep(s)
  \/ \E s \in Syncers : Hang(s)
  \/ LoopStep

Spec == Init /\ [][Next]_vars

\* The loop runs for the life of the process, and a request that was accepted
\* is worked on: a step is due of a syncer that can take one.  Of one that is
\* hung none is: nothing in the code takes it out of its call.
FairSpec == Spec /\ WF_vars(LoopStep) /\ \A s \in Clicks : WF_vars(SyncStep(s))

-----------------------------------------------------------------------------
(***************************************************************************)
(* Properties                                                              *)
(***************************************************************************)

\* On a server that no two sessions synced at a time, the imported rows of a
\* config follow its runs: no stale report on top of a later one, and a second
\* row for a run only after a manual run of the config has hidden the first.
HistoryFollowsRuns ==
  \A c \in Configs : ServerOf[c] \notin raced =>
    \A i, j \in DOMAIN history[c] :
      i < j /\ history[c][i] # 0 /\ history[c][j] # 0 =>
        \/ history[c][i] < history[c][j]
        \/ history[c][i] = history[c][j] /\ \E k \in i..j : history[c][k] = 0

\* "Dedupes by the report's run_id": no run has two rows.
NoDuplicateImport ==
  \A c \in Configs : \A i, j \in DOMAIN history[c] :
    i # j /\ history[c][i] # 0 => history[c][i] # history[c][j]

Log == INSTANCE ImportLog WITH
         reported  <- [c \in Configs |-> last[c].run],
         log       <- history,
         contested <- {c \in Configs : ServerOf[c] \in raced}

\* Through SSH errors, lock-outs, rollbacks and rows that a failed sync left in
\* the loop's session, readers of the history see what ImportLog promises.
ImportSpec == Log!Spec

\* Whatever fails on the way, the write lock comes back: a loop that keeps it
\* after a failed sync gives it up at the end of its cycle.  It is lost in one
\* way only: its session waits for ever in an SSH call made while it held it.
LockReleased == []<>(lock = "nobody" \/ lock \in hung)

\* c has a run that could be imported and has no row, and no report on its
\* server is poison.
Poisoned(v) == \E c \in ConfigsOn(v) : last[c].run > 0 /\ last[c].kind = "poison"

Missing(c) ==
  /\ last[c].run > 0 /\ last[c].kind = "good" /\ ~Poisoned(ServerOf[c])
  /\ \A i \in DOMAIN history[c] : history[c][i] # last[c].run

\* A call of the loop's own never returns, or one of a click that has the lock.
Stopped == "loop" \in hung \/ lock \in hung

\* No report stays missing: it gets its row, by the loop alone, through SSH
\* errors, races, lock-outs and clicks that hang; only Stopped ends that.
Arrives == \A c \in Configs : []<>(~Missing(c) \/ Stopped)

=============================================================================
