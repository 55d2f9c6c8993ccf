---------------------------- MODULE LiveProgress ----------------------------
(***************************************************************************)
(* What the page of a manual run shows of its bytes.  backup.ps1 writes    *)
(* progress.json beside its report and a background job of it keeps the    *)
(* file's time stamp young; the page polls the panel, which fetches the    *)
(* file over SSH, stores the bytes in the run's row and calls the run      *)
(* stalled when the stamp is old.                                          *)
(*                                                                         *)
(* Two scripts may run for one config, the manual one and the nightly one, *)
(* each with a progress.json of its own; the panel looks at one path, that *)
(* of the nightly one, also for the page of a manual run (BytesAreOwn).    *)
(*                                                                         *)
(* Time passes in units of a heartbeat period's fraction; an age counts    *)
(* the units since a stamp and stops counting once it is old.              *)
(***************************************************************************)
EXTENDS Naturals

CONSTANTS
  Polls,       \* requests of the page that may be under way together
  Total,       \* bytes_total, summed up before the first source is copied
  Period,      \* the heartbeat rewrites the stamp at least this often
  Threshold,   \* BackupConfig.stall_threshold_seconds
  Skew,        \* how far the panel's clock is ahead of the server's
  MaxDelay,    \* bound: time from fetching the file to judging its age
  MaxTroubles  \* bound: ticks and requests that fail or hang, scripts killed

\* 120 seconds against a period of 5: the threshold leaves room for the
\* delays of a request and for clocks that differ.
ASSUME ThresholdAssumption ==
  /\ {Total, Period, Threshold, Skew, MaxDelay, MaxTroubles} \subseteq Nat
  /\ Period + MaxDelay + Skew <= Threshold

VARIABLES
  \* the server
  script,   \* the nightly script: "idle", "working", "copying" to a storage
  done,     \* $planDone, the bytes its main thread has sent to this storage
  heart,    \* its heartbeat job
  file,     \* its progress.json
  \* the panel and the page
  row,      \* the BackupHistory row of the manual run
  poll,     \* poll[q]: a request for the run's progress
  shown,    \* what the page shows
  stopped,  \* the page has stopped asking
  reached,  \* the highest acceptable bytes_done of any nightly script
  troubles

vars == <<script, done, heart, file, row, poll, shown, stopped, reached, troubles>>
server == <<script, done, heart, reached>>
page == <<shown, stopped>>

Old == Threshold + 1
Bytes == 0..(Total + 1)
NoFile == [there |-> FALSE, done |-> 0, age |-> 0]
NoHeart == [on |-> FALSE, beating |-> FALSE, timer |-> 0, read |-> FALSE, snap |-> 0]
NoPoll == [step |-> "idle", by |-> "none", done |-> 0, age |-> 0, covered |-> FALSE]

TypeOK ==
  /\ script \in {"idle", "working", "copying"}
  /\ done \in Bytes /\ reached \in Bytes
  /\ heart \in [on : BOOLEAN, beating : BOOLEAN, timer : 0..Period,
                read : BOOLEAN, snap : Bytes]
  /\ file \in [there : BOOLEAN, done : Bytes, age : 0..Old]
  /\ row \in [ended : BOOLEAN, by : {"none", "manual", "nightly"}, done : Bytes]
  /\ poll \in [Polls -> [step : {"idle", "asked", "fetched", "hung"},
                         by : {"none", "manual", "nightly"}, done : Bytes,
                         age : 0..Old, covered : BOOLEAN]]
  /\ shown \in {"preparing", "running", "stalled", "finished"}
  /\ stopped \in BOOLEAN
  /\ troubles \in 0..MaxTroubles

Init ==
  /\ script = "idle" /\ done = 0 /\ reached = 0
  /\ heart = NoHeart
  /\ file = NoFile
  /\ row = [ended |-> FALSE, by |-> "none", done |-> 0]
  /\ poll = [q \in Polls |-> NoPoll]
  /\ shown = "preparing" /\ stopped = FALSE
  /\ troubles = 0

Trouble == troubles < MaxTroubles /\ troubles' = troubles + 1

\* Mutant of Acceptable: more bytes than there are in all are let through.
AnyBytes(bytes) == bytes \in Nat

\* BackupProgress refuses more bytes than the total.
Acceptable(bytes) == bytes <= Total

-----------------------------------------------------------------------------
(***************************************************************************)
(* The nightly script                                                      *)
(***************************************************************************)

Stamped(bytes) == [there |-> TRUE, done |-> bytes, age |-> 0]

\* Write-ProgressTick.  The temporary file it moves is also the heartbeat's:
\* whichever writes last before a move wins, as if each write were one step.
Put(bytes) == file' = Stamped(bytes)

\* A tick that fails is swallowed.
WriteProgressTick(bytes) == Put(bytes) /\ UNCHANGED troubles
TickFails == Trouble /\ UNCHANGED file

BeginScript ==
  /\ script = "idle"
  /\ script' = "working"
  /\ UNCHANGED <<done, heart, reached, file, row, poll, page, troubles>>

\* A storage destination starts from nothing, with a heartbeat of its own;
\* a local destination writes no progress.
StartCopying ==
  /\ script = "working"
  /\ script' = "copying"
  /\ \/ WriteProgressTick(0) /\ heart' = [NoHeart EXCEPT !.on = TRUE, !.beating = TRUE]
     \/ TickFails /\ heart' = [NoHeart EXCEPT !.on = TRUE]
  /\ UNCHANGED <<done, reached, row, poll, page>>

\* Before a source the bytes of those before it are written once more.
SourceBegins ==
  /\ script = "copying"
  /\ WriteProgressTick(done) \/ TickFails
  /\ UNCHANGED <<script, done, heart, reached, row, poll, page>>

\* Mutant of SourceSent: a source that was sent is counted twice.
SourceCountedTwice ==
  /\ script = "copying"
  /\ done <= Total
  /\ \E size \in 1..(Total + 1 - done) : done' = done + 2 * size
  /\ reached' = IF reached < done' /\ Acceptable(done') THEN done' ELSE reached
  /\ WriteProgressTick(done') \/ TickFails
  /\ UNCHANGED <<script, heart, row, poll, page>>

\* A staged copy may turn out larger than its source was.
SourceSent ==
  /\ script = "copying"
  /\ done <= Total
  /\ \E size \in 1..(Total + 1 - done) : done' = done + size
  /\ reached' = IF reached < done' /\ Acceptable(done') THEN done' ELSE reached
  /\ WriteProgressTick(done') \/ TickFails
  /\ UNCHANGED <<script, heart, row, poll, page>>

\* Stop-Job; rotation, the next destinations and the clean-up follow, with
\* the file still there and nothing that keeps it young.
StopHeartbeat ==
  /\ script = "copying"
  /\ script' = "working"
  /\ done' = 0
  /\ heart' = NoHeart
  /\ UNCHANGED <<reached, file, row, poll, page, troubles>>

ClearProgressFile ==
  /\ script = "working"
  /\ script' = "idle"
  /\ file' = NoFile
  /\ UNCHANGED <<done, heart, reached, row, poll, page, troubles>>

\* Killed by its task's time limit or a reboot: the file stays, the
\* heartbeat goes down with its parent.
ScriptKilled ==
  /\ script # "idle"
  /\ Trouble
  /\ script' = "idle"
  /\ done' = 0
  /\ heart' = NoHeart
  /\ UNCHANGED <<reached, file, row, poll, page>>

\* The heartbeat job reads the file and writes it back with a new stamp: the
\* bytes are those it read, whatever the main thread has written meanwhile.
HeartbeatReads ==
  /\ heart.on /\ ~heart.read /\ file.there
  /\ heart' = [heart EXCEPT !.read = TRUE, !.snap = file.done]
  /\ UNCHANGED <<script, done, reached, file, row, poll, page, troubles>>

\* Mutant of HeartbeatWrites: the stamp that was read goes back unchanged.
HeartbeatKeepsStamp ==
  /\ heart.read
  /\ file' = [file EXCEPT !.done = heart.snap]
  /\ heart' = [heart EXCEPT !.beating = TRUE, !.timer = 0, !.read = FALSE, !.snap = 0]
  /\ UNCHANGED <<script, done, reached, row, poll, page, troubles>>

HeartbeatWrites ==
  /\ heart.read
  /\ Put(heart.snap)
  /\ heart' = [heart EXCEPT !.beating = TRUE, !.timer = 0, !.read = FALSE, !.snap = 0]
  /\ UNCHANGED <<script, done, reached, row, poll, page, troubles>>

-----------------------------------------------------------------------------
(***************************************************************************)
(* The manual run                                                          *)
(***************************************************************************)

\* The manual script keeps a progress.json of its own, one directory up,
\* until it ends.
OwnFile == IF row.ended THEN NoFile ELSE Stamped(0)

RunEnds ==
  /\ ~row.ended
  /\ row' = [row EXCEPT !.ended = TRUE]
  /\ UNCHANGED <<server, file, poll, page, troubles>>

-----------------------------------------------------------------------------
(***************************************************************************)
(* The page and the panel                                                  *)
(***************************************************************************)

\* _progress_path names the directory of the schedule, whoever asks.
PolledPath == "nightly"

\* An interval timer asks again whether the last answer has come or not; the
\* row of an ended run answers at once and stops the timer.
Ask(q) ==
  /\ poll[q].step = "idle" /\ ~stopped
  /\ IF row.ended
     THEN shown' = "finished" /\ stopped' = TRUE /\ UNCHANGED poll
     ELSE poll' = [poll EXCEPT ![q].step = "asked"] /\ UNCHANGED page
  /\ UNCHANGED <<server, file, row, troubles>>

\* Whether a heartbeat was keeping the file young when it was read.
Covered == heart.on /\ heart.beating

\* Without an SSH key in the server's row the answer is always that of a
\* missing file.
FetchLiveProgress(q) ==
  /\ poll[q].step = "asked"
  /\ LET f == IF PolledPath = "nightly" THEN file ELSE OwnFile
     IN poll' = [poll EXCEPT ![q] =
          IF f.there /\ Acceptable(f.done)
          THEN [step |-> "fetched", by |-> PolledPath, done |-> f.done, age |-> f.age,
                covered |-> Covered]
          ELSE [NoPoll EXCEPT !.step = "fetched"]]
  /\ UNCHANGED <<server, file, row, page, troubles>>

\* Mutant of IsStalled: the threshold is taken for minutes.
IsStalledMinutes(q, delay) == poll[q].age + delay + Skew > 60 * Threshold

\* The age is told from the panel's clock, once the bytes are committed.
IsStalled(q, delay) == poll[q].age + delay + Skew > Threshold

\* The bytes go into the row although the run may have ended meanwhile.
Answer(q) ==
  /\ poll[q].step = "fetched"
  /\ IF poll[q].by = "none"
     THEN shown' = "preparing" /\ UNCHANGED row
     ELSE /\ \E delay \in 0..MaxDelay :
               shown' = IF IsStalled(q, delay) THEN "stalled" ELSE "running"
          /\ row' = [row EXCEPT !.by = poll[q].by, !.done = poll[q].done]
  /\ poll' = [poll EXCEPT ![q] = NoPoll]
  /\ UNCHANGED <<server, file, stopped, troubles>>

\* No SSH: the request ends with an error that the page ignores.
PollFails(q) ==
  /\ poll[q].step = "asked"
  /\ Trouble
  /\ poll' = [poll EXCEPT ![q] = NoPoll]
  /\ UNCHANGED <<server, file, row, page>>

\* The SFTP read has no timeout: a poll whose network is cut may wait for
\* ever, beside those the timer starts after it.
PollHangs(q) ==
  /\ poll[q].step = "asked"
  /\ Trouble
  /\ poll' = [poll EXCEPT ![q].step = "hung"]
  /\ UNCHANGED <<server, file, row, page>>

Poll(q) == Ask(q) \/ FetchLiveProgress(q) \/ Answer(q) \/ PollFails(q) \/ PollHangs(q)

-----------------------------------------------------------------------------
Aged(age) == IF age < Old THEN age + 1 ELSE Old

\* Time passes, but a heartbeat that has a file to rewrite does so in time.
Pass ==
  /\ file.there
  /\ heart.on => heart.timer < Period
  /\ file' = [file EXCEPT !.age = Aged(@)]
  /\ heart' = IF heart.on THEN [heart EXCEPT !.timer = @ + 1] ELSE heart
  /\ UNCHANGED <<script, done, reached, row, poll, page, troubles>>

Nightly ==
  \/ BeginScript \/ StartCopying \/ SourceBegins \/ SourceSent \/ StopHeartbeat
  \/ ClearProgressFile \/ ScriptKilled
  \/ HeartbeatReads \/ HeartbeatWrites

Next ==
  \/ Nightly
  \/ RunEnds
  \/ \E q \in Polls : Poll(q)
  \/ Pass

\* The browser's timer and the panel's event loop go on, and so does time;
\* nothing is owed by the script, nor by a poll that hangs.
Fairness ==
  /\ \A q \in Polls : WF_vars(Poll(q))
  /\ WF_vars(Pass)

Spec == Init /\ [][Next]_vars /\ Fairness

-----------------------------------------------------------------------------
(***************************************************************************)
(* Properties                                                              *)
(***************************************************************************)

\* A run is never called stalled while the heartbeat of its script was
\* beating when the file was read, whatever delay the request and whatever
\* difference of the clocks came on top.  (Before a storage destination,
\* after it and during a local one no heartbeat runs, and a page may call a
\* script stalled that is working.)
NoFalseStall ==
  \A q \in Polls : (poll[q].step = "fetched" /\ poll[q].covered) =>
    \A delay \in 0..MaxDelay : ~IsStalled(q, delay)

\* The row of a manual run never holds more bytes than the script of the file
\* had sent, nor more than there were in all, whatever the heartbeat wrote
\* over a tick, overlapping polls stored after one another and a staged copy
\* that grew made of the count.
BytesWereSent ==
  row.by # "none" => row.done <= reached /\ row.done <= Total

\* What the panel says of the row: its bytes are those of the backup that the
\* page shows.
BytesAreOwn == row.by # "none" => row.by = "manual"

\* Once no script runs any more, a page that goes on asking does not go on
\* showing a run: the file is gone, its stamp grows old or the row has ended.
PageMovesOn ==
  (shown = "running" /\ script = "idle") ~>
    (shown # "running" \/ script # "idle" \/ stopped)
=============================================================================
