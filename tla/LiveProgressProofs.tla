------------------------- MODULE LiveProgressProofs -------------------------
(***************************************************************************)
(* Theorems about LiveProgress, for any number of polls, bytes, troubles   *)
(* and any period that leaves the threshold its room.                      *)
(***************************************************************************)
EXTENDS LiveProgress, TLAPS

\* While a heartbeat beats, the file is no older than its last beat.
YoungWhileBeating == heart.on /\ heart.beating /\ file.there => file.age <= heart.timer

\* Acceptable bytes, wherever a copy of them is, were once sent.
SentBefore ==
  /\ file.there /\ Acceptable(file.done) => file.done <= reached
  /\ heart.read /\ Acceptable(heart.snap) => heart.snap <= reached
  /\ Acceptable(done) => done <= reached

\* What a poll carries is a nightly file's, young if it was covered.
PollFits(q) ==
  poll[q].by # "none" =>
    /\ poll[q].by = "nightly"
    /\ poll[q].done <= Total /\ poll[q].done <= reached
    /\ poll[q].covered => poll[q].age <= Period

\* A poll that brought nothing has an age of nothing.
EmptyPoll(q) == poll[q].by = "none" => poll[q].age = 0

LInv ==
  /\ TypeOK
  /\ YoungWhileBeating
  /\ SentBefore
  /\ \A q \in Polls : PollFits(q) /\ EmptyPoll(q)
  /\ BytesWereSent

-----------------------------------------------------------------------------
\* The parameters are naturals.
LEMMA Numbers ==
  /\ Total \in Nat /\ Period \in Nat /\ Threshold \in Nat
  /\ Skew \in Nat /\ MaxDelay \in Nat /\ MaxTroubles \in Nat
  /\ Period + MaxDelay + Skew <= Threshold
BY ThresholdAssumption

\* The records that stand for nothing have the types of the others.
LEMMA Nothing ==
  /\ NoHeart \in [on : BOOLEAN, beating : BOOLEAN, timer : 0..Period, read : BOOLEAN,
                  snap : Bytes]
  /\ [NoHeart EXCEPT !.on = TRUE] \in
       [on : BOOLEAN, beating : BOOLEAN, timer : 0..Period, read : BOOLEAN, snap : Bytes]
  /\ [NoHeart EXCEPT !.on = TRUE, !.beating = TRUE] \in
       [on : BOOLEAN, beating : BOOLEAN, timer : 0..Period, read : BOOLEAN, snap : Bytes]
  /\ NoFile \in [there : BOOLEAN, done : Bytes, age : 0..Old]
  /\ NoPoll \in [step : {"idle", "asked", "fetched", "hung"}, by : {"none", "manual", "nightly"},
                 done : Bytes, age : 0..Old, covered : BOOLEAN]
  /\ [NoPoll EXCEPT !.step = "fetched"] \in
       [step : {"idle", "asked", "fetched", "hung"}, by : {"none", "manual", "nightly"},
        done : Bytes, age : 0..Old, covered : BOOLEAN]
  /\ \A bytes \in Bytes : Stamped(bytes) \in [there : BOOLEAN, done : Bytes, age : 0..Old]
<1>1. 0 \in Bytes /\ 0 \in 0..Period /\ 0 \in 0..Old
  BY Numbers DEF Bytes, Old
<1> HIDE DEF Bytes, Old
<1>2. NoHeart \in [on : BOOLEAN, beating : BOOLEAN, timer : 0..Period, read : BOOLEAN,
                   snap : Bytes]
  BY <1>1 DEF NoHeart
<1>3. [NoHeart EXCEPT !.on = TRUE] \in
        [on : BOOLEAN, beating : BOOLEAN, timer : 0..Period, read : BOOLEAN, snap : Bytes]
  BY <1>2
<1>4. [NoHeart EXCEPT !.on = TRUE, !.beating = TRUE] \in
        [on : BOOLEAN, beating : BOOLEAN, timer : 0..Period, read : BOOLEAN, snap : Bytes]
  BY <1>2
<1>5. NoFile \in [there : BOOLEAN, done : Bytes, age : 0..Old]
  BY <1>1 DEF NoFile
<1>6. NoPoll \in [step : {"idle", "asked", "fetched", "hung"}, by : {"none", "manual", "nightly"},
                  done : Bytes, age : 0..Old, covered : BOOLEAN]
  BY <1>1 DEF NoPoll
<1>7. [NoPoll EXCEPT !.step = "fetched"] \in
        [step : {"idle", "asked", "fetched", "hung"}, by : {"none", "manual", "nightly"},
         done : Bytes, age : 0..Old, covered : BOOLEAN]
  BY <1>6
<1>8. \A bytes \in Bytes : Stamped(bytes) \in [there : BOOLEAN, done : Bytes, age : 0..Old]
  BY <1>1 DEF Stamped
<1> QED BY <1>2, <1>3, <1>4, <1>5, <1>6, <1>7, <1>8

LEMMA InitInv == Init => LInv
<1> SUFFICES ASSUME Init PROVE LInv
  OBVIOUS
<1>1. TypeOK
  <2>1. 0 \in Bytes /\ 0 \in 0..MaxTroubles
    BY Numbers DEF Bytes
  <2> QED BY <2>1, Nothing DEF Init, TypeOK
<1>2. YoungWhileBeating /\ SentBefore /\ BytesWereSent
  BY DEF Init, YoungWhileBeating, SentBefore, BytesWereSent, NoHeart, NoFile
<1>3. \A q \in Polls : PollFits(q) /\ EmptyPoll(q)
  BY DEF Init, PollFits, EmptyPoll, NoPoll
<1> QED BY <1>1, <1>2, <1>3 DEF LInv

-----------------------------------------------------------------------------
\* A step of the nightly script keeps the types.
LEMMA ScriptTypes ==
  ASSUME TypeOK, Nightly
  PROVE  TypeOK'
<1> USE Numbers DEF TypeOK, NoHeart, NoFile, Bytes, Old, Stamped, server, page
<1>1. CASE BeginScript
  BY <1>1 DEF BeginScript
<1>2. CASE StartCopying
  <2>1. CASE WriteProgressTick(0) /\ heart' = [NoHeart EXCEPT !.on = TRUE, !.beating = TRUE]
    <3>1. 0 \in Bytes
      BY Numbers
    <3> QED BY <1>2, <2>1, <3>1, Nothing DEF StartCopying, WriteProgressTick, Put
  <2>2. CASE TickFails /\ heart' = [NoHeart EXCEPT !.on = TRUE]
    <3>1. troubles' \in 0..MaxTroubles
      BY <2>2 DEF TickFails, Trouble
    <3> QED BY <1>2, <2>2, <3>1, Nothing DEF StartCopying, TickFails
  <2> QED BY <1>2, <2>1, <2>2 DEF StartCopying
<1>3. CASE SourceSent
  <2>1. done' \in Bytes
    BY <1>3 DEF SourceSent
  <2>2. reached' \in Bytes
    BY <1>3, <2>1 DEF SourceSent
  <2>3. CASE WriteProgressTick(done')
    BY <1>3, <2>1, <2>2, <2>3 DEF SourceSent, WriteProgressTick, Put
  <2>4. CASE TickFails
    BY <1>3, <2>1, <2>2, <2>4 DEF SourceSent, TickFails, Trouble
  <2> QED BY <1>3, <2>3, <2>4 DEF SourceSent
<1>20. CASE SourceBegins
  <2>1. CASE WriteProgressTick(done)
    BY <1>20, <2>1 DEF SourceBegins, WriteProgressTick, Put
  <2>2. CASE TickFails
    BY <1>20, <2>2 DEF SourceBegins, TickFails, Trouble
  <2> QED BY <1>20, <2>1, <2>2 DEF SourceBegins
<1>4. CASE StopHeartbeat
  BY <1>4 DEF StopHeartbeat
<1>5. CASE ClearProgressFile
  BY <1>5 DEF ClearProgressFile
<1>6. CASE ScriptKilled
  BY <1>6 DEF ScriptKilled, Trouble
<1>7. CASE HeartbeatReads
  BY <1>7 DEF HeartbeatReads
<1>8. CASE HeartbeatWrites
  <2>1. heart.snap \in Bytes /\ 0 \in 0..Period /\ 0 \in Bytes
    OBVIOUS
  <2>2. file' \in [there : BOOLEAN, done : Bytes, age : 0..Old]
    BY <1>8, <2>1, Nothing DEF HeartbeatWrites, Put
  <2>3. heart' \in [on : BOOLEAN, beating : BOOLEAN, timer : 0..Period, read : BOOLEAN,
                    snap : Bytes]
    BY <1>8, <2>1 DEF HeartbeatWrites
  <2> QED BY <1>8, <2>2, <2>3 DEF HeartbeatWrites
<1> QED BY <1>1, <1>2, <1>3, <1>4, <1>5, <1>6, <1>7, <1>8, <1>20 DEF Nightly

\* A step of the page, of the panel or of time keeps the types.
LEMMA PageTypes ==
  ASSUME TypeOK, RunEnds \/ (\E q \in Polls : Poll(q)) \/ Pass
  PROVE  TypeOK'
<1> USE Numbers DEF TypeOK, NoPoll, Bytes, Old, server, page
<1>1. CASE RunEnds
  BY <1>1 DEF RunEnds
<1>2. ASSUME NEW q \in Polls, Ask(q) PROVE TypeOK'
  <2>1. CASE row.ended
    BY <1>2, <2>1 DEF Ask
  <2>2. CASE ~row.ended
    BY <1>2, <2>2 DEF Ask
  <2> QED BY <2>1, <2>2
<1>3. ASSUME NEW q \in Polls, PollFails(q) \/ PollHangs(q) PROVE TypeOK'
  <2>1. CASE PollFails(q)
    BY <2>1 DEF PollFails, Trouble
  <2>2. CASE PollHangs(q)
    BY <2>2 DEF PollHangs, Trouble
  <2> QED BY <1>3, <2>1, <2>2
<1>4. ASSUME NEW q \in Polls, FetchLiveProgress(q) PROVE TypeOK'
  <2>1. CASE file.there /\ Acceptable(file.done)
    <3>1. [step |-> "fetched", by |-> "nightly", done |-> file.done, age |-> file.age,
           covered |-> Covered]
          \in [step : {"idle", "asked", "fetched", "hung"}, by : {"none", "manual", "nightly"},
               done : Bytes, age : 0..Old, covered : BOOLEAN]
      BY DEF Covered
    <3> QED BY <1>4, <2>1, <3>1 DEF FetchLiveProgress, PolledPath
  <2>2. CASE ~(file.there /\ Acceptable(file.done))
    <3>1. poll' = [poll EXCEPT ![q] = [NoPoll EXCEPT !.step = "fetched"]]
      BY <1>4, <2>2 DEF FetchLiveProgress, PolledPath
    <3> HIDE DEF NoPoll
    <3> QED BY <1>4, <3>1, Nothing DEF FetchLiveProgress
  <2> QED BY <2>1, <2>2
<1>5. ASSUME NEW q \in Polls, Answer(q) PROVE TypeOK'
  <2>1. CASE poll[q].by = "none"
    BY <1>5, <2>1 DEF Answer
  <2>2. CASE poll[q].by # "none"
    <3>1. shown' \in {"running", "stalled"}
      BY <1>5, <2>2 DEF Answer
    <3>2. row' \in [ended : BOOLEAN, by : {"none", "manual", "nightly"}, done : Bytes]
      BY <1>5, <2>2 DEF Answer
    <3>3. poll' = [poll EXCEPT ![q] = NoPoll]
      BY <1>5 DEF Answer
    <3> HIDE DEF NoPoll
    <3> QED BY <1>5, <3>1, <3>2, <3>3, Nothing DEF Answer
  <2> QED BY <2>1, <2>2
<1>6. CASE Pass
  <2>1. CASE heart.on
    BY <1>6, <2>1 DEF Pass, Aged
  <2>2. CASE ~heart.on
    BY <1>6, <2>2 DEF Pass, Aged
  <2> QED BY <2>1, <2>2
<1> QED BY <1>1, <1>2, <1>3, <1>4, <1>5, <1>6 DEF Poll

\* A step keeps the file as young as the heartbeat's timer: every write makes
\* it new, and time makes both older.
LEMMA YoungStep ==
  ASSUME TypeOK, YoungWhileBeating, [Next]_vars
  PROVE  YoungWhileBeating'
<1> USE Numbers DEF TypeOK, YoungWhileBeating, NoHeart, NoFile, Stamped, Old, server, page
<1>1. CASE BeginScript
  BY <1>1 DEF BeginScript
<1>2. CASE StartCopying
  <2>1. CASE WriteProgressTick(0) /\ heart' = [NoHeart EXCEPT !.on = TRUE, !.beating = TRUE]
    BY <2>1 DEF WriteProgressTick, Put
  <2>2. CASE TickFails /\ heart' = [NoHeart EXCEPT !.on = TRUE]
    BY <2>2
  <2> QED BY <1>2, <2>1, <2>2 DEF StartCopying
<1>3. CASE SourceSent
  <2>1. CASE WriteProgressTick(done')
    BY <1>3, <2>1 DEF SourceSent, WriteProgressTick, Put
  <2>2. CASE TickFails
    BY <1>3, <2>2 DEF SourceSent, TickFails
  <2> QED BY <1>3, <2>1, <2>2 DEF SourceSent
<1>20. CASE SourceBegins
  <2>1. CASE WriteProgressTick(done)
    BY <1>20, <2>1 DEF SourceBegins, WriteProgressTick, Put
  <2>2. CASE TickFails
    BY <1>20, <2>2 DEF SourceBegins, TickFails
  <2> QED BY <1>20, <2>1, <2>2 DEF SourceBegins
<1>4. CASE StopHeartbeat
  BY <1>4 DEF StopHeartbeat
<1>5. CASE ClearProgressFile
  BY <1>5 DEF ClearProgressFile
<1>6. CASE ScriptKilled
  BY <1>6 DEF ScriptKilled
<1>7. CASE HeartbeatReads
  BY <1>7 DEF HeartbeatReads
<1>8. CASE HeartbeatWrites
  BY <1>8 DEF HeartbeatWrites, Put
<1>9. CASE RunEnds \/ \E q \in Polls : Poll(q)
  <2>1. UNCHANGED <<heart, file>>
    BY <1>9 DEF RunEnds, Poll, Ask, FetchLiveProgress, Answer, PollFails,
     PollHangs
  <2> QED BY <2>1
<1>10. CASE Pass
  <2>1. CASE heart.on
    BY <1>10, <2>1 DEF Pass, Aged
  <2>2. CASE ~heart.on
    BY <1>10, <2>2 DEF Pass
  <2> QED BY <2>1, <2>2
<1>11. CASE UNCHANGED vars
  BY <1>11 DEF vars
<1> QED BY <1>1, <1>2, <1>3, <1>4, <1>5, <1>6, <1>7, <1>8, <1>9, <1>10, <1>11, <1>20 DEF Next, Nightly

\* What has been reached is never taken back.
LEMMA ReachedGrows ==
  ASSUME TypeOK, [Next]_vars
  PROVE  reached <= reached'
<1> USE Numbers DEF TypeOK, Bytes, server, page
<1>1. CASE SourceSent
  BY <1>1 DEF SourceSent
<1>2. CASE \/ BeginScript \/ StartCopying \/ SourceBegins \/ StopHeartbeat
           \/ ClearProgressFile \/ ScriptKilled \/ HeartbeatReads \/ HeartbeatWrites
  BY <1>2 DEF BeginScript, StartCopying, SourceBegins, StopHeartbeat, ClearProgressFile, ScriptKilled,
              HeartbeatReads, HeartbeatWrites
<1>3. CASE RunEnds \/ Pass \/ \E q \in Polls : Poll(q)
  <2>1. reached' = reached
    BY <1>3 DEF RunEnds, Pass, Poll, Ask, FetchLiveProgress, Answer, PollFails,
     PollHangs
  <2> QED BY <2>1
<1>4. CASE UNCHANGED vars
  BY <1>4 DEF vars
<1> QED BY <1>1, <1>2, <1>3, <1>4 DEF Next, Nightly

\* Nothing that was not sent gets into the file or the heartbeat's hands.
LEMMA SentStep ==
  ASSUME TypeOK, SentBefore, [Next]_vars
  PROVE  SentBefore'
<1>1. reached <= reached'
  BY ReachedGrows
<1> USE Numbers DEF TypeOK, SentBefore, Acceptable, NoHeart, NoFile, Stamped, Bytes, server, page
<1>2. CASE SourceSent
  <2>1. done' \in Nat /\ (done' <= Total => done' <= reached') /\ heart' = heart
    BY <1>2 DEF SourceSent
  <2>2. CASE WriteProgressTick(done')
    <3>1. file'.done = done'
      BY <2>2 DEF WriteProgressTick, Put
    <3>2. heart.snap \in Nat /\ reached \in Nat /\ reached' \in Nat
      BY <1>2, <2>1 DEF SourceSent
    <3> QED BY <1>1, <2>1, <3>1, <3>2
  <2>3. CASE TickFails
    <3>1. file' = file
      BY <2>3 DEF TickFails
    <3>2. heart.snap \in Nat /\ file.done \in Nat /\ reached \in Nat /\ reached' \in Nat
      BY <1>2, <2>1 DEF SourceSent
    <3> QED BY <1>1, <2>1, <3>1, <3>2
  <2> QED BY <1>2, <2>2, <2>3 DEF SourceSent
<1>20. CASE SourceBegins
  <2>1. CASE WriteProgressTick(done)
    BY <1>20, <2>1 DEF SourceBegins, WriteProgressTick, Put
  <2>2. CASE TickFails
    BY <1>20, <2>2 DEF SourceBegins, TickFails
  <2> QED BY <1>20, <2>1, <2>2 DEF SourceBegins
<1>3. CASE BeginScript
  BY <1>3 DEF BeginScript
<1>4. CASE StartCopying
  <2>1. CASE WriteProgressTick(0) /\ heart' = [NoHeart EXCEPT !.on = TRUE, !.beating = TRUE]
    BY <1>4, <2>1 DEF StartCopying, WriteProgressTick, Put
  <2>2. CASE TickFails /\ heart' = [NoHeart EXCEPT !.on = TRUE]
    BY <1>4, <2>2 DEF StartCopying, TickFails
  <2> QED BY <1>4, <2>1, <2>2 DEF StartCopying
<1>5. CASE StopHeartbeat
  BY <1>5 DEF StopHeartbeat
<1>6. CASE ClearProgressFile
  BY <1>6 DEF ClearProgressFile
<1>7. CASE ScriptKilled
  BY <1>7 DEF ScriptKilled
<1>8. CASE HeartbeatReads
  BY <1>8 DEF HeartbeatReads
<1>9. CASE HeartbeatWrites
  BY <1>9 DEF HeartbeatWrites, Put
<1>10. CASE RunEnds \/ \E q \in Polls : Poll(q)
  <2>1. UNCHANGED <<heart, file, reached, done>>
    BY <1>10 DEF RunEnds, Poll, Ask, FetchLiveProgress, Answer, PollFails,
     PollHangs
  <2> QED BY <2>1
<1>11. CASE Pass
  <2>1. file'.done = file.done /\ file'.there = file.there /\ heart'.read = heart.read
        /\ heart'.snap = heart.snap /\ reached' = reached /\ done' = done
    BY <1>11 DEF Pass
  <2> QED BY <2>1
<1>12. CASE UNCHANGED vars
  BY <1>12 DEF vars
<1> QED BY <1>2, <1>3, <1>4, <1>5, <1>6, <1>7, <1>8, <1>9, <1>10, <1>11, <1>12, <1>20 DEF Next, Nightly

\* A step keeps what a poll carries within what was sent and young.
LEMMA PollStep ==
  ASSUME LInv, [Next]_vars, NEW q \in Polls
  PROVE  (PollFits(q) /\ EmptyPoll(q))'
<1>1. reached <= reached' /\ reached \in Nat /\ reached' \in Nat
  BY ReachedGrows, ScriptTypes, PageTypes, Numbers DEF LInv, TypeOK, Bytes, Next, vars
<1> USE Numbers DEF LInv, TypeOK, PollFits, EmptyPoll, NoPoll, Bytes, server, page
<1>2. ASSUME UNCHANGED poll PROVE (PollFits(q) /\ EmptyPoll(q))'
  BY <1>1, <1>2
<1>3. CASE Nightly
  BY <1>2, <1>3 DEF Nightly, BeginScript, StartCopying, SourceBegins, SourceSent, StopHeartbeat,
     ClearProgressFile, ScriptKilled, HeartbeatReads, HeartbeatWrites
<1>4. CASE RunEnds \/ Pass
  BY <1>2, <1>4 DEF RunEnds, Pass
<1>5. ASSUME NEW p \in Polls, Ask(p) \/ Answer(p) \/ PollFails(p) \/ PollHangs(p)
      PROVE  (PollFits(q) /\ EmptyPoll(q))'
  <2>1. \/ UNCHANGED poll
        \/ poll' = [poll EXCEPT ![p].step = "asked"]
        \/ poll' = [poll EXCEPT ![p].step = "hung"]
        \/ poll' = [poll EXCEPT ![p] = NoPoll]
    BY <1>5 DEF Ask, Answer, PollFails, PollHangs
  <2>2. CASE UNCHANGED poll
    BY <1>2, <2>2
  <2>3. CASE poll' = [poll EXCEPT ![p].step = "asked"]
    BY <1>1, <2>3
  <2>4. CASE poll' = [poll EXCEPT ![p] = NoPoll]
    BY <1>1, <2>4
  <2>5. CASE poll' = [poll EXCEPT ![p].step = "hung"]
    BY <1>1, <2>5
  <2> QED BY <2>1, <2>2, <2>3, <2>4, <2>5
<1>6. ASSUME NEW p \in Polls, FetchLiveProgress(p)
      PROVE  (PollFits(q) /\ EmptyPoll(q))'
  <2>1. CASE file.there /\ Acceptable(file.done)
    <3>1. file.done <= Total /\ file.done <= reached
      BY <2>1 DEF SentBefore, Acceptable
    <3>2. Covered => file.age <= Period
      BY <2>1 DEF YoungWhileBeating, Covered
    <3>3. poll' = [poll EXCEPT ![p] = [step |-> "fetched", by |-> "nightly", done |-> file.done,
                                       age |-> file.age, covered |-> Covered]]
          /\ reached' = reached
      BY <1>6, <2>1 DEF FetchLiveProgress, PolledPath
    <3> QED BY <3>1, <3>2, <3>3
  <2>2. CASE ~(file.there /\ Acceptable(file.done))
    BY <1>1, <1>6, <2>2 DEF FetchLiveProgress, PolledPath
  <2> QED BY <2>1, <2>2
<1>7. CASE UNCHANGED vars
  BY <1>2, <1>7 DEF vars
<1> QED BY <1>3, <1>4, <1>5, <1>6, <1>7 DEF Next, Poll

\* The row takes its bytes from a poll and from nowhere else.
LEMMA RowStep ==
  ASSUME LInv, [Next]_vars
  PROVE  BytesWereSent'
<1>1. reached <= reached' /\ reached \in Nat /\ reached' \in Nat
  BY ReachedGrows, ScriptTypes, PageTypes, Numbers DEF LInv, TypeOK, Bytes, Next, vars
<1> USE Numbers DEF LInv, TypeOK, BytesWereSent, Bytes, server, page
<1>2. ASSUME UNCHANGED <<row>> PROVE BytesWereSent'
  BY <1>1, <1>2
<1>3. CASE Nightly
  BY <1>2, <1>3 DEF Nightly, BeginScript, StartCopying, SourceBegins, SourceSent, StopHeartbeat,
     ClearProgressFile, ScriptKilled, HeartbeatReads, HeartbeatWrites
<1>4. CASE RunEnds
  BY <1>1, <1>4 DEF RunEnds
<1>5. ASSUME NEW q \in Polls, Ask(q) \/ FetchLiveProgress(q) \/ PollFails(q)
        \/ PollHangs(q)
      PROVE  BytesWereSent'
  BY <1>2, <1>5 DEF Ask, FetchLiveProgress, PollFails, PollHangs
<1>6. ASSUME NEW q \in Polls, Answer(q) PROVE BytesWereSent'
  <2>1. CASE poll[q].by = "none"
    BY <1>2, <1>6, <2>1 DEF Answer
  <2>2. CASE poll[q].by # "none"
    <3>1. row'.done = poll[q].done
      BY <1>6, <2>2 DEF Answer, PollFits
    <3> QED BY <1>1, <2>2, <3>1 DEF PollFits
  <2> QED BY <2>1, <2>2
<1>7. CASE Pass
  BY <1>2, <1>7 DEF Pass
<1>8. CASE UNCHANGED vars
  BY <1>2, <1>8 DEF vars
<1> QED BY <1>3, <1>4, <1>5, <1>6, <1>7, <1>8 DEF Next, Poll

-----------------------------------------------------------------------------
\* The inductive invariant: a beating heart keeps its file young, and bytes
\* that the panel accepts were sent, wherever they are on their way.
THEOREM LiveInvariant == Spec => []LInv
<1>1. Init => LInv
  BY InitInv
<1>2. LInv /\ [Next]_vars => LInv'
  <2> SUFFICES ASSUME LInv, [Next]_vars PROVE LInv'
    OBVIOUS
  <2>1. TypeOK'
    <3>1. CASE UNCHANGED vars
      BY <3>1 DEF vars, LInv, TypeOK
    <3> QED BY <3>1, ScriptTypes, PageTypes DEF Next, LInv
  <2>2. YoungWhileBeating' /\ SentBefore'
    BY YoungStep, SentStep DEF LInv
  <2>3. \A q \in Polls : (PollFits(q) /\ EmptyPoll(q))'
    BY PollStep
  <2>4. BytesWereSent'
    BY RowStep
  <2> QED BY <2>1, <2>2, <2>3, <2>4 DEF LInv
<1> QED BY <1>1, <1>2, PTL DEF Spec

\* The variables of LiveProgress keep their types.
THEOREM LiveTypes == Spec => []TypeOK
<1>1. LInv => TypeOK
  BY DEF LInv
<1> QED BY <1>1, LiveInvariant, PTL

\* A poll whose file a beating heart kept young is not called stalled: the
\* period, the delay of the request and the clocks together stay within the
\* threshold.
THEOREM NeverFalselyStalled == Spec => []NoFalseStall
<1>1. LInv => NoFalseStall
  <2> SUFFICES ASSUME LInv, NEW q \in Polls, poll[q].covered, NEW delay \in 0..MaxDelay
               PROVE  ~IsStalled(q, delay)
    BY DEF NoFalseStall
  <2>1. poll[q].age \in Nat /\ poll[q].age <= Period
    BY Numbers DEF LInv, TypeOK, PollFits, EmptyPoll, Old
  <2> QED BY <2>1, Numbers DEF IsStalled
<1> QED BY <1>1, LiveInvariant, PTL

\* The row of a manual run holds no more bytes than a script had sent.
THEOREM RowBytesWereSent == Spec => []BytesWereSent
<1>1. LInv => BytesWereSent
  BY DEF LInv
<1> QED BY <1>1, LiveInvariant, PTL
=============================================================================
