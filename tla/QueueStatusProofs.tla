-------------------------- MODULE QueueStatusProofs --------------------------
(***************************************************************************)
(* Proofs about getCurrentQueues beside the scheduler, for any tracks, any *)
(* disturbances and any number of skip requests.                           *)
(***************************************************************************)
EXTENDS QueueStatus, SchedulerProofs

\* What the request has read so far is there.
Locals ==
    /\ at \in {"getPlayingTrack", "check", "readNormalQueue"} => seen \in TrackIds \cup {Foreign}
    /\ at \in {"check", "readNormalQueue"} => expected \in TrackIds
    /\ at # "idle" => status = NotYet

\* As long as nothing has moved, what was read is what one would read now.
Fresh ==
    ~moved => /\ at = "copy" => looked = TrackOf(mLastPlayback)
              /\ at \in {"getPlayingTrack", "check", "readNormalQueue"}
                    => seen = TrackOf(mLastPlayback)
              /\ at \in {"check", "readNormalQueue"} => expected = current

QSInv == IInv /\ QSTypeOK /\ Locals /\ Fresh

LEMMA LastTrack ==
    ASSUME IInv
    PROVE  /\ TrackOf(mLastPlayback) \in TrackIds \cup {Foreign, NoTrack, NoPlayback, PlaybackError}
           /\ TrackOf(mLastPlayback) \in TrackIds \cup {Foreign} => mLastPlayback \in Playback
<1>1. mLastPlayback \in Playback \cup {NoPlayback, PlaybackError}
  BY DEF IInv, SSTypeOK
<1>2. CASE mLastPlayback \in Playback
  BY <1>2 DEF TrackOf, Playback
<1>3. CASE mLastPlayback \notin Playback
  BY <1>1, <1>3, PlaybackAssumption DEF TrackOf
<1> QED BY <1>2, <1>3

LEMMA QSInitOk == QSInit => QSInv
<1> SUFFICES ASSUME QSInit PROVE QSInv
  OBVIOUS
<1>1. IInv
  BY InitOk DEF QSInit
<1>2. QSTypeOK
  <2>1. moved \in BOOLEAN
    BY Zenon DEF QSInit
  <2> QED BY <2>1 DEF QSInit, QSTypeOK
<1>3. Locals /\ Fresh
  BY DEF QSInit, Locals, Fresh
<1> QED BY <1>1, <1>2, <1>3 DEF QSInv

\* An answer ends the request, whatever it is.
LEMMA AnswerOk ==
    ASSUME QSInv, UNCHANGED ssVars, NEW s, Answer(s),
           s \in {Nothing, Failed, Inconsistent}
              \cup [kind : {"track"}, track : TrackIds \cup {Foreign}, addedBy : TrackIds]
    PROVE  QSInv'
<1>1. IInv'
  BY StutterOk DEF QSInv
<1>2. QSTypeOK'
  <2>1. moved' \in BOOLEAN
    BY Zenon DEF Answer
  <2> QED BY <2>1 DEF Answer, QSTypeOK
<1>3. Locals' /\ Fresh'
  BY DEF Answer, Locals, Fresh
<1> QED BY <1>1, <1>2, <1>3 DEF QSInv

LEMMA ConcludeOk ==
    ASSUME QSInv, UNCHANGED ssVars, at \in {"check", "readNormalQueue"}, NEW b, Conclude(b)
    PROVE  QSInv'
<1>1. /\ Shown(expected, expected)
           \in [kind : {"track"}, track : TrackIds \cup {Foreign}, addedBy : TrackIds]
      /\ Shown(seen, expected)
           \in [kind : {"track"}, track : TrackIds \cup {Foreign}, addedBy : TrackIds]
  BY DEF QSInv, Locals, Shown
<1> QED BY <1>1, AnswerOk DEF Conclude

LEMMA GetCurrentQueuesOk ==
    ASSUME QSInv, GetCurrentQueues
    PROVE  QSInv'
<1>1. UNCHANGED ssVars
  BY DEF GetCurrentQueues, GetLastPlayback, CopyPlayback, GetPlayingTrack, CheckAdminQueue,
         CheckNormalQueue
<1>2. IInv' /\ TrackOf(mLastPlayback)' = TrackOf(mLastPlayback) /\ current' = current
  BY <1>1, StutterOk DEF QSInv, ssVars, plVars, threadVars, TrackOf
<1>3. CASE GetLastPlayback
  BY <1>2, <1>3, LastTrack DEF QSInv, QSTypeOK, Locals, Fresh, GetLastPlayback
<1>4. CASE CopyPlayback
  <2>1. PICK p \in {looked, TrackOf(mLastPlayback)} :
           \/ Answer(Failed) \/ Answer(Nothing)
           \/ /\ p \in TrackIds \cup {Foreign}
              /\ at' = "getPlayingTrack"
              /\ seen' = p
              /\ looked' = NoTrack
              /\ UNCHANGED <<expected, status, moved>>
    BY <1>4 DEF CopyPlayback
  <2>2. CASE Answer(Failed) \/ Answer(Nothing)
    BY <1>1, <2>2, AnswerOk
  <2>3. CASE ~(Answer(Failed) \/ Answer(Nothing))
    BY <1>2, <1>4, <2>1, <2>3 DEF CopyPlayback, QSInv, QSTypeOK, Locals, Fresh
  <2> QED BY <2>2, <2>3
<1>5. CASE GetPlayingTrack
  <2>1. CASE current = NoTrack
    BY <1>1, <1>5, <2>1, AnswerOk DEF GetPlayingTrack
  <2>2. CASE current # NoTrack
    <3>1. current \in TrackIds
      BY <2>2 DEF QSInv, IInv, PLTypeOK
    <3> QED BY <1>2, <1>5, <2>2, <3>1 DEF GetPlayingTrack, QSInv, QSTypeOK, Locals, Fresh
  <2> QED BY <2>1, <2>2
<1>6. CASE CheckAdminQueue
  <2>1. CASE admin # <<>>
    BY <1>1, <1>6, <2>1, ConcludeOk DEF CheckAdminQueue
  <2>2. CASE admin = <<>>
    BY <1>2, <1>6, <2>2 DEF CheckAdminQueue, QSInv, QSTypeOK, Locals, Fresh
  <2> QED BY <2>1, <2>2
<1>7. CASE CheckNormalQueue
  BY <1>1, <1>7, ConcludeOk DEF CheckNormalQueue
<1> QED BY <1>3, <1>4, <1>5, <1>6, <1>7 DEF GetCurrentQueues

\* What others do is noticed.
LEMMA BesideOk ==
    ASSUME QSInv, Beside, IInv'
    PROVE  QSInv'
<1>1. moved' \in BOOLEAN
  BY Zenon DEF Beside
<1>2. QSTypeOK' /\ Locals'
  BY <1>1 DEF Beside, QSInv, QSTypeOK, Locals
<1>3. CASE moved'
  BY <1>2, <1>3 DEF QSInv, Fresh
<1>4. CASE ~moved' /\ at = "idle"
  BY <1>2, <1>4 DEF QSInv, Fresh, Beside
<1>5. CASE ~moved' /\ at # "idle"
  <2>1. ~moved /\ mLastPlayback' = mLastPlayback /\ current' = current
    BY <1>5 DEF Beside
  <2> QED BY <1>2, <2>1 DEF QSInv, Fresh, Beside, TrackOf
<1> QED BY <1>3, <1>4, <1>5

LEMMA QSStepOk == QSInv /\ [QSNext]_<<ssVars, qsVars>> => QSInv'
<1> SUFFICES ASSUME QSInv, [QSNext]_<<ssVars, qsVars>> PROVE QSInv'
  OBVIOUS
<1>1. CASE GetCurrentQueues
  BY <1>1, GetCurrentQueuesOk
<1>2. CASE SchedulerStep \/ SkipStep \/ OutsideStep
  BY <1>2, PollAnsweredOk, CycleOk, SkipOk, OutsideOk, BesideOk
     DEF SchedulerStep, SkipStep, OutsideStep, QSInv
<1>3. CASE UNCHANGED <<ssVars, qsVars>>
  BY <1>3, StutterOk
     DEF QSInv, QSTypeOK, Locals, Fresh, TrackOf, qsVars, ssVars, plVars, threadVars
<1> QED BY <1>1, <1>2, <1>3 DEF QSNext

LEMMA QSInvariant == QSSpec => []QSInv
<1>1. QSSpec => QSInit /\ [][QSNext]_<<ssVars, qsVars>>
  BY PTL DEF QSSpec
<1> QED BY <1>1, QSInitOk, QSStepOk, PTL

\* The locals of a request and its answer keep their types (JukeBox.cpp:177-231).
THEOREM StatusTyped == QSSpec => []QSTypeOK
<1>1. QSInv => QSTypeOK
  BY DEF QSInv
<1> QED BY <1>1, QSInvariant, PTL

\* An inconsistency that is reported has a reason (JukeBox.cpp:214-223).
THEOREM InconsistenciesExplained == QSSpec => InconsistencyExplained
<1>1. ASSUME QSInv, [QSNext]_<<ssVars, qsVars>>, status' = Inconsistent, qsVars' # qsVars
      PROVE  meddled \/ moved
  <2>1. status' # NotYet /\ status' # Failed /\ status' # Nothing
    BY <1>1 DEF NotYet, Failed, Nothing, Inconsistent
  <2>2. GetCurrentQueues
    BY <1>1, <2>1 DEF QSNext, SchedulerStep, SkipStep, OutsideStep, Beside, qsVars
  <2>3. at \in {"check", "readNormalQueue"} /\ \E b : Conclude(b)
    BY <1>1, <2>1, <2>2 DEF GetCurrentQueues, GetLastPlayback, CopyPlayback, GetPlayingTrack,
       CheckAdminQueue, CheckNormalQueue, Answer, QSInv, Locals
  <2>4. PICK b : Conclude(b)
    BY <2>3
  <2>5. Suspects(b) /\ seen # expected
    BY <1>1, <2>4 DEF Conclude, Answer, Shown, Inconsistent
  <2>6. SUFFICES ASSUME ~moved PROVE meddled
    OBVIOUS
  <2>7. seen = TrackOf(mLastPlayback) /\ expected = current /\ seen \in TrackIds \cup {Foreign}
    BY <2>3, <2>6, <1>1 DEF QSInv, Locals, Fresh
  <2>8. mLastPlayback \in Playback /\ seen = mLastPlayback.track
    BY <1>1, <2>7, LastTrack DEF QSInv, TrackOf
  <2> QED BY <1>1, <2>5, <2>7, <2>8 DEF Suspects, QSInv, IInv, ReportConsistent
<1>2. QSInv /\ [QSNext]_<<ssVars, qsVars>>
        => [status' = Inconsistent => meddled \/ moved]_qsVars
  BY <1>1
<1>3. QSSpec => [][QSNext]_<<ssVars, qsVars>>
  BY PTL DEF QSSpec
<1> QED BY <1>2, <1>3, QSInvariant, PTL DEF InconsistencyExplained

\* A track of the jukebox is shown with another one's nickname only while the jukebox
\* goes from one to the other or after Spotify's user chose it (JukeBox.cpp:214-231).
THEOREM WrongNicknamesExplained == QSSpec => WrongNicknameExplained
<1> DEFINE Wrong == /\ status'.kind = "track" /\ status'.track \in TrackIds
                    /\ status'.addedBy # status'.track
<1>1. ASSUME QSInv, [QSNext]_<<ssVars, qsVars>>, Wrong, qsVars' # qsVars
      PROVE  moved \/ meddled \/ mSchedulerState # "Playing"
  <2>1. status' # NotYet /\ status' # Failed /\ status' # Nothing /\ status' # Inconsistent
    BY <1>1 DEF NotYet, Failed, Nothing, Inconsistent
  <2>2. GetCurrentQueues
    BY <1>1, <2>1 DEF QSNext, SchedulerStep, SkipStep, OutsideStep, Beside, qsVars
  <2>3. at \in {"check", "readNormalQueue"} /\ \E b : Conclude(b)
    BY <1>1, <2>1, <2>2 DEF GetCurrentQueues, GetLastPlayback, CopyPlayback, GetPlayingTrack,
       CheckAdminQueue, CheckNormalQueue, Answer, QSInv, Locals
  <2>4. PICK b : Conclude(b)
    BY <2>3
  <2>5. status' = Shown(expected, expected) \/ status' = Shown(seen, expected)
    BY <2>1, <2>4 DEF Conclude, Answer
  <2>6. status' = Shown(seen, expected) /\ seen # expected /\ seen \in TrackIds
    BY <1>1, <2>5 DEF Shown
  <2>7. SUFFICES ASSUME ~moved, mSchedulerState = "Playing" PROVE meddled
    OBVIOUS
  <2>8. seen = TrackOf(mLastPlayback) /\ expected = current
    BY <2>3, <2>7, <1>1 DEF QSInv, Locals, Fresh
  <2>9. mLastPlayback \in Playback /\ seen = mLastPlayback.track
    BY <1>1, <2>6, <2>8, LastTrack DEF QSInv, TrackOf
  <2> QED BY <1>1, <2>6, <2>7, <2>8, <2>9 DEF QSInv, IInv, ReportConsistent
<1>2. QSInv /\ [QSNext]_<<ssVars, qsVars>>
        => [Wrong => moved \/ meddled \/ mSchedulerState # "Playing"]_qsVars
  BY <1>1
<1>3. QSSpec => [][QSNext]_<<ssVars, qsVars>>
  BY PTL DEF QSSpec
<1> QED BY <1>2, <1>3, QSInvariant, PTL DEF WrongNicknameExplained

\* To the scheduler the requests are not there: what is proved of it alone holds beside
\* them, too.
THEOREM SchedulerUndisturbed == QSSpec => SSBehaviour
<1>1. QSInit => SSInit
  BY DEF QSInit
<1>2. [QSNext]_<<ssVars, qsVars>> => [SSNext]_ssVars
  BY DEF QSNext, GetCurrentQueues, GetLastPlayback, CopyPlayback, GetPlayingTrack,
         CheckAdminQueue, CheckNormalQueue, SchedulerStep, SkipStep, OutsideStep, SSNext,
         DoSchedule
<1> QED BY <1>1, <1>2, PTL DEF QSSpec, SSBehaviour

=============================================================================
