----------------------------- MODULE QueueStatus -----------------------------
(***************************************************************************)
(* getCurrentQueues, the part about the track that plays, beside the       *)
(* scheduler: one client that asks again and again.  The two playbacks it  *)
(* puts together are read at different moments: the one of Spotify that    *)
(* the scheduler published last, and the current track of the data store.  *)
(* getLastPlayback returns a reference that is copied when the lock is     *)
(* released, while the scheduler may be assigning to it.                   *)
(* checkForInconsistency holds both of the scheduler's mutexes, shared,    *)
(* over two reads of the queues.                                           *)
(***************************************************************************)
EXTENDS SimpleScheduler

VARIABLES
    at,        \* where the request is
    looked,    \* the track of mLastPlayback when the reference to it was returned
    seen,      \* the track of pbtSpotify, the copy made of it
    expected,  \* currentTrack
    status,    \* the answer, in the step that gives it, and NotYet otherwise
    moved      \* history: the scheduler published or changed its state, or the current
               \* track changed, since the reference was returned

qsVars == <<at, looked, seen, expected, status, moved>>

\* Answers: nothing plays, an error (of Spotify, or the inconsistency), or a track
\* with the nickname of the user who added a track of the jukebox.
NotYet == [kind |-> "notYet"]
Nothing == [kind |-> "nothing"]
Failed == [kind |-> "failed"]
Inconsistent == [kind |-> "inconsistent"]
Shown(t, adder) == [kind |-> "track", track |-> t, addedBy |-> adder]

QSInit ==
    /\ SSInit
    /\ at = "idle"
    /\ looked = NoTrack
    /\ seen = NoTrack
    /\ expected = NoTrack
    /\ status = NotYet
    /\ moved = FALSE

-----------------------------------------------------------------------------

\* The scheduler holds neither of its mutexes.
Unlocked == pc \in {"poll", "polled"}

\* The client holds both, shared.
Reading == at = "readNormalQueue"

\* Of a playback only its track is compared.
TrackOf(p) == IF p \in Playback THEN p.track ELSE p

Answer(s) ==
    /\ at' = "idle"
    /\ status' = s
    /\ looked' = NoTrack
    /\ seen' = NoTrack
    /\ expected' = NoTrack
    /\ moved' = FALSE

GetLastPlayback ==
    /\ at = "idle"
    /\ Unlocked
    /\ at' = "copy"
    /\ looked' = TrackOf(mLastPlayback)
    /\ status' = NotYet
    /\ UNCHANGED <<ssVars, seen, expected, moved>>

\* Wrong: an empty optional is used like any other.
CopyPlaybackUnchecked ==
    /\ at = "copy"
    /\ \E p \in {looked, TrackOf(mLastPlayback)} :
          \/ p = PlaybackError /\ Answer(Failed)
          \/ /\ p # PlaybackError
             /\ at' = "getPlayingTrack"
             /\ seen' = p
             /\ looked' = NoTrack
             /\ UNCHANGED <<expected, status, moved>>
    /\ UNCHANGED ssVars

\* What was assigned in the meantime is copied, or what was there before.
CopyPlayback ==
    /\ at = "copy"
    /\ \E p \in {looked, TrackOf(mLastPlayback)} :
          \/ p = PlaybackError /\ Answer(Failed)
          \/ p = NoPlayback /\ Answer(Nothing)
          \/ /\ p \in TrackIds \cup {Foreign}
             /\ at' = "getPlayingTrack"
             /\ seen' = p
             /\ looked' = NoTrack
             /\ UNCHANGED <<expected, status, moved>>
    /\ UNCHANGED ssVars

GetPlayingTrack ==
    /\ at = "getPlayingTrack"
    /\ \/ current = NoTrack /\ Answer(Nothing)
       \/ /\ current # NoTrack
          /\ at' = "check"
          /\ expected' = current
          /\ UNCHANGED <<looked, seen, status, moved>>
    /\ UNCHANGED ssVars

\* Wrong: a track that has only been handed over counts as playing.
SuspectsEarly(nonEmpty) == nonEmpty /\ mSchedulerState \in {"CheckPlaying", "Playing"}

\* What checkForInconsistency returns.
Suspects(nonEmpty) == nonEmpty /\ mSchedulerState = "Playing"

\* What getCurrentQueues makes of it.
Conclude(nonEmpty) ==
    IF Suspects(nonEmpty)
    THEN Answer(IF seen = expected THEN Shown(expected, expected) ELSE Inconsistent)
    ELSE Answer(Shown(seen, expected))

CheckAdminQueue ==
    /\ at = "check"
    /\ Unlocked
    /\ \/ admin # <<>> /\ Conclude(TRUE)
       \/ admin = <<>> /\ at' = "readNormalQueue" /\ UNCHANGED <<looked, seen, expected, status, moved>>
    /\ UNCHANGED ssVars

CheckNormalQueue ==
    /\ at = "readNormalQueue"
    /\ Conclude(user # {})
    /\ UNCHANGED ssVars

GetCurrentQueues ==
    GetLastPlayback \/ CopyPlayback \/ GetPlayingTrack \/ CheckAdminQueue \/ CheckNormalQueue

\* A step of somebody else.
Beside ==
    /\ moved' = (at # "idle" /\ (moved \/ <<mSchedulerState, mLastPlayback, current>>'
                                          # <<mSchedulerState, mLastPlayback, current>>))
    /\ status' = NotYet
    /\ UNCHANGED <<at, looked, seen, expected>>

\* The client keeps out whoever wants the mutexes for itself.
SchedulerStep == (PollAnswered \/ (~Reading /\ Cycle)) /\ Beside
SkipStep == ~Reading /\ Skip /\ Beside
OutsideStep == Outside /\ Beside

QSNext == GetCurrentQueues \/ SchedulerStep \/ SkipStep \/ OutsideStep

\* The scheduler sleeps with nothing locked, and the client has nothing locked from
\* one request to the next: with one client neither is kept out for ever.
QSFairness ==
    /\ SF_<<ssVars, qsVars>>(SchedulerStep)
    /\ SF_<<ssVars, qsVars>>(PollAnswered /\ Beside)
    /\ WF_<<ssVars, qsVars>>(Advance /\ Beside)
    /\ WF_<<ssVars, qsVars>>(Finish /\ Beside)
    /\ SF_<<ssVars, qsVars>>(GetCurrentQueues)

QSSpec == QSInit /\ [][QSNext]_<<ssVars, qsVars>> /\ QSFairness

-----------------------------------------------------------------------------
(* Properties.                                                             *)

\* Type invariant of a request.
QSTypeOK ==
    /\ at \in {"idle", "copy", "getPlayingTrack", "check", "readNormalQueue"}
    /\ looked \in TrackIds \cup {Foreign, NoTrack, NoPlayback, PlaybackError}
    /\ seen \in TrackIds \cup {Foreign, NoTrack}
    /\ expected \in TrackIds \cup {NoTrack}
    /\ status \in {NotYet, Nothing, Failed, Inconsistent}
                    \cup [kind : {"track"}, track : TrackIds \cup {Foreign}, addedBy : TrackIds]
    /\ moved \in BOOLEAN

\* While nothing changes during the request, an inconsistency is reported only if
\* Spotify's user used the player since the scheduler started the current track: the
\* jukebox going from one of its own tracks to the next is never mistaken for one.
InconsistencyExplained ==
    [][status' = Inconsistent => meddled \/ moved]_qsVars

\* RESTInterface.md:213 says the nickname of the user who added a track is found in
\* added_by: a track of the jukebox is not shown with the nickname of another one's.
RightNickname ==
    status.kind = "track" /\ status.track \in TrackIds => status.addedBy = status.track

\* When it is shown with another one's nickname all the same, the jukebox was just going
\* from one track to the next (something changed during the request, or Spotify has not
\* yet confirmed the track that was started last) or Spotify's user chose the track.
WrongNicknameExplained ==
    [][status'.kind = "track" /\ status'.track \in TrackIds /\ status'.addedBy # status'.track
       => moved \/ meddled \/ mSchedulerState # "Playing"]_qsVars

=============================================================================
