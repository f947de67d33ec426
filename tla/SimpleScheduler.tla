-------------------------- MODULE SimpleScheduler --------------------------
(***************************************************************************)
(* The thread that hands queued tracks to Spotify, over the playlist that  *)
(* RAMDataStore implements (see Playlist).  doSchedule polls Spotify with  *)
(* nothing held, then takes mMtxPlayback and mMtxModifySchedulerState, in  *)
(* that order like everybody else, and keeps both to the end of the cycle: *)
(* they act as one lock, held while pc is past "polled".  A skip request   *)
(* does all its work under the same lock and is one step.  Spotify plays   *)
(* on by itself, and its user may interfere.                               *)
(***************************************************************************)
EXTENDS Playlist, Naturals

CONSTANTS
    NoPlayback,    \* an empty optional<PlaybackTrack>
    PlaybackError, \* an Error in the place of an optional<PlaybackTrack>
    Foreign,       \* stands for every track but TrackIds
    Interference,  \* which disturbances occur, out of Disturbances
    LongTracks,    \* every track outlasts the wait for a poll that succeeds
    MaxSkips       \* bound on skip requests, for model checking

\* "fail": Spotify refuses a call; "late": it does what was asked but the answer
\* is lost in a timeout.
Disturbances == {"fail", "late", "pause", "skip", "withdraw", "foreign", "close"}

ASSUME InterferenceAssumption == Interference \subseteq Disturbances
ASSUME LongTracksAssumption == LongTracks \in BOOLEAN
ASSUME MaxSkipsAssumption == MaxSkips \in Nat
ASSUME ForeignAssumption == Foreign \notin TrackIds /\ NoTrack \notin TrackIds \cup {Foreign}

VARIABLES
    player,           \* what Spotify plays: a playback or NoPlayback
    mSchedulerState,
    mLastPlayback,    \* mLastPlaybackTrack: a playback, NoPlayback or PlaybackError
    pc,               \* where the scheduler's thread is in doSchedule
    poll,             \* playbackTrackRet: what getCurrentPlayback answered
    handed,           \* history: the track of the last successful setPlayback
    heard,            \* history: a poll saw that track play
    paused,           \* history: an admin paused, and nobody has resumed since
    refused,          \* history: setPlayback of the current track reported an error
    excused,          \* history: since the last successful setPlayback an admin used the
                      \* player, or an answer of Spotify was lost
    meddled,          \* history: since the last successful setPlayback Spotify's user used
                      \* the player, or a transfer made the device resume something
    skips             \* the number of skip requests so far

threadVars == <<mSchedulerState, mLastPlayback, pc, poll>>
historyVars == <<handed, heard, paused, refused, excused, meddled, skips>>
ssVars == <<plVars, player, threadVars, historyVars>>

States == {"Idle", "PlayNextSong", "CheckPlaying", "Playing"}

\* progressMs only as far as it is compared: zero or not.
Playback == [track : TrackIds \cup {Foreign}, progress : 0..1, isPlaying : BOOLEAN]

ASSUME PlaybackAssumption ==
    /\ NoPlayback \notin Playback \cup TrackIds \cup {Foreign, PlaybackError}
    /\ PlaybackError \notin Playback \cup TrackIds \cup {Foreign}

\* The queues hold a track.
NonEmpty == admin # <<>> \/ user # {}

SSInit ==
    /\ PLInit
    /\ player = NoPlayback
    /\ mSchedulerState = "Idle"
    /\ mLastPlayback = NoPlayback
    /\ pc = "poll"
    /\ poll = NoPlayback
    /\ handed = NoTrack
    /\ heard = FALSE
    /\ paused = FALSE
    /\ refused = FALSE
    /\ excused = FALSE
    /\ meddled = FALSE
    /\ skips = 0

-----------------------------------------------------------------------------
(* The music backend, as far as the scheduler uses it.                     *)

\* getCurrentPlayback: a player without a track counts as no playback.
CurrentPlayback == player

\* setPlayback takes the playback over, whatever it was, and starts the track.
StartedPlayer == [track |-> current, progress |-> 0, isPlaying |-> TRUE]

\* transferUsersPlayback, which setPlayback calls first if there is no playback,
\* resumes whatever the device played before: a track from anywhere, or the one the
\* jukebox started last.
TransferredPlayers == {p \in Playback : p.isPlaying}

\* pause() does nothing if nothing plays.
PausedPlayer ==
    IF player # NoPlayback /\ player.isPlaying THEN [player EXCEPT !.isPlaying = FALSE] ELSE player

\* play() is an error without a playback, and does nothing if it plays already.
ResumedPlayer ==
    IF player = NoPlayback THEN player ELSE [player EXCEPT !.isPlaying = TRUE]

-----------------------------------------------------------------------------
(* One cycle of doSchedule.                                                *)

\* The end of a cycle that got as far as line 219.
Publish == pc' = "poll" /\ mLastPlayback' = poll /\ poll' = NoPlayback

\* The end of a cycle that returned before.
Abort == pc' = "poll" /\ poll' = NoPlayback /\ UNCHANGED mLastPlayback

\* Not the end: the thread goes on to c, with the locks.
Continue(c) == pc' = c /\ UNCHANGED <<poll, mLastPlayback>>

\* getCurrentPlayback answers.
PollAnswered ==
    /\ pc = "poll"
    /\ pc' = "polled"
    /\ poll' = CurrentPlayback
    /\ heard' = (heard \/ (player # NoPlayback /\ player.isPlaying /\ player.progress > 0))
    /\ UNCHANGED <<plVars, player, mSchedulerState, mLastPlayback>>
    /\ UNCHANGED <<handed, paused, refused, excused, meddled, skips>>

\* Wrong: a failed poll resets the state.
PollFailedResets ==
    /\ pc = "poll"
    /\ "fail" \in Interference
    /\ mSchedulerState' = "Idle"
    /\ mLastPlayback' = PlaybackError
    /\ UNCHANGED <<plVars, player, pc, poll, historyVars>>

\* A timeout is only logged; any other error is kept for the clients.
PollFailed ==
    /\ pc = "poll"
    /\ "fail" \in Interference
    /\ \/ UNCHANGED mLastPlayback
       \/ mLastPlayback' = PlaybackError
    /\ UNCHANGED <<plVars, player, mSchedulerState, pc, poll, historyVars>>

\* areQueuesEmpty, asked in the states Idle and Playing, reads the admin queue
\* and then, if that is empty, the normal queue.
AsksQueues ==
    \/ mSchedulerState = "Idle"
    \/ mSchedulerState = "Playing" /\ poll # NoPlayback /\ poll.progress = 0 /\ ~poll.isPlaying

ReadAdminQueue ==
    /\ pc = "polled"
    /\ AsksQueues
    /\ \/ admin # <<>> /\ mSchedulerState' = "PlayNextSong" /\ Publish
       \/ admin = <<>> /\ Continue("readNormalQueue") /\ UNCHANGED mSchedulerState
    /\ UNCHANGED <<plVars, player, historyVars>>

\* Wrong: the admin queue is read twice.
ReadAdminQueueTwice ==
    /\ pc = "readNormalQueue"
    /\ mSchedulerState' = IF admin # <<>> THEN "PlayNextSong" ELSE "Idle"
    /\ Publish
    /\ UNCHANGED <<plVars, player, historyVars>>

ReadNormalQueue ==
    /\ pc = "readNormalQueue"
    /\ mSchedulerState' = IF user # {} THEN "PlayNextSong" ELSE "Idle"
    /\ Publish
    /\ UNCHANGED <<plVars, player, historyVars>>

\* Wrong: an error of nextTrack is ignored.
PopTrackUnchecked ==
    /\ pc = "polled"
    /\ mSchedulerState = "PlayNextSong"
    /\ Play \/ (~NonEmpty /\ UNCHANGED plVars)
    /\ Continue("setPlayback")
    /\ UNCHANGED <<player, mSchedulerState, historyVars>>

\* nextTrack of the data store: it fails if the queues have been emptied since.
PopTrack ==
    /\ pc = "polled"
    /\ mSchedulerState = "PlayNextSong"
    /\ \/ Play /\ Continue("setPlayback") /\ UNCHANGED mSchedulerState
       \/ ~NonEmpty /\ mSchedulerState' = "Idle" /\ Abort /\ UNCHANGED plVars
    /\ UNCHANGED <<player, historyVars>>

\* Wrong: the track is taken to play before a poll has shown it.
SetPlaybackTrusting ==
    /\ pc = "setPlayback"
    /\ player' = StartedPlayer
    /\ mSchedulerState' = "Playing"
    /\ Publish
    /\ handed' = current
    /\ heard' = FALSE
    /\ paused' = FALSE
    /\ refused' = FALSE
    /\ excused' = FALSE
    /\ meddled' = FALSE
    /\ UNCHANGED <<plVars, skips>>

\* setPlayback of the current track.  If it fails, the track is out of the queue
\* and is not tried again.
SetPlayback ==
    /\ pc = "setPlayback"
    /\ player' = StartedPlayer
    /\ mSchedulerState' = "CheckPlaying"
    /\ Publish
    /\ handed' = current
    /\ heard' = FALSE
    /\ paused' = FALSE
    /\ refused' = FALSE
    /\ excused' = FALSE
    /\ meddled' = FALSE
    /\ UNCHANGED <<plVars, skips>>

\* Wrong: an error of setPlayback is ignored.
SetPlaybackFailedUnnoticed ==
    /\ pc = "setPlayback"
    /\ "fail" \in Interference
    /\ mSchedulerState' = "CheckPlaying"
    /\ Publish
    /\ UNCHANGED <<plVars, player, historyVars>>

\* setPlayback reports an error: of a call before anything changed, of play after the
\* playback was transferred, or of a timeout after the track was started.
SetPlaybackFailed ==
    /\ pc = "setPlayback"
    /\ \/ /\ "fail" \in Interference
          /\ UNCHANGED <<player, paused, excused, meddled>>
       \/ /\ {"fail", "late"} \cap Interference # {}
          /\ player = NoPlayback
          /\ player' \in TransferredPlayers
          /\ paused' = FALSE
          /\ meddled' = TRUE
          /\ UNCHANGED excused
       \/ /\ "late" \in Interference
          /\ player' = StartedPlayer
          /\ paused' = FALSE
          /\ excused' = TRUE
          /\ UNCHANGED meddled
    /\ mSchedulerState' = "Idle"
    /\ Abort
    /\ refused' = TRUE
    /\ UNCHANGED <<plVars, handed, heard, skips>>

\* The state CheckPlaying: isTrackPlaying, with its call of play().
CheckPlaying ==
    /\ pc = "polled"
    /\ mSchedulerState = "CheckPlaying"
    /\ \/ /\ poll = NoPlayback
          /\ Publish
          /\ UNCHANGED <<player, mSchedulerState, paused>>
       \/ /\ poll # NoPlayback /\ ~poll.isPlaying
          /\ \/ player' = ResumedPlayer /\ paused' = (paused /\ player = NoPlayback)
             \/ "fail" \in Interference /\ UNCHANGED <<player, paused>>
          /\ Publish
          /\ UNCHANGED mSchedulerState
       \/ /\ poll # NoPlayback /\ poll.isPlaying /\ poll.track # current
          /\ mSchedulerState' = "Idle"
          /\ Abort
          /\ UNCHANGED <<player, paused>>
       \/ /\ poll # NoPlayback /\ poll.isPlaying /\ poll.track = current
          /\ mSchedulerState' = IF poll.progress > 0 THEN "Playing" ELSE mSchedulerState
          /\ Publish
          /\ UNCHANGED <<player, paused>>
    /\ UNCHANGED <<plVars, handed, heard, refused, excused, meddled, skips>>

\* The state Playing, as long as the poll does not show the end of the track.
KeepPlaying ==
    /\ pc = "polled"
    /\ mSchedulerState = "Playing"
    /\ ~AsksQueues
    /\ \/ poll = NoPlayback /\ mSchedulerState' = "Idle" /\ Abort
       \/ poll # NoPlayback /\ Publish /\ UNCHANGED mSchedulerState
    /\ UNCHANGED <<plVars, player, historyVars>>

\* The part of the cycle that holds the mutexes.
Cycle ==
    \/ PollFailed
    \/ ReadAdminQueue \/ ReadNormalQueue
    \/ PopTrack \/ SetPlayback \/ SetPlaybackFailed
    \/ CheckPlaying \/ KeepPlaying

DoSchedule == PollAnswered \/ Cycle

-----------------------------------------------------------------------------
(* Requests of an admin (JukeBox::controlPlayer).                          *)

\* Wrong: the request pops the next track itself and leaves the rest to the thread.
SkipPops ==
    /\ "skip" \in Interference
    /\ skips < MaxSkips
    /\ pc \in {"poll", "polled"}
    /\ Play
    /\ player' = PausedPlayer
    /\ mSchedulerState' = "Idle"
    /\ skips' = skips + 1
    /\ excused' = TRUE
    /\ UNCHANGED <<mLastPlayback, pc, poll, handed, heard, paused, refused, meddled>>

\* SimpleScheduler::nextTrack: the state is Idle afterwards even if pause failed.
Skip ==
    /\ "skip" \in Interference
    /\ skips < MaxSkips
    /\ pc \in {"poll", "polled"}
    /\ mLastPlayback # PlaybackError
    /\ \/ player' = PausedPlayer
       \/ "fail" \in Interference /\ UNCHANGED player
    /\ mSchedulerState' = "Idle"
    /\ skips' = skips + 1
    /\ excused' = TRUE
    /\ UNCHANGED <<plVars, mLastPlayback, pc, poll, handed, heard, paused, refused, meddled>>

Pause ==
    /\ "pause" \in Interference
    /\ player # NoPlayback /\ player.isPlaying
    /\ player' = PausedPlayer
    /\ paused' = TRUE
    /\ excused' = TRUE
    /\ UNCHANGED <<plVars, threadVars, handed, heard, refused, meddled, skips>>

Resume ==
    /\ "pause" \in Interference
    /\ player # NoPlayback /\ ~player.isPlaying
    /\ player' = ResumedPlayer
    /\ paused' = FALSE
    /\ excused' = TRUE
    /\ UNCHANGED <<plVars, threadVars, handed, heard, refused, meddled, skips>>

-----------------------------------------------------------------------------
(* Spotify and its user.                                                   *)

PlayerIs(p) == player' = p /\ UNCHANGED <<plVars, threadVars, historyVars>>

Advance ==
    /\ player # NoPlayback /\ player.isPlaying /\ player.progress = 0
    /\ PlayerIs([player EXCEPT !.progress = 1])

\* The track ends: Spotify stops and shows it at its beginning.
Finish ==
    /\ player # NoPlayback /\ player.isPlaying /\ player.progress = 1
    /\ LongTracks => heard
    /\ PlayerIs([player EXCEPT !.progress = 0, !.isPlaying = FALSE])

\* Spotify's user plays another track, pauses, resumes, seeks or opens a closed player,
\* whose track may be one of the jukebox.
UserPlays ==
    /\ "foreign" \in Interference
    /\ player' \in Playback
    /\ paused' = (paused /\ ~player'.isPlaying)
    /\ meddled' = TRUE
    /\ UNCHANGED <<plVars, threadVars, handed, heard, refused, excused, skips>>

UserCloses ==
    /\ "close" \in Interference
    /\ player # NoPlayback
    /\ PlayerIs(NoPlayback)

Disturb == UserPlays \/ UserCloses

\* The requests that change the playlist.
Clients ==
    /\ \E t \in TrackIds : Enqueue(t) \/ ("withdraw" \in Interference /\ Withdraw(t))
    /\ UNCHANGED <<player, threadVars, historyVars>>

\* What needs no mutex of the scheduler.
Outside == Pause \/ Resume \/ Advance \/ Finish \/ Disturb \/ Clients

SSNext == DoSchedule \/ Skip \/ Outside

\* The scheduler's thread runs, Spotify answers again and again and plays on.
SSFairness ==
    /\ WF_ssVars(DoSchedule)
    /\ SF_ssVars(PollAnswered)
    /\ WF_ssVars(Advance)
    /\ WF_ssVars(Finish)

\* What may happen, and what must.
SSBehaviour == SSInit /\ [][SSNext]_ssVars

SSSpec == SSBehaviour /\ SSFairness

-----------------------------------------------------------------------------
(* Properties.                                                             *)

\* Type invariant of the scheduler.
SSTypeOK ==
    /\ player \in Playback \cup {NoPlayback}
    /\ mSchedulerState \in States
    /\ mLastPlayback \in Playback \cup {NoPlayback, PlaybackError}
    /\ pc \in {"poll", "polled", "readNormalQueue", "setPlayback"}
    /\ poll \in Playback \cup {NoPlayback}
    /\ handed \in TrackIds \cup {NoTrack}
    /\ heard \in BOOLEAN /\ paused \in BOOLEAN
    /\ refused \in BOOLEAN /\ excused \in BOOLEAN /\ meddled \in BOOLEAN
    /\ skips \in 0..MaxSkips

\* In the states that watch a track, that track is the one last handed to
\* Spotify and the one the data store calls current, even if skips, failures and
\* other players came in between.
WatchesHandedTrack ==
    mSchedulerState \in {"CheckPlaying", "Playing"} => handed = current /\ current # NoTrack

\* The track getCurrentQueues compares with the current one (JukeBox.cpp:215) when
\* the scheduler is in the state Playing: a change of track of the jukebox itself
\* never looks like an inconsistency, only what somebody else started does.
ReportConsistent ==
    mSchedulerState = "Playing" /\ mLastPlayback \in Playback /\ mLastPlayback.track # current
        => meddled

\* The only track taken out of the queue that is not played is one for which
\* setPlayback reported an error, whoever skips, pauses, plays other tracks or
\* closes the player.
NothingPoppedInVain == pc # "setPlayback" => handed = current \/ refused

\* The scheduler starts no track while the one it started before still plays, whatever
\* polls fail, tracks are refused and players are closed, unless since then an admin or
\* Spotify's user used the player, an answer of Spotify was lost, or a transfer of the
\* playback resumed the track: the scheduler never looks at what plays before it starts
\* the next one.
NeverCutOff ==
    [][SetPlayback /\ ~excused /\ ~meddled
         => ~(player # NoPlayback /\ player.isPlaying /\ player.track = handed)]_ssVars

\* As long as a track is queued, sooner or later the next one is popped, or the
\* queues are emptied by an admin: no state of the scheduler waits for ever.
PlaylistAdvances == NonEmpty ~> (pc = "setPlayback" \/ ~NonEmpty)

\* RESTInterface.md:317 says "pause" pauses the playback: the scheduler does not
\* resume a track an admin paused.
AdminPauseHolds == [][CheckPlaying /\ paused => paused']_ssVars

=============================================================================
