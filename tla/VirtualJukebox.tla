--------------------------- MODULE VirtualJukebox ---------------------------
(***************************************************************************)
(* The jukebox as its constructor puts it together: the requests and the   *)
(* scheduler's thread over one data store, and the player they share.  The *)
(* scheduler is the one of SimpleScheduler, with the queues of             *)
(* RAMDataStore in the place of the playlist; the player actions of the    *)
(* requests reach it and Spotify, and its pops drop the votes of the track *)
(* before they return.                                                     *)
(***************************************************************************)
EXTENDS JukeBox

CONSTANTS NoPlayback, PlaybackError, Foreign, Interference, LongTracks, MaxSkips

VARIABLES
    player, mSchedulerState, mLastPlayback, pc, poll,
    handed, heard, paused, refused, excused, meddled, skips

schedVars ==
    <<player, mSchedulerState, mLastPlayback, pc, poll,
      handed, heard, paused, refused, excused, meddled, skips>>

vjVars == <<jbVars, schedVars>>

\* mDataStore of the scheduler.
Sched == INSTANCE SimpleScheduler WITH
    admin   <- IdSeq(queue["Admin"]),
    user    <- IdsOf(queue["Normal"]),
    current <- CurrentId

\* The assumptions of SimpleScheduler; an admin may remove tracks.
ASSUME PlayerAssumption ==
    /\ Interference \subseteq Sched!Disturbances
    /\ "withdraw" \in Interference
    /\ LongTracks \in BOOLEAN
    /\ MaxSkips \in Nat
    /\ Foreign \notin TrackIds
    /\ NoTrack \notin TrackIds \cup {Foreign}
    /\ NoPlayback \notin Sched!Playback \cup TrackIds \cup {Foreign, PlaybackError}
    /\ PlaybackError \notin Sched!Playback \cup TrackIds \cup {Foreign}

VJInit == JBInit /\ Sched!SSInit

-----------------------------------------------------------------------------

\* Wrong: a skip request pops the next track itself.
RequestPops(th) ==
    \/ RequestStep(th) /\ UNCHANGED schedVars
    \/ /\ At(th, "controlPlayer")
       /\ NextTrack(th)
       /\ Reply(th, "Ok")
       /\ mSchedulerState' = "Idle"
       /\ UNCHANGED <<player, mLastPlayback, pc, poll>>
       /\ UNCHANGED <<handed, heard, paused, refused, excused, meddled, skips>>

\* A request, which reaches the scheduler or the player only as controlPlayer: volumes,
\* errors and what has no effect change nothing here.
Request(th) ==
    /\ RequestStep(th)
    /\ \/ UNCHANGED schedVars
       \/ At(th, "controlPlayer") /\ (Sched!Skip \/ Sched!Pause \/ Sched!Resume)

\* Wrong: the cycle ends with the pop.
NextTrackCallEnds ==
    /\ NextTrack(Scheduler) \/ (Queued = {} /\ UNCHANGED dsVars)
    /\ pc = "polled" /\ mSchedulerState = "PlayNextSong"
    /\ pc' = "poll" /\ poll' = NoPlayback /\ mSchedulerState' = "CheckPlaying"
    /\ UNCHANGED <<call, player, mLastPlayback>>
    /\ UNCHANGED <<handed, heard, paused, refused, excused, meddled, skips>>

\* The state PlayNextSong: nextTrack of the data store pops a track or, with both queues
\* empty, returns an error.
NextTrackCall ==
    /\ NextTrack(Scheduler) \/ (Queued = {} /\ UNCHANGED dsVars)
    /\ Sched!PopTrack
    /\ UNCHANGED call

\* The rest of nextTrack.
DropVotes ==
    /\ RemoveVotesForTrack(Scheduler)
    /\ UNCHANGED <<call, schedVars>>

\* Once nextTrack has returned, the track is handed to Spotify.
SetPlaybackCall ==
    /\ Free(Scheduler)
    /\ UNCHANGED jbVars
    /\ Sched!SetPlayback \/ Sched!SetPlaybackFailed

\* The rest of a cycle only reads the data store.
RestOfCycle ==
    /\ UNCHANGED jbVars
    /\ \/ Sched!PollAnswered \/ Sched!PollFailed
       \/ Sched!ReadAdminQueue \/ Sched!ReadNormalQueue
       \/ Sched!CheckPlaying \/ Sched!KeepPlaying

SchedulerThread == NextTrackCall \/ DropVotes \/ SetPlaybackCall \/ RestOfCycle

\* Spotify plays on, and its user interferes.
Spotify ==
    /\ UNCHANGED jbVars
    /\ Sched!Advance \/ Sched!Finish \/ Sched!Disturb

Clock == Tick /\ UNCHANGED <<call, schedVars>>

VJNext ==
    \/ \E th \in RequestThreads : Request(th)
    \/ SchedulerThread
    \/ Spotify
    \/ Clock

VJSpec == VJInit /\ [][VJNext]_vjVars

-----------------------------------------------------------------------------
(* Properties.                                                             *)

\* Over the queues of the data store and beside the requests, the scheduler's thread
\* behaves as it does over the playlist, so that what holds of it there holds in the
\* jukebox: its pops are those of the playlist, nobody else makes one, and nothing else a
\* request does is seen by it.
ImplementsScheduler == Sched!SSBehaviour

\* Taken out by the scheduler, which has yet to hand it to Spotify.
Loaded == IF pc = "setPlayback" THEN {CurrentId} ELSE {}

Accepted == Queued \cup InMove \cup Loaded

\* Whatever requests race with each other and with the scheduler, a track that was
\* accepted is kept until it is started, or Spotify reports that it cannot be, or the
\* request of an admin removes it.
NoTrackForgotten ==
    [][\A t \in Accepted \ Accepted' :
          \/ t \in Loaded /\ (handed' = t \/ refused')
          \/ \E th \in RequestThreads :
                /\ call'[th] # call[th]
                /\ Op(th) = "removeTrack" /\ call[th].req.track = t
                /\ mUsers[call[th].req.sid].isAdmin]_vjVars

\* No request but an admin's touches the player or the state of the scheduler.
OnlyAdminsControl ==
    [][call' # call /\ <<player, mSchedulerState>>' # <<player, mSchedulerState>>
         => \E th \in RequestThreads :
                call'[th] # call[th] /\ mUsers[call[th].req.sid].isAdmin]_vjVars

=============================================================================
