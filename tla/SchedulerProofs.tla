--------------------------- MODULE SchedulerProofs ---------------------------
(***************************************************************************)
(* Proofs of the safety properties of SimpleScheduler, for any tracks, any *)
(* disturbances and any number of skip requests.  Fairness plays no part   *)
(* in them: they are about SSBehaviour.                                    *)
(***************************************************************************)
EXTENDS SimpleScheduler, TLAPS

Watching == mSchedulerState \in {"CheckPlaying", "Playing"}

Explained(p) == p \in Playback => p.track = current \/ meddled

PlaysHanded(p) == p \in Playback /\ p.isPlaying /\ p.track = handed

\* The playlist's part of the type invariant.
PLTypeOK ==
    /\ admin \in Seq(TrackIds)
    /\ user \in SUBSET TrackIds
    /\ current \in TrackIds \cup {NoTrack}

\* Between the pop and setPlayback the state is PlayNextSong and there is a track.
Popped == pc = "setPlayback" => mSchedulerState = "PlayNextSong" /\ current \in TrackIds

\* Nothing that areQueuesEmpty was asked for changes while it is answered.
Asking == pc = "readNormalQueue" => AsksQueues

\* While a track is watched, Spotify shows no other unless its user chose it.
ShowsOurs == Watching => Explained(player) /\ Explained(poll)

\* In the states that lead to a pop, the track before does not play any more.
Silent == ~excused /\ ~meddled /\ ~Watching => ~PlaysHanded(player)

\* If it plays now, it did when Spotify was polled.
PolledIt ==
    ~excused /\ ~meddled /\ pc # "poll" /\ PlaysHanded(player) => PlaysHanded(poll)

IInv ==
    /\ PLTypeOK
    /\ SSTypeOK
    /\ Popped
    /\ Asking
    /\ WatchesHandedTrack
    /\ ShowsOurs
    /\ ReportConsistent
    /\ NothingPoppedInVain
    /\ Silent
    /\ PolledIt

-----------------------------------------------------------------------------

LEMMA RemovesATrack ==
    ASSUME NEW s \in Seq(TrackIds), NEW i \in DOMAIN s
    PROVE  RemoveAt(s, i) \in Seq(TrackIds)
BY DEF RemoveAt

LEMMA InitOk == SSInit => IInv
<1> SUFFICES ASSUME SSInit PROVE IInv
  OBVIOUS
<1>1. PLTypeOK /\ SSTypeOK
  <2>1. PLTypeOK
    BY DEF SSInit, PLInit, PLTypeOK
  <2>2. skips \in 0..MaxSkips
    BY MaxSkipsAssumption DEF SSInit
  <2>3. /\ heard \in BOOLEAN /\ paused \in BOOLEAN /\ refused \in BOOLEAN
      /\ excused \in BOOLEAN /\ meddled \in BOOLEAN
    BY Zenon DEF SSInit
  <2> QED BY <2>1, <2>2, <2>3 DEF SSInit, SSTypeOK, States
<1>2. Popped /\ WatchesHandedTrack /\ ShowsOurs /\ ReportConsistent /\ NothingPoppedInVain /\ Asking
  BY
     DEF SSInit, PLInit, Popped, Asking, WatchesHandedTrack, ShowsOurs, Watching,
         ReportConsistent,
         NothingPoppedInVain
<1>3. Silent /\ PolledIt
  BY PlaybackAssumption DEF SSInit, Silent, PolledIt, PlaysHanded
<1> QED BY <1>1, <1>2, <1>3 DEF IInv

-----------------------------------------------------------------------------
(* The playlist.                                                           *)

LEMMA PlayTypes ==
    ASSUME PLTypeOK, Play
    PROVE  PLTypeOK' /\ current' \in TrackIds
BY DEF PLTypeOK, Play, PlayAdmin, PlayUser

LEMMA ClientTypes ==
    ASSUME PLTypeOK, NEW t \in TrackIds, Enqueue(t) \/ Withdraw(t)
    PROVE  PLTypeOK' /\ current' = current
<1>1. CASE Enqueue(t)
  BY <1>1 DEF PLTypeOK, Enqueue
<1>2. CASE Withdraw(t)
  BY <1>2, RemovesATrack DEF PLTypeOK, Withdraw
<1> QED BY <1>1, <1>2

-----------------------------------------------------------------------------
(* What the calls of Spotify leave.                                        *)

LEMMA Players ==
    ASSUME player \in Playback \cup {NoPlayback}, NEW b \in BOOLEAN
    PROVE  /\ player # NoPlayback => /\ [player EXCEPT !.isPlaying = b] \in Playback
                                    /\ [player EXCEPT !.isPlaying = b].track = player.track
                                    /\ [player EXCEPT !.isPlaying = b].isPlaying = b
BY DEF Playback

LEMMA AtItsBeginning ==
    ASSUME NEW t \in TrackIds \cup {Foreign}, NEW b \in BOOLEAN
    PROVE  [track |-> t, progress |-> 0, isPlaying |-> b] \in Playback
BY DEF Playback

\* pause leaves a playback of the same track that does not play.
LEMMA Paused ==
    ASSUME player \in Playback \cup {NoPlayback}
    PROVE  /\ PausedPlayer \in Playback \cup {NoPlayback}
           /\ PausedPlayer \in Playback => player \in Playback /\ PausedPlayer.track = player.track
           /\ ~PlaysHanded(PausedPlayer)
BY Players, PlaybackAssumption DEF PausedPlayer, PlaysHanded

\* play leaves a playback of the same track.
LEMMA Resumed ==
    ASSUME player \in Playback \cup {NoPlayback}
    PROVE  /\ ResumedPlayer \in Playback \cup {NoPlayback}
           /\ ResumedPlayer \in Playback => player \in Playback /\ ResumedPlayer.track = player.track
BY Players, PlaybackAssumption DEF ResumedPlayer

LEMMA Started ==
    ASSUME current \in TrackIds
    PROVE  StartedPlayer \in Playback /\ StartedPlayer.track = current
BY DEF StartedPlayer, Playback

-----------------------------------------------------------------------------
(* A lemma for every action.                                               *)

USE ForeignAssumption, PlaybackAssumption

\* Primed, for the actions that leave the playlist alone.
LEMMA SamePlaylist ==
    ASSUME PLTypeOK, UNCHANGED plVars
    PROVE  PLTypeOK' /\ current' = current
BY DEF PLTypeOK, plVars

LEMMA PollAnsweredOk ==
    ASSUME IInv, PollAnswered
    PROVE  IInv'
<1>1. PLTypeOK' /\ SSTypeOK'
  BY SamePlaylist DEF IInv, SSTypeOK, States, Popped, PollAnswered, CurrentPlayback, historyVars
<1>2. Popped' /\ Asking' /\ WatchesHandedTrack' /\ NothingPoppedInVain'
  BY SamePlaylist
     DEF IInv, SSTypeOK, Popped, Asking, AsksQueues, WatchesHandedTrack, NothingPoppedInVain,
         PLTypeOK, PollAnswered, CurrentPlayback, historyVars
<1>3. ShowsOurs' /\ ReportConsistent'
  BY SamePlaylist
     DEF IInv, SSTypeOK, Popped, ShowsOurs, Explained, Watching, ReportConsistent,
         PollAnswered, CurrentPlayback, historyVars
<1>4. Silent' /\ PolledIt'
  BY SamePlaylist
     DEF IInv, SSTypeOK, Silent, PolledIt, PlaysHanded, Watching, WatchesHandedTrack, Popped,
         PollAnswered, CurrentPlayback, historyVars
<1> QED BY <1>1, <1>2, <1>3, <1>4 DEF IInv

LEMMA PollFailedOk ==
    ASSUME IInv, PollFailed
    PROVE  IInv'
<1>1. PLTypeOK' /\ SSTypeOK'
  BY SamePlaylist DEF IInv, SSTypeOK, States, Popped, PollFailed, historyVars
<1>2. Popped' /\ Asking' /\ WatchesHandedTrack' /\ NothingPoppedInVain'
  BY SamePlaylist
     DEF IInv, SSTypeOK, Popped, Asking, AsksQueues, WatchesHandedTrack, NothingPoppedInVain,
         PLTypeOK, PollFailed, historyVars
<1>3. ShowsOurs' /\ ReportConsistent'
  BY SamePlaylist
     DEF IInv, SSTypeOK, Popped, ShowsOurs, Explained, Watching, ReportConsistent,
         PollFailed, historyVars
<1>4. Silent' /\ PolledIt'
  BY SamePlaylist
     DEF IInv, SSTypeOK, Silent, PolledIt, PlaysHanded, Watching, WatchesHandedTrack, Popped,
         PollFailed, historyVars
<1> QED BY <1>1, <1>2, <1>3, <1>4 DEF IInv

LEMMA ReadAdminQueueOk ==
    ASSUME IInv, ReadAdminQueue
    PROVE  IInv'
<1>1. PLTypeOK' /\ SSTypeOK'
  BY SamePlaylist
     DEF IInv, SSTypeOK, States, Popped, ReadAdminQueue, Publish, Continue, AsksQueues,
         historyVars
<1>2. Popped' /\ Asking' /\ WatchesHandedTrack' /\ NothingPoppedInVain'
  BY SamePlaylist
     DEF IInv, SSTypeOK, Popped, Asking, AsksQueues, WatchesHandedTrack, NothingPoppedInVain,
         PLTypeOK, ReadAdminQueue, Publish, Continue, historyVars
<1>3. ShowsOurs' /\ ReportConsistent'
  BY SamePlaylist
     DEF IInv, SSTypeOK, Popped, ShowsOurs, Explained, Watching, ReportConsistent,
         ReadAdminQueue, Publish, Continue, AsksQueues, historyVars
<1>4. Silent' /\ PolledIt'
  BY SamePlaylist
     DEF IInv, SSTypeOK, Silent, PolledIt, PlaysHanded, Watching, WatchesHandedTrack, Popped,
         ReadAdminQueue, Publish, Continue, AsksQueues, historyVars
<1> QED BY <1>1, <1>2, <1>3, <1>4 DEF IInv

LEMMA ReadNormalQueueOk ==
    ASSUME IInv, ReadNormalQueue
    PROVE  IInv'
<1>1. PLTypeOK' /\ SSTypeOK'
  BY SamePlaylist DEF IInv, SSTypeOK, States, Popped, ReadNormalQueue, Publish, historyVars
<1>2. Popped' /\ Asking' /\ WatchesHandedTrack' /\ NothingPoppedInVain'
  BY SamePlaylist
     DEF IInv, SSTypeOK, Popped, Asking, AsksQueues, WatchesHandedTrack, NothingPoppedInVain,
         PLTypeOK, ReadNormalQueue, Publish, historyVars
<1>3. ShowsOurs' /\ ReportConsistent'
  BY SamePlaylist
     DEF IInv, SSTypeOK, Popped, ShowsOurs, Explained, Watching, ReportConsistent,
         ReadNormalQueue, Publish, historyVars
<1>4. Silent' /\ PolledIt'
  BY SamePlaylist
     DEF IInv, SSTypeOK, Silent, Asking, AsksQueues, PolledIt, PlaysHanded, Watching,
         WatchesHandedTrack, Popped, ReadNormalQueue, Publish, historyVars
<1> QED BY <1>1, <1>2, <1>3, <1>4 DEF IInv

LEMMA PopTrackOk ==
    ASSUME IInv, PopTrack
    PROVE  IInv'
<1>1. PLTypeOK' /\ SSTypeOK'
  BY SamePlaylist, PlayTypes
     DEF IInv, SSTypeOK, States, Popped, PopTrack, Continue, Abort, historyVars
<1>2. Popped' /\ Asking' /\ WatchesHandedTrack' /\ NothingPoppedInVain'
  BY SamePlaylist, PlayTypes
     DEF IInv, SSTypeOK, Popped, Asking, AsksQueues, WatchesHandedTrack, NothingPoppedInVain,
         PLTypeOK, PopTrack, Continue, Abort, historyVars
<1>3. ShowsOurs' /\ ReportConsistent'
  BY SamePlaylist, PlayTypes
     DEF IInv, SSTypeOK, Popped, ShowsOurs, Explained, Watching, ReportConsistent,
         PopTrack, Continue, Abort, historyVars
<1>4. Silent' /\ PolledIt'
  BY SamePlaylist, PlayTypes
     DEF IInv, SSTypeOK, Silent, PolledIt, PlaysHanded, Watching, WatchesHandedTrack, Popped,
         PopTrack, Continue, Abort, historyVars
<1> QED BY <1>1, <1>2, <1>3, <1>4 DEF IInv

LEMMA SetPlaybackOk ==
    ASSUME IInv, SetPlayback
    PROVE  IInv'
<1>1. PLTypeOK' /\ SSTypeOK'
  BY SamePlaylist, Started DEF IInv, SSTypeOK, States, Popped, SetPlayback, Publish, historyVars
<1>2. Popped' /\ Asking' /\ WatchesHandedTrack' /\ NothingPoppedInVain'
  BY SamePlaylist, Started
     DEF IInv, SSTypeOK, Popped, Asking, AsksQueues, WatchesHandedTrack, NothingPoppedInVain,
         PLTypeOK, SetPlayback, Publish, historyVars
<1>3. ShowsOurs' /\ ReportConsistent'
  BY SamePlaylist, Started
     DEF IInv, SSTypeOK, Popped, ShowsOurs, Explained, Watching, ReportConsistent,
         SetPlayback, Publish, historyVars
<1>4. Silent' /\ PolledIt'
  BY SamePlaylist, Started
     DEF IInv, SSTypeOK, Silent, PolledIt, PlaysHanded, Watching, WatchesHandedTrack, Popped,
         SetPlayback, Publish, historyVars
<1> QED BY <1>1, <1>2, <1>3, <1>4 DEF IInv

LEMMA SetPlaybackFailedOk ==
    ASSUME IInv, SetPlaybackFailed
    PROVE  IInv'
<1>1. PLTypeOK' /\ SSTypeOK'
  BY SamePlaylist, Started
     DEF IInv, SSTypeOK, States, Popped, SetPlaybackFailed, TransferredPlayers, Abort,
         historyVars
<1>2. Popped' /\ Asking' /\ WatchesHandedTrack' /\ NothingPoppedInVain'
  BY SamePlaylist, Started
     DEF IInv, SSTypeOK, Popped, Asking, AsksQueues, WatchesHandedTrack, NothingPoppedInVain,
         PLTypeOK, SetPlaybackFailed, TransferredPlayers, Abort,
         historyVars
<1>3. ShowsOurs' /\ ReportConsistent'
  BY SamePlaylist, Started
     DEF IInv, SSTypeOK, Popped, ShowsOurs, Explained, Watching, ReportConsistent,
         SetPlaybackFailed, TransferredPlayers, Abort,
         historyVars
<1>4. Silent' /\ PolledIt'
  BY SamePlaylist, Started
     DEF IInv, SSTypeOK, Silent, PolledIt, PlaysHanded, Watching, WatchesHandedTrack, Popped,
         SetPlaybackFailed, TransferredPlayers, Abort,
         historyVars
<1> QED BY <1>1, <1>2, <1>3, <1>4 DEF IInv

LEMMA CheckPlayingOk ==
    ASSUME IInv, CheckPlaying
    PROVE  IInv'
<1>1. PLTypeOK' /\ SSTypeOK'
  BY SamePlaylist, Resumed
     DEF IInv, SSTypeOK, States, Popped, CheckPlaying, Publish, Abort, historyVars
<1>2. Popped' /\ Asking' /\ WatchesHandedTrack' /\ NothingPoppedInVain'
  BY SamePlaylist, Resumed
     DEF IInv, SSTypeOK, Popped, Asking, AsksQueues, WatchesHandedTrack, NothingPoppedInVain,
         PLTypeOK, CheckPlaying, Publish, Abort, historyVars
<1>3. ShowsOurs' /\ ReportConsistent'
  BY SamePlaylist, Resumed
     DEF IInv, SSTypeOK, Popped, ShowsOurs, Explained, Watching, ReportConsistent,
         CheckPlaying, Publish, Abort, historyVars
<1>4. Silent' /\ PolledIt'
  BY SamePlaylist, Resumed
     DEF IInv, SSTypeOK, Silent, PolledIt, PlaysHanded, Watching, WatchesHandedTrack, Popped,
         CheckPlaying, Publish, Abort, historyVars
<1> QED BY <1>1, <1>2, <1>3, <1>4 DEF IInv

LEMMA KeepPlayingOk ==
    ASSUME IInv, KeepPlaying
    PROVE  IInv'
<1>1. PLTypeOK' /\ SSTypeOK'
  BY SamePlaylist
     DEF IInv, SSTypeOK, States, Popped, KeepPlaying, Publish, Abort, AsksQueues, historyVars
<1>2. Popped' /\ Asking' /\ WatchesHandedTrack' /\ NothingPoppedInVain'
  BY SamePlaylist
     DEF IInv, SSTypeOK, Popped, Asking, AsksQueues, WatchesHandedTrack, NothingPoppedInVain,
         PLTypeOK, KeepPlaying, Publish, Abort, historyVars
<1>3. ShowsOurs' /\ ReportConsistent'
  BY SamePlaylist
     DEF IInv, SSTypeOK, Popped, ShowsOurs, Explained, Watching, ReportConsistent,
         KeepPlaying, Publish, Abort, AsksQueues, historyVars
<1>4. Silent' /\ PolledIt'
  BY SamePlaylist
     DEF IInv, SSTypeOK, Silent, PolledIt, PlaysHanded, Watching, WatchesHandedTrack, Popped,
         KeepPlaying, Publish, Abort, AsksQueues, historyVars
<1> QED BY <1>1, <1>2, <1>3, <1>4 DEF IInv

LEMMA SkipOk ==
    ASSUME IInv, Skip
    PROVE  IInv'
<1>1. PLTypeOK' /\ SSTypeOK'
  BY SamePlaylist, Paused, MaxSkipsAssumption
     DEF IInv, SSTypeOK, States, Popped, Skip, threadVars, historyVars
<1>2. Popped' /\ Asking' /\ WatchesHandedTrack' /\ NothingPoppedInVain'
  BY SamePlaylist, Paused
     DEF IInv, SSTypeOK, Popped, Asking, AsksQueues, WatchesHandedTrack, NothingPoppedInVain,
         PLTypeOK, Skip, threadVars, historyVars
<1>3. ShowsOurs' /\ ReportConsistent'
  BY SamePlaylist, Paused
     DEF IInv, SSTypeOK, Popped, ShowsOurs, Explained, Watching, ReportConsistent, Skip,
         threadVars, historyVars
<1>4. Silent' /\ PolledIt'
  BY SamePlaylist, Paused
     DEF IInv, SSTypeOK, Silent, PolledIt, PlaysHanded, Watching, WatchesHandedTrack, Popped,
         Skip, threadVars, historyVars
<1> QED BY <1>1, <1>2, <1>3, <1>4 DEF IInv

LEMMA PauseOk ==
    ASSUME IInv, Pause
    PROVE  IInv'
<1>1. PLTypeOK' /\ SSTypeOK'
  BY SamePlaylist, Paused DEF IInv, SSTypeOK, States, Popped, Pause, threadVars, historyVars
<1>2. Popped' /\ Asking' /\ WatchesHandedTrack' /\ NothingPoppedInVain'
  BY SamePlaylist, Paused
     DEF IInv, SSTypeOK, Popped, Asking, AsksQueues, WatchesHandedTrack, NothingPoppedInVain,
         PLTypeOK, Pause, threadVars, historyVars
<1>3. ShowsOurs' /\ ReportConsistent'
  BY SamePlaylist, Paused
     DEF IInv, SSTypeOK, Popped, ShowsOurs, Explained, Watching, ReportConsistent, Pause,
         threadVars, historyVars
<1>4. Silent' /\ PolledIt'
  BY SamePlaylist, Paused
     DEF IInv, SSTypeOK, Silent, PolledIt, PlaysHanded, Watching, WatchesHandedTrack, Popped,
         Pause, threadVars, historyVars
<1> QED BY <1>1, <1>2, <1>3, <1>4 DEF IInv

LEMMA ResumeOk ==
    ASSUME IInv, Resume
    PROVE  IInv'
<1>1. PLTypeOK' /\ SSTypeOK'
  BY SamePlaylist, Resumed DEF IInv, SSTypeOK, States, Popped, Resume, threadVars, historyVars
<1>2. Popped' /\ Asking' /\ WatchesHandedTrack' /\ NothingPoppedInVain'
  BY SamePlaylist, Resumed
     DEF IInv, SSTypeOK, Popped, Asking, AsksQueues, WatchesHandedTrack, NothingPoppedInVain,
         PLTypeOK, Resume, threadVars, historyVars
<1>3. ShowsOurs' /\ ReportConsistent'
  BY SamePlaylist, Resumed
     DEF IInv, SSTypeOK, Popped, ShowsOurs, Explained, Watching, ReportConsistent, Resume,
         threadVars, historyVars
<1>4. Silent' /\ PolledIt'
  BY SamePlaylist, Resumed
     DEF IInv, SSTypeOK, Silent, PolledIt, PlaysHanded, Watching, WatchesHandedTrack, Popped,
         Resume, threadVars, historyVars
<1> QED BY <1>1, <1>2, <1>3, <1>4 DEF IInv

LEMMA AdvanceOk ==
    ASSUME IInv, Advance
    PROVE  IInv'
<1>1. PLTypeOK' /\ SSTypeOK'
  BY SamePlaylist, Players
     DEF IInv, SSTypeOK, States, Playback, Popped, Advance, PlayerIs, threadVars, historyVars
<1>2. Popped' /\ Asking' /\ WatchesHandedTrack' /\ NothingPoppedInVain'
  BY SamePlaylist, Players
     DEF IInv, SSTypeOK, Popped, Asking, AsksQueues, WatchesHandedTrack, NothingPoppedInVain,
         PLTypeOK, Advance, PlayerIs, threadVars, historyVars
<1>3. ShowsOurs' /\ ReportConsistent'
  BY SamePlaylist, Players
     DEF IInv, SSTypeOK, Popped, ShowsOurs, Explained, Watching, ReportConsistent,
         Advance, PlayerIs, threadVars, historyVars
<1>4. Silent' /\ PolledIt'
  BY SamePlaylist, Players
     DEF IInv, SSTypeOK, Silent, PolledIt, PlaysHanded, Watching, WatchesHandedTrack, Popped,
         Advance, PlayerIs, threadVars, historyVars
<1> QED BY <1>1, <1>2, <1>3, <1>4 DEF IInv

LEMMA FinishOk ==
    ASSUME IInv, Finish
    PROVE  IInv'
<1>1. PLTypeOK' /\ SSTypeOK'
  <2>1. player \in Playback /\ player' = [player EXCEPT !.progress = 0, !.isPlaying = FALSE]
    BY DEF IInv, SSTypeOK, Finish, PlayerIs
  <2>2. player' = [track |-> player.track, progress |-> 0, isPlaying |-> FALSE]
    BY <2>1 DEF Playback
  <2>3. player.track \in TrackIds \cup {Foreign}
    BY <2>1 DEF Playback
  <2>4. player' \in Playback
    BY <2>2, <2>3, AtItsBeginning, Zenon
  <2> QED BY <2>4, SamePlaylist DEF IInv, SSTypeOK, Finish, PlayerIs, threadVars, historyVars
<1>2. Popped' /\ Asking' /\ WatchesHandedTrack' /\ NothingPoppedInVain'
  BY SamePlaylist, Players
     DEF IInv, SSTypeOK, Popped, Asking, AsksQueues, WatchesHandedTrack, NothingPoppedInVain,
         PLTypeOK, Finish, PlayerIs, threadVars, historyVars
<1>3. ShowsOurs' /\ ReportConsistent'
  BY SamePlaylist, Players
     DEF IInv, SSTypeOK, Popped, ShowsOurs, Explained, Watching, ReportConsistent, Finish,
         PlayerIs, threadVars, historyVars
<1>4. Silent' /\ PolledIt'
  BY SamePlaylist, Players
     DEF IInv, SSTypeOK, Silent, PolledIt, PlaysHanded, Watching, WatchesHandedTrack, Popped,
         Finish, PlayerIs, threadVars, historyVars
<1> QED BY <1>1, <1>2, <1>3, <1>4 DEF IInv

LEMMA DisturbOk ==
    ASSUME IInv, Disturb
    PROVE  IInv'
<1>1. PLTypeOK' /\ SSTypeOK'
  BY SamePlaylist
     DEF IInv, SSTypeOK, States, Popped, Disturb, UserPlays, UserCloses, PlayerIs, threadVars, historyVars
<1>2. Popped' /\ Asking' /\ WatchesHandedTrack' /\ NothingPoppedInVain'
  BY SamePlaylist
     DEF IInv, SSTypeOK, Popped, Asking, AsksQueues, WatchesHandedTrack, NothingPoppedInVain,
         PLTypeOK, Disturb, UserPlays, UserCloses, PlayerIs, threadVars, historyVars
<1>3. ShowsOurs' /\ ReportConsistent'
  BY SamePlaylist
     DEF IInv, SSTypeOK, Popped, ShowsOurs, Explained, Watching, ReportConsistent,
         Disturb, UserPlays, UserCloses, PlayerIs, threadVars, historyVars
<1>4. Silent' /\ PolledIt'
  BY SamePlaylist
     DEF IInv, SSTypeOK, Silent, PolledIt, PlaysHanded, Watching, WatchesHandedTrack, Popped,
         Disturb, UserPlays, UserCloses, PlayerIs, threadVars, historyVars
<1> QED BY <1>1, <1>2, <1>3, <1>4 DEF IInv

LEMMA ClientsOk ==
    ASSUME IInv, Clients
    PROVE  IInv'
<1>1. PLTypeOK' /\ SSTypeOK'
  BY ClientTypes DEF IInv, SSTypeOK, States, Popped, Clients, threadVars, historyVars
<1>2. Popped' /\ Asking' /\ WatchesHandedTrack' /\ NothingPoppedInVain'
  BY ClientTypes
     DEF IInv, SSTypeOK, Popped, Asking, AsksQueues, WatchesHandedTrack, NothingPoppedInVain,
         PLTypeOK, Clients, threadVars, historyVars
<1>3. ShowsOurs' /\ ReportConsistent'
  BY ClientTypes
     DEF IInv, SSTypeOK, Popped, ShowsOurs, Explained, Watching, ReportConsistent,
         Clients, threadVars, historyVars
<1>4. Silent' /\ PolledIt'
  BY ClientTypes
     DEF IInv, SSTypeOK, Silent, PolledIt, PlaysHanded, Watching, WatchesHandedTrack, Popped,
         Clients, threadVars, historyVars
<1> QED BY <1>1, <1>2, <1>3, <1>4 DEF IInv

-----------------------------------------------------------------------------
(* The theorems.                                                           *)

LEMMA OutsideOk == IInv /\ Outside => IInv'
BY PauseOk, ResumeOk, AdvanceOk, FinishOk, DisturbOk, ClientsOk DEF Outside

LEMMA CycleOk == IInv /\ Cycle => IInv'
BY PollFailedOk, ReadAdminQueueOk, ReadNormalQueueOk, PopTrackOk, SetPlaybackOk,
   SetPlaybackFailedOk, CheckPlayingOk, KeepPlayingOk DEF Cycle

LEMMA StutterOk == IInv /\ UNCHANGED ssVars => IInv'
BY DEF IInv, PLTypeOK, SSTypeOK, Popped, Asking, AsksQueues, WatchesHandedTrack, ShowsOurs,
       Explained, Watching, ReportConsistent, NothingPoppedInVain, Silent, PolledIt,
       PlaysHanded, ssVars, plVars, threadVars, historyVars

LEMMA StepOk == IInv /\ [SSNext]_ssVars => IInv'
BY PollAnsweredOk, CycleOk, SkipOk, OutsideOk, StutterOk DEF SSNext, DoSchedule

LEMMA Invariant == SSBehaviour => []IInv
BY InitOk, StepOk, PTL DEF SSBehaviour

\* The members of the scheduler and its locals keep their types (SimpleScheduler.h).
THEOREM SchedulerTyped == SSBehaviour => []SSTypeOK
<1>1. IInv => SSTypeOK
  BY DEF IInv
<1> QED BY <1>1, Invariant, PTL

\* The scheduler watches the track it handed to Spotify, whatever else is done with
\* the player (SimpleScheduler.cpp:172-202).
THEOREM HandedTrackWatched == SSBehaviour => []WatchesHandedTrack
<1>1. IInv => WatchesHandedTrack
  BY DEF IInv
<1> QED BY <1>1, Invariant, PTL

\* What it published last, while it is in the state Playing, is its own track unless
\* Spotify's user chose another one since (SimpleScheduler.cpp:219, JukeBox.cpp:215).
THEOREM ReportsConsistent == SSBehaviour => []ReportConsistent
<1>1. IInv => ReportConsistent
  BY DEF IInv
<1> QED BY <1>1, Invariant, PTL

\* A popped track is played or was refused (SimpleScheduler.cpp:134-173).
THEOREM PopsNotInVain == SSBehaviour => []NothingPoppedInVain
<1>1. IInv => NothingPoppedInVain
  BY DEF IInv
<1> QED BY <1>1, Invariant, PTL

\* The scheduler starts no track over the one it started before, unless since then an
\* admin, Spotify's user or a transfer of the playback made the player do something, or
\* an answer was lost (SimpleScheduler.cpp:145-173).
THEOREM TracksNotCutOff == SSBehaviour => NeverCutOff
<1>1. ASSUME IInv, SetPlayback, ~excused, ~meddled
      PROVE  ~(player # NoPlayback /\ player.isPlaying /\ player.track = handed)
  BY <1>1 DEF IInv, SSTypeOK, Popped, Silent, Watching, PlaysHanded, SetPlayback
<1>2. IInv /\ [SSNext]_ssVars
        => [SetPlayback /\ ~excused /\ ~meddled
              => ~(player # NoPlayback /\ player.isPlaying /\ player.track = handed)]_ssVars
  BY <1>1
<1> QED BY <1>2, Invariant, PTL DEF SSBehaviour, NeverCutOff

=============================================================================
