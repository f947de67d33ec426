------------------------ MODULE VirtualJukeboxProofs ------------------------
(***************************************************************************)
(* Proofs about the whole jukebox, for any tracks, sessions, profiles,     *)
(* threads, disturbances and number of skips.  Its requests are those of   *)
(* JukeBox and its scheduler is the one of SimpleScheduler, so that what   *)
(* is proved of either holds of the whole; and no accepted track is        *)
(* forgotten on its way through both.                                      *)
(***************************************************************************)
EXTENDS VirtualJukebox, JukeBoxProofs

\* The proofs about the scheduler, over the queues of the data store.
SP == INSTANCE SchedulerProofs WITH
    admin   <- IdSeq(queue["Admin"]),
    user    <- IdsOf(queue["Normal"]),
    current <- CurrentId

-----------------------------------------------------------------------------
(* The requests of the whole are those of JukeBox.                         *)

LEMMA PlayerUntouched == VJNext => [JBNext]_jbVars
<1>1. ASSUME NEW th \in RequestThreads, Request(th) PROVE JBNext
  BY <1>1 DEF Request, JBNext
<1>2. CASE NextTrackCall
  BY <1>2 DEF NextTrackCall, JBNext, SchedulerStep, jbVars
<1>3. CASE DropVotes
  BY <1>3 DEF DropVotes, JBNext, SchedulerStep
<1>4. CASE SetPlaybackCall \/ RestOfCycle \/ Spotify
  BY <1>4 DEF SetPlaybackCall, RestOfCycle, Spotify
<1>5. CASE Clock
  BY <1>5 DEF Clock, JBNext
<1> QED BY <1>1, <1>2, <1>3, <1>4, <1>5 DEF VJNext, SchedulerThread

\* The player and the states of the scheduler restrict no request and change nothing
\* of what requests see: the jukebox is one of JukeBox.
THEOREM RequestsImplemented == VJSpec => JBSpec
<1>1. VJInit => JBInit
  BY DEF VJInit
<1>2. [VJNext]_vjVars => [JBNext]_jbVars
  BY PlayerUntouched DEF vjVars
<1> QED BY <1>1, <1>2, PTL DEF VJSpec, JBSpec

\* What is proved of the requests and of the data store holds of the whole: no track is
\* queued twice or out of order, the queues are a playlist (RAMDataStore.cpp), no request
\* loses its user or a track, and only admins curate (JukeBox.cpp:67-362).
THEOREM StoreSound ==
    VJSpec => /\ []NoTrackQueuedTwice /\ []SortedUnlessDownvoted /\ ImplementsPlaylist
              /\ []UserStillThere /\ NoTrackLost /\ OnlyAdminsCurate
<1>1. JBSpec => DSSpec
  BY DataStoreImplemented DEF ImplementsDataStore
<1>2. JBSpec => []NoTrackQueuedTwice /\ []SortedUnlessDownvoted /\ ImplementsPlaylist
  BY <1>1, QueuedOnce, PlayingOrder, PlaylistImplemented
<1>3. JBSpec => []UserStillThere /\ NoTrackLost /\ OnlyAdminsCurate
  BY UserStays, TracksKept, AdminsCurate
<1> QED BY <1>2, <1>3, RequestsImplemented

LEMMA RequestsInvariant == VJSpec => []JBInv
BY RequestsImplemented, JukeBoxInvariance, PTL

-----------------------------------------------------------------------------
(* The scheduler's thread of the whole is the one of SimpleScheduler.      *)

\* The playlist and the rest of what the scheduler's specification is about.
LEMMA SchedVarsSame ==
    ASSUME UNCHANGED schedVars, UNCHANGED Implements!plVars
    PROVE  UNCHANGED Sched!ssVars
BY DEF schedVars, Implements!plVars, Sched!ssVars, Sched!plVars, Sched!threadVars,
   Sched!historyVars

LEMMA StoreSame ==
    ASSUME UNCHANGED <<queue, mCurrentTrack>>
    PROVE  UNCHANGED Implements!plVars
BY DEF Implements!plVars, CurrentId

\* What a request does to the data store the playlist sees as an addition, as a removal
\* or not at all.
LEMMA RequestSeen ==
    ASSUME JBInv, NEW th \in RequestThreads, RequestStep(th)
    PROVE  \/ \E t \in TrackIds : Implements!Enqueue(t) \/ Implements!Withdraw(t)
           \/ UNCHANGED Implements!plVars
<1>1. QueuesTyped /\ now \in Nat /\ th \in Threads
  BY IInvTyped DEF JBInv, IInv, DSTypeOK, RequestThreads
<1>2. RequestStore(th)
  BY RequestStores
<1>3. CASE UNCHANGED <<queue, mCurrentTrack>>
  BY <1>3, StoreSame
<1>4. ASSUME NEW t \in TrackIds, NEW by \in Names, NEW q \in QueueType, AddTrack(th, t, by, q)
      PROVE  Implements!Enqueue(t)
  BY <1>1, <1>4, AddTrackEnqueues
<1>5. ASSUME NEW t \in TrackIds, NEW q \in QueueType, RemoveTrack(th, t, q)
      PROVE  Implements!Withdraw(t)
  BY <1>1, <1>5, RemoveTrackWithdraws
<1>6. ASSUME NEW s \in SessionIds, NEW t \in TrackIds, NEW vote \in BOOLEAN,
             VoteTrack(th, s, t, vote)
      PROVE  UNCHANGED Implements!plVars
  BY <1>1, <1>6, VoteTrackUnseen, UnseenStutters
<1> QED BY <1>2, <1>3, <1>4, <1>5, <1>6 DEF RequestStore, dsVars, AddUser, RemoveVotesForTrack

LEMMA RequestIsClient ==
    ASSUME JBInv, NEW th \in RequestThreads, Request(th)
    PROVE  [Sched!SSNext]_(Sched!ssVars)
<1>1. RequestStep(th)
  BY DEF Request
<1>2. CASE UNCHANGED schedVars
  <2>1. CASE UNCHANGED Implements!plVars
    BY <1>2, <2>1, SchedVarsSame
  <2>2. ASSUME NEW t \in TrackIds, Implements!Enqueue(t) \/ Implements!Withdraw(t)
        PROVE  Sched!Clients
    <3>1. Sched!Enqueue(t) \/ Sched!Withdraw(t)
      BY <2>2 DEF Sched!Enqueue, Implements!Enqueue, Sched!Withdraw, Implements!Withdraw,
         Sched!Known, Implements!Known, Sched!RemoveAt, Implements!RemoveAt
    <3>2. UNCHANGED <<player, Sched!threadVars, Sched!historyVars>>
      BY <1>2 DEF schedVars, Sched!threadVars, Sched!historyVars
    <3> QED BY <3>1, <3>2, PlayerAssumption DEF Sched!Clients
  <2> QED BY <1>1, <2>1, <2>2, RequestSeen DEF Sched!SSNext, Sched!Outside
<1>3. CASE Sched!Skip \/ Sched!Pause \/ Sched!Resume
  BY <1>3 DEF Sched!SSNext, Sched!Outside
<1> QED BY <1>2, <1>3 DEF Request

\* A pop of the data store is one of the playlist, and it has a track to pop just when
\* the scheduler's specification says so: the two halves of NextTrackCall agree.
LEMMA PopsAgree ==
    ASSUME JBInv
    PROVE  /\ NextTrack(Scheduler) => Sched!Play
           /\ Sched!NonEmpty <=> Queued # {}
<1>1. QueuesTyped
  BY IInvTyped DEF JBInv
<1>2. NextTrack(Scheduler) => Sched!Play
  <2>1. NextTrack(Scheduler) => Implements!Play
    BY <1>1, NextTrackPlays, SchedulerAssumption
  <2> QED BY <2>1 DEF Sched!Play, Sched!PlayAdmin, Sched!PlayUser,
                      Implements!Play, Implements!PlayAdmin, Implements!PlayUser
<1>3. IdSeq(queue["Admin"]) # <<>> <=> IdsOf(queue["Admin"]) # {}
  <2>1. ASSUME NEW q \in Seq(QueuedTrack)
        PROVE  IdSeq(q) # <<>> <=> IdsOf(q) # {}
    <3>1. CASE q = <<>>
      BY <3>1 DEF IdSeq, IdsOf
    <3>2. CASE q # <<>>
      <4>1. 1 \in DOMAIN q
        BY <3>2, EmptySeq, LenProperties
      <4>2. 1 \in DOMAIN IdSeq(q) /\ q[1].trackId \in IdsOf(q)
        BY <4>1 DEF IdSeq, IdsOf
      <4>3. DOMAIN <<>> = {}
        OBVIOUS
      <4> QED BY <4>2, <4>3
    <3> QED BY <3>1, <3>2
  <2> QED BY <1>1, <2>1 DEF QueuesTyped
<1> QED BY <1>2, <1>3 DEF Sched!NonEmpty, Queued

LEMMA StepIsScheduled == JBInv /\ [VJNext]_vjVars => [Sched!SSNext]_(Sched!ssVars)
<1> SUFFICES ASSUME JBInv, [VJNext]_vjVars PROVE [Sched!SSNext]_(Sched!ssVars)
  OBVIOUS
<1>1. ASSUME NEW th \in RequestThreads, Request(th) PROVE [Sched!SSNext]_(Sched!ssVars)
  BY <1>1, RequestIsClient
<1>2. CASE NextTrackCall
  BY <1>2 DEF NextTrackCall, Sched!SSNext, Sched!DoSchedule, Sched!Cycle
<1>3. CASE DropVotes
  BY <1>3, SchedVarsSame, StoreSame DEF DropVotes, RemoveVotesForTrack
<1>4. CASE SetPlaybackCall
  BY <1>4 DEF SetPlaybackCall, Sched!SSNext, Sched!DoSchedule, Sched!Cycle
<1>5. CASE RestOfCycle
  BY <1>5 DEF RestOfCycle, Sched!SSNext, Sched!DoSchedule, Sched!Cycle
<1>6. CASE Spotify
  BY <1>6 DEF Spotify, Sched!SSNext, Sched!Outside
<1>7. CASE Clock
  BY <1>7, SchedVarsSame, StoreSame DEF Clock, Tick
<1>8. CASE UNCHANGED vjVars
  BY <1>8, SchedVarsSame, StoreSame DEF vjVars, jbVars, dsVars
<1> QED BY <1>1, <1>2, <1>3, <1>4, <1>5, <1>6, <1>7, <1>8 DEF VJNext, SchedulerThread

\* Whatever the requests do to the data store, the scheduler's thread behaves as it does
\* over the playlist (SimpleScheduler.cpp:92-222 over RAMDataStore.cpp).
THEOREM SchedulerImplemented == VJSpec => ImplementsScheduler
<1>1. VJInit => Sched!SSInit
  BY DEF VJInit
<1> QED BY <1>1, StepIsScheduled, RequestsInvariant, PTL
        DEF VJSpec, ImplementsScheduler, Sched!SSBehaviour

-----------------------------------------------------------------------------
(* What is proved of the scheduler over the playlist.                      *)

\* The scheduler of SchedulerProofs is the one of VirtualJukebox under another name.
LEMMA SameCycle ==
    /\ Sched!PollAnswered <=> SP!PollAnswered
    /\ Sched!PollFailed <=> SP!PollFailed
    /\ Sched!ReadAdminQueue <=> SP!ReadAdminQueue
    /\ Sched!ReadNormalQueue <=> SP!ReadNormalQueue
    /\ Sched!PopTrack <=> SP!PopTrack
    /\ Sched!SetPlayback <=> SP!SetPlayback
    /\ Sched!SetPlaybackFailed <=> SP!SetPlaybackFailed
    /\ Sched!CheckPlaying <=> SP!CheckPlaying
    /\ Sched!KeepPlaying <=> SP!KeepPlaying
<1> USE DEF Sched!plVars, SP!plVars, Sched!historyVars, SP!historyVars, Sched!Publish, SP!Publish,
        Sched!Abort, SP!Abort, Sched!Continue, SP!Continue
<1>1. Sched!PollAnswered <=> SP!PollAnswered
  BY DEF Sched!PollAnswered, SP!PollAnswered, Sched!CurrentPlayback, SP!CurrentPlayback
<1>2. Sched!PollFailed <=> SP!PollFailed
  BY DEF Sched!PollFailed, SP!PollFailed
<1>3. Sched!AsksQueues <=> SP!AsksQueues
  BY DEF Sched!AsksQueues, SP!AsksQueues
<1>4. Sched!ReadAdminQueue <=> SP!ReadAdminQueue
  BY <1>3 DEF Sched!ReadAdminQueue, SP!ReadAdminQueue
<1>5. Sched!ReadNormalQueue <=> SP!ReadNormalQueue
  BY DEF Sched!ReadNormalQueue, SP!ReadNormalQueue
<1>6. Sched!PopTrack <=> SP!PopTrack
  BY DEF Sched!PopTrack, SP!PopTrack, Sched!Play, SP!Play, Sched!PlayAdmin, SP!PlayAdmin,
     Sched!PlayUser, SP!PlayUser, Sched!NonEmpty, SP!NonEmpty
<1>7. Sched!StartedPlayer = SP!StartedPlayer
  BY DEF Sched!StartedPlayer, SP!StartedPlayer
<1>8. Sched!SetPlayback <=> SP!SetPlayback
  BY <1>7 DEF Sched!SetPlayback, SP!SetPlayback
<1>9. Sched!TransferredPlayers = SP!TransferredPlayers
  BY DEF Sched!TransferredPlayers, SP!TransferredPlayers, Sched!Playback, SP!Playback
<1>10. Sched!SetPlaybackFailed <=> SP!SetPlaybackFailed
  BY <1>7, <1>9 DEF Sched!SetPlaybackFailed, SP!SetPlaybackFailed
<1>11. Sched!ResumedPlayer = SP!ResumedPlayer
  BY DEF Sched!ResumedPlayer, SP!ResumedPlayer
<1>12. Sched!CheckPlaying <=> SP!CheckPlaying
  BY <1>11 DEF Sched!CheckPlaying, SP!CheckPlaying
<1>13. Sched!KeepPlaying <=> SP!KeepPlaying
  BY <1>3 DEF Sched!KeepPlaying, SP!KeepPlaying
<1> QED BY <1>1, <1>2, <1>4, <1>5, <1>6, <1>8, <1>10, <1>12, <1>13

LEMMA SameOutside ==
    /\ Sched!Skip <=> SP!Skip
    /\ Sched!Pause <=> SP!Pause
    /\ Sched!Resume <=> SP!Resume
    /\ Sched!Advance <=> SP!Advance
    /\ Sched!Finish <=> SP!Finish
    /\ Sched!Disturb <=> SP!Disturb
    /\ Sched!Clients <=> SP!Clients
<1> USE DEF Sched!plVars, SP!plVars, Sched!historyVars, SP!historyVars,
        Sched!threadVars, SP!threadVars
<1>1. Sched!PausedPlayer = SP!PausedPlayer /\ Sched!ResumedPlayer = SP!ResumedPlayer
  BY DEF Sched!PausedPlayer, SP!PausedPlayer, Sched!ResumedPlayer, SP!ResumedPlayer
<1>2. Sched!Skip <=> SP!Skip
  BY <1>1 DEF Sched!Skip, SP!Skip
<1>3. (Sched!Pause <=> SP!Pause) /\ (Sched!Resume <=> SP!Resume)
  BY <1>1 DEF Sched!Pause, SP!Pause, Sched!Resume, SP!Resume
<1>4. \A p : Sched!PlayerIs(p) <=> SP!PlayerIs(p)
  BY DEF Sched!PlayerIs, SP!PlayerIs
<1>5. (Sched!Advance <=> SP!Advance) /\ (Sched!Finish <=> SP!Finish)
  BY <1>4 DEF Sched!Advance, SP!Advance, Sched!Finish, SP!Finish
<1>6. Sched!Disturb <=> SP!Disturb
  BY <1>4 DEF Sched!Disturb, SP!Disturb, Sched!UserPlays, SP!UserPlays, Sched!UserCloses,
     SP!UserCloses, Sched!Playback, SP!Playback
<1>7. \A t : (Sched!Enqueue(t) <=> SP!Enqueue(t)) /\ (Sched!Withdraw(t) <=> SP!Withdraw(t))
  BY DEF Sched!Enqueue, SP!Enqueue, Sched!Withdraw, SP!Withdraw, Sched!Known, SP!Known,
     Sched!RemoveAt, SP!RemoveAt
<1>8. Sched!Clients <=> SP!Clients
  BY <1>7 DEF Sched!Clients, SP!Clients
<1> QED BY <1>2, <1>3, <1>5, <1>6, <1>8

LEMMA SameVars == Sched!ssVars = SP!ssVars
BY DEF Sched!ssVars, SP!ssVars, Sched!plVars, SP!plVars, Sched!threadVars, SP!threadVars,
   Sched!historyVars, SP!historyVars

LEMMA SameScheduler == Sched!SSBehaviour <=> SP!SSBehaviour
<1>1. Sched!SSInit <=> SP!SSInit
  BY DEF Sched!SSInit, SP!SSInit, Sched!PLInit, SP!PLInit
<1>2. Sched!SSNext <=> SP!SSNext
  BY SameCycle, SameOutside
     DEF Sched!SSNext, SP!SSNext, Sched!DoSchedule, SP!DoSchedule, Sched!Cycle, SP!Cycle,
         Sched!Outside, SP!Outside
<1>3. (Sched!ssVars)' = (SP!ssVars)'
  BY DEF Sched!ssVars, SP!ssVars, Sched!plVars, SP!plVars, Sched!threadVars, SP!threadVars,
     Sched!historyVars, SP!historyVars
<1>4. [Sched!SSNext]_(Sched!ssVars) <=> [SP!SSNext]_(SP!ssVars)
  BY <1>2, <1>3, SameVars
<1> QED BY <1>1, <1>4, PTL DEF Sched!SSBehaviour, SP!SSBehaviour

\* The assumptions of SimpleScheduler hold of what VirtualJukebox puts in its place.
LEMMA PlayerAssumptions ==
    /\ Interference \subseteq SP!Disturbances
    /\ LongTracks \in BOOLEAN
    /\ MaxSkips \in Nat
    /\ Foreign \notin TrackIds /\ NoTrack \notin TrackIds \cup {Foreign}
    /\ /\ NoPlayback \notin SP!Playback \cup TrackIds \cup {Foreign, PlaybackError}
       /\ PlaybackError \notin SP!Playback \cup TrackIds \cup {Foreign}
BY PlayerAssumption DEF SP!Disturbances, Sched!Disturbances, SP!Playback, Sched!Playback

LEMMA SchedulerFacts ==
    VJSpec => /\ []SP!WatchesHandedTrack
              /\ []SP!NothingPoppedInVain
              /\ []SP!ReportConsistent
              /\ SP!NeverCutOff
<1>1. Interference \subseteq SP!Disturbances
  BY PlayerAssumptions
<1>2. LongTracks \in BOOLEAN
  BY PlayerAssumptions
<1>3. MaxSkips \in Nat
  BY PlayerAssumptions
<1>4. Foreign \notin TrackIds /\ NoTrack \notin TrackIds \cup {Foreign}
  BY PlayerAssumptions
<1>5. /\ NoPlayback \notin SP!Playback \cup TrackIds \cup {Foreign, PlaybackError}
      /\ PlaybackError \notin SP!Playback \cup TrackIds \cup {Foreign}
  BY PlayerAssumptions
<1>6. VJSpec => SP!SSBehaviour
  BY SchedulerImplemented, SameScheduler, PTL DEF ImplementsScheduler
<1>7. SP!SSBehaviour => []SP!WatchesHandedTrack
  BY <1>1, <1>2, <1>3, <1>4, <1>5, SP!HandedTrackWatched, PTL
<1>8. SP!SSBehaviour => []SP!NothingPoppedInVain
  BY <1>1, <1>2, <1>3, <1>4, <1>5, SP!PopsNotInVain, PTL
<1>9. SP!SSBehaviour => []SP!ReportConsistent
  BY <1>1, <1>2, <1>3, <1>4, <1>5, SP!ReportsConsistent, PTL
<1>10. SP!SSBehaviour => SP!NeverCutOff
  BY <1>1, <1>2, <1>3, <1>4, <1>5, SP!TracksNotCutOff, PTL
<1> QED BY <1>6, <1>7, <1>8, <1>9, <1>10, PTL

\* In the whole jukebox, over the real queues and beside real requests: the scheduler
\* watches the track it handed over and the data store calls current, every track that
\* was popped is played or was refused, what the clients are shown fits, and no track is
\* started over the one before unless somebody else used the player since.
THEOREM SchedulerSound ==
    VJSpec => /\ []Sched!WatchesHandedTrack
              /\ []Sched!NothingPoppedInVain
              /\ []Sched!ReportConsistent
              /\ Sched!NeverCutOff
<1>1. SP!WatchesHandedTrack <=> Sched!WatchesHandedTrack
  BY DEF SP!WatchesHandedTrack, Sched!WatchesHandedTrack
<1>2. SP!NothingPoppedInVain <=> Sched!NothingPoppedInVain
  BY DEF SP!NothingPoppedInVain, Sched!NothingPoppedInVain
<1>3. SP!ReportConsistent <=> Sched!ReportConsistent
  BY DEF SP!ReportConsistent, Sched!ReportConsistent, SP!Playback, Sched!Playback
<1>4. (Sched!ssVars)' = (SP!ssVars)'
  BY DEF Sched!ssVars, SP!ssVars, Sched!plVars, SP!plVars, Sched!threadVars, SP!threadVars,
     Sched!historyVars, SP!historyVars
<1>5. [Sched!SetPlayback /\ ~excused /\ ~meddled
         => ~(player # NoPlayback /\ player.isPlaying /\ player.track = handed)]_(Sched!ssVars)
  <=> [SP!SetPlayback /\ ~excused /\ ~meddled
         => ~(player # NoPlayback /\ player.isPlaying /\ player.track = handed)]_(SP!ssVars)
  BY <1>4, SameVars, SameCycle
<1>6. Sched!NeverCutOff <=> SP!NeverCutOff
  BY <1>5, PTL DEF SP!NeverCutOff, Sched!NeverCutOff
<1> QED BY <1>1, <1>2, <1>3, <1>6, SchedulerFacts, PTL

-----------------------------------------------------------------------------
(* What the two do together.                                               *)

\* No request pops a track or changes which track is to be handed over.
LEMMA RequestLeavesLoaded ==
    ASSUME JBInv, NEW th \in RequestThreads, Request(th)
    PROVE  Loaded' = Loaded
<1>1. mCurrentTrack' = mCurrentTrack
  <2>1. RequestStore(th)
    BY RequestStores DEF Request
  <2> QED BY <2>1 DEF RequestStore, dsVars, AddUser, AddTrack, RemoveTrack, RemoveVotesForTrack,
                      VoteTrack
<1>2. pc' = pc
  BY DEF Request, schedVars, Sched!Skip, Sched!Pause, Sched!Resume, Sched!threadVars
<1> QED BY <1>1, <1>2 DEF Loaded, CurrentId

\* Whatever a request takes out is in the hands of a move, or an admin removed it.
LEMMA RequestForgetsNone ==
    ASSUME JBInv, NEW th \in RequestThreads, Request(th), NEW t \in Accepted, t \notin Accepted'
    PROVE  /\ call'[th] # call[th]
           /\ Op(th) = "removeTrack" /\ call[th].req.track = t
           /\ mUsers[call[th].req.sid].isAdmin
<1>1. RequestStep(th)
  BY DEF Request
<1>2. t \in Queued \cup InMove /\ t \notin Queued' /\ t \notin InMove'
  BY RequestLeavesLoaded DEF Accepted
<1>3. t \in Queued
  BY <1>1, <1>2, MoveEnds
<1>4. call'[th] # call[th] /\ Op(th) = "removeTrack" /\ call[th].req.track = t
  BY <1>1, <1>2, <1>3, QueuedUntil
<1>5. mUsers[call[th].req.sid].isAdmin
  BY <1>1, <1>2, <1>3, CuratorIsAdmin
<1> QED BY <1>4, <1>5

\* The track that leaves the queues is the one to be handed over.
LEMMA PopLoads ==
    ASSUME JBInv, NextTrackCall
    PROVE  Accepted \subseteq Accepted'
<1>1. InMove' = InMove
  BY DEF NextTrackCall, InMove, Op
<1>2. Loaded = {}
  BY DEF NextTrackCall, Sched!PopTrack, Loaded
<1>3. Queued \subseteq Queued' \cup Loaded'
  <2>1. CASE UNCHANGED dsVars
    BY <2>1 DEF dsVars, Queued
  <2>2. CASE NextTrack(Scheduler)
    <3>1. Sched!NonEmpty
      BY <2>2, PopsAgree DEF Sched!Play, Sched!PlayAdmin, Sched!PlayUser, Sched!NonEmpty
    <3>2. pc' = "setPlayback"
      BY <3>1 DEF NextTrackCall, Sched!PopTrack, Sched!Continue
    <3>3. CurrentId' \in Loaded'
      BY <3>2 DEF Loaded
    <3>4. QueuesTyped /\ QueuesTyped'
      <4>1. JBInv'
        BY PlayerUntouched, NextJBInv DEF VJNext, SchedulerThread
      <4>2. QueuesTyped'
        BY <4>1 DEF JBInv, IInv, DSTypeOK, Good, QueuesTyped, QueueType
      <4> QED BY <4>2, IInvTyped DEF JBInv
    <3>5. /\ IdSeq(queue["Admin"]) \in Seq(TrackIds)
          /\ \A t : t \in IdsOf(queue["Admin"])
                    <=> \E i \in DOMAIN IdSeq(queue["Admin"]) : IdSeq(queue["Admin"])[i] = t
          /\ \A t : t \in IdsOf(queue'["Admin"])
                    <=> \E i \in DOMAIN IdSeq(queue'["Admin"]) : IdSeq(queue'["Admin"])[i] = t
      BY <3>4, IdSeqType, IdSeqKnown DEF QueuesTyped
    <3>6. CASE Sched!PlayAdmin
      <4> DEFINE ids == IdSeq(queue["Admin"])
      <4>1. ids \in Seq(TrackIds) /\ ids # <<>>
        BY <3>5, <3>6 DEF Sched!PlayAdmin
      <4>2. \A i \in DOMAIN ids : ids[i] = Head(ids) \/ \E j \in DOMAIN Tail(ids) : Tail(ids)[j] = ids[i]
        <5> HIDE DEF ids
        <5>1. ASSUME NEW i \in DOMAIN ids, i # 1
              PROVE  i - 1 \in DOMAIN Tail(ids) /\ Tail(ids)[i - 1] = ids[i]
          BY <4>1, <5>1, HeadTailProperties, LenProperties
        <5>2. Head(ids) = ids[1]
          BY <4>1
        <5> QED BY <5>1, <5>2
      <4>3. IdSeq(queue'["Admin"]) = Tail(ids) /\ CurrentId' = Head(ids)
            /\ IdsOf(queue'["Normal"]) = IdsOf(queue["Normal"])
        BY <3>6 DEF Sched!PlayAdmin
      <4>4. \A t \in IdsOf(queue["Admin"]) : t = CurrentId' \/ t \in IdsOf(queue'["Admin"])
        BY <3>5, <4>2, <4>3
      <4> QED BY <3>3, <4>3, <4>4 DEF Queued
    <3>7. CASE Sched!PlayUser
      <4>1. IdsOf(queue'["Admin"]) = IdsOf(queue["Admin"])
        BY <3>5, <3>7 DEF Sched!PlayUser
      <4>2. IdsOf(queue["Normal"]) \subseteq IdsOf(queue'["Normal"]) \cup {CurrentId'}
        BY <3>7 DEF Sched!PlayUser
      <4> QED BY <3>3, <4>1, <4>2 DEF Queued
    <3> QED BY <2>2, <3>6, <3>7, PopsAgree DEF Sched!Play
  <2> QED BY <2>1, <2>2 DEF NextTrackCall
<1> QED BY <1>1, <1>2, <1>3 DEF Accepted

\* A track in the hands of the scheduler is handed to Spotify, which takes it or not.
LEMMA LoadedIsHanded ==
    ASSUME SetPlaybackCall, NEW t \in Accepted, t \notin Accepted'
    PROVE  t \in Loaded /\ (handed' = t \/ refused')
<1>1. Queued' = Queued /\ InMove' = InMove
  BY DEF SetPlaybackCall, jbVars, dsVars, Queued, InMove, Op
<1>2. t \in Loaded
  BY <1>1 DEF Accepted
<1>3. CASE Sched!SetPlayback
  BY <1>2, <1>3 DEF Sched!SetPlayback, Loaded
<1>4. CASE Sched!SetPlaybackFailed
  BY <1>2, <1>4 DEF Sched!SetPlaybackFailed
<1> QED BY <1>2, <1>3, <1>4 DEF SetPlaybackCall

\* Everything else leaves alone what was accepted.
LEMMA OthersForgetNone ==
    ASSUME DropVotes \/ RestOfCycle \/ Spotify \/ Clock \/ UNCHANGED vjVars
    PROVE  Accepted \subseteq Accepted'
<1>1. Queued' = Queued /\ InMove' = InMove /\ CurrentId' = CurrentId
  BY DEF DropVotes, RemoveVotesForTrack, RestOfCycle, Spotify, Clock, Tick, vjVars, jbVars, dsVars,
     Queued, InMove, Op, CurrentId
<1>2. CASE RestOfCycle
  <2>1. pc # "setPlayback"
    BY <1>2 DEF RestOfCycle, Sched!PollAnswered, Sched!PollFailed, Sched!ReadAdminQueue,
       Sched!ReadNormalQueue, Sched!CheckPlaying, Sched!KeepPlaying
  <2> QED BY <1>1, <2>1 DEF Accepted, Loaded
<1>3. CASE DropVotes \/ Spotify \/ Clock \/ UNCHANGED vjVars
  <2>1. pc' = pc
    BY <1>3 DEF DropVotes, Spotify, Sched!Advance, Sched!Finish, Sched!Disturb,
           Sched!UserPlays, Sched!UserCloses, Sched!PlayerIs,
       Sched!threadVars, Clock, vjVars, schedVars
  <2> QED BY <1>1, <2>1 DEF Accepted, Loaded
<1> QED BY <1>2, <1>3

\* A track that was accepted is played, refused by Spotify or removed by an admin, whatever
\* requests race with each other and with the scheduler (JukeBox.cpp:227-362,
\* SimpleScheduler.cpp:133-173).
THEOREM NoneForgotten == VJSpec => NoTrackForgotten
<1> DEFINE Kept ==
        \A t \in Accepted \ Accepted' :
            \/ t \in Loaded /\ (handed' = t \/ refused')
            \/ \E th \in RequestThreads :
                  /\ call'[th] # call[th]
                  /\ Op(th) = "removeTrack" /\ call[th].req.track = t
                  /\ mUsers[call[th].req.sid].isAdmin
<1>1. ASSUME JBInv, [VJNext]_vjVars PROVE Kept
  <2>1. CASE \E th \in RequestThreads : Request(th)
    BY <1>1, <2>1, RequestForgetsNone
  <2>2. CASE NextTrackCall
    BY <1>1, <2>2, PopLoads
  <2>3. CASE SetPlaybackCall
    BY <2>3, LoadedIsHanded
  <2>4. CASE DropVotes \/ RestOfCycle \/ Spotify \/ Clock \/ UNCHANGED vjVars
    BY <2>4, OthersForgetNone
  <2> QED BY <1>1, <2>1, <2>2, <2>3, <2>4 DEF VJNext, SchedulerThread
<1>2. JBInv /\ [VJNext]_vjVars => [Kept]_vjVars
  BY <1>1
<1> QED BY <1>2, RequestsInvariant, PTL DEF VJSpec, NoTrackForgotten

\* Only a request that was found to be an admin's touches the player or the state of the
\* scheduler (JukeBox.cpp:364-418).
THEOREM AdminsControl == VJSpec => OnlyAdminsControl
<1> DEFINE Controlled ==
        call' # call /\ <<player, mSchedulerState>>' # <<player, mSchedulerState>>
          => \E th \in RequestThreads :
                 call'[th] # call[th] /\ mUsers[call[th].req.sid].isAdmin
<1>1. ASSUME JBInv, [VJNext]_vjVars PROVE Controlled
  <2>1. ASSUME NEW th \in RequestThreads, Request(th),
               <<player, mSchedulerState>>' # <<player, mSchedulerState>>
        PROVE  call'[th] # call[th] /\ mUsers[call[th].req.sid].isAdmin
    <3>1. RequestStep(th) /\ call[th].at = "controlPlayer"
      BY <2>1 DEF Request, schedVars, At
    <3>2. ControlPlayer(th)
      BY <3>1 DEF RequestStep, At, Refuse, GenerateSession, IsSessionExpired, Asked, QueryTracks,
         AddUserCall, HasUserCall, GetUser, HasTrackAdmin, HasTrackNormal, HasTrackFrom,
         RemoveTrackCall, RemoveVotesCall, AddTrackCall, VoteTrackCall, GetQueueNormal,
         GetQueueAdmin
    <3>3. PICK c \in CallOK : c.at = "none" /\ Continue(th, c)
      BY <3>2, ReplyOK DEF ControlPlayer
    <3>4. call'[th] = c
      BY <1>1, <3>3 DEF Continue, JBInv
    <3>5. NeedsAdmin(call[th].req)
      BY <1>1, <3>1, Underway DEF Shape, NeedsAdmin
    <3> QED BY <1>1, <3>1, <3>3, <3>4, <3>5, Underway DEF Authorized
  <2>2. CASE SchedulerThread \/ Spotify \/ Clock \/ UNCHANGED vjVars
    BY <2>2 DEF SchedulerThread, NextTrackCall, DropVotes, SetPlaybackCall, RestOfCycle, Spotify,
       Clock, vjVars, jbVars
  <2> QED BY <1>1, <2>1, <2>2 DEF VJNext
<1>2. JBInv /\ [VJNext]_vjVars => [Controlled]_vjVars
  BY <1>1
<1> QED BY <1>2, RequestsInvariant, PTL DEF VJSpec, OnlyAdminsControl

=============================================================================
