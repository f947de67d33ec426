---------------------------- MODULE RAMDataStore ----------------------------
(***************************************************************************)
(* The data store every thread of the jukebox shares: the two track queues *)
(* and the current track behind mQueueMutex, the users behind mUserMutex.  *)
(* A step is one critical section.  removeTrack and nextTrack have two:    *)
(* they take the track out under mQueueMutex, let go of it, and only then  *)
(* take mUserMutex to drop the votes recorded for the track.  Between the  *)
(* two the thread is in "clearing", and any other thread may run.          *)
(*                                                                         *)
(* A call that returns an error changes nothing and is a stuttering step.  *)
(***************************************************************************)
EXTENDS TrackQueue

CONSTANTS
    TrackIds,                     \* the tracks of the music backend
    SessionIds,                   \* the session IDs generateSession may issue
    Profiles,                     \* the [Name, isAdmin] a user may have
    Threads,                      \* the threads that call the data store
    NoTrack,                      \* an empty optional<QueuedTrack>
    cSessionTimeoutAfterSeconds,  \* how long a session lasts
    MaxTime                       \* bound on the clock, for model checking

ASSUME ProfilesAssumption == \A p \in Profiles : p.isAdmin \in BOOLEAN
ASSUME TimeAssumption ==
    /\ cSessionTimeoutAfterSeconds \in Nat
    /\ MaxTime \in Nat

VARIABLES
    queue,         \* queue["Admin"] is mAdminQueue, queue["Normal"] mNormalQueue
    mCurrentTrack, \* the BaseTrack last popped, or NoTrack
    mUsers,        \* the registered users by session ID
    issued,        \* the session IDs handed out so far (generateSession's counter)
    clearing,      \* the track whose votes a thread has still to drop, or NoTrack
    now            \* time(nullptr)

dsVars == <<queue, mCurrentTrack, mUsers, issued, clearing, now>>

QueueType == {"Admin", "Normal"}

Names == { p.Name : p \in Profiles }

BaseTrack == [trackId : TrackIds, addedBy : Names]

QueuedTrack == [trackId : TrackIds, addedBy : Names, votes : Int, insertedAt : Nat]

ASSUME NoTrackAssumption == NoTrack \notin TrackIds /\ NoTrack \notin BaseTrack

User == [Name : Names, isAdmin : BOOLEAN, ExpirationDate : Nat, votes : SUBSET TrackIds]

-----------------------------------------------------------------------------
(* What a call reads.                                                      *)

OtherQueue(q) == IF q = "Admin" THEN "Normal" ELSE "Admin"

HasTrack(t, q) == t \in IdsOf(queue[q])

Queued == IdsOf(queue["Admin"]) \cup IdsOf(queue["Normal"])

HasUser(s) == s \in DOMAIN mUsers

\* Wrong: an unknown user is not an error.
SessionAliveUnchecked(s) == HasUser(s) => now < mUsers[s].ExpirationDate

\* isSessionExpired answers "false": the only answer that lets a request go on.
\* The later expiration date it computes is written to a copy of the user.
SessionAlive(s) == HasUser(s) /\ now < mUsers[s].ExpirationDate

\* The sessions whose votes vector holds t.
Voters(t) == { s \in DOMAIN mUsers : t \in mUsers[s].votes }

\* A thread that is not between the two critical sections of a call.
Free(th) == clearing[th] = NoTrack

\* Wrong: the normal queue is served first.
NextQueueNormalFirst == IF queue["Normal"] # <<>> THEN "Normal" ELSE "Admin"

\* The queue nextTrack serves.
NextQueue == IF queue["Admin"] # <<>> THEN "Admin" ELSE "Normal"

-----------------------------------------------------------------------------
(* The operations.                                                         *)

DSInit ==
    /\ queue = [q \in QueueType |-> <<>>]
    /\ mCurrentTrack = NoTrack
    /\ mUsers = [s \in {} |-> {}]
    /\ issued = {}
    /\ clearing = [th \in Threads |-> NoTrack]
    /\ now = 0

\* Wrong: the timeout is subtracted.
NewExpirationInPast(time) == time - cSessionTimeoutAfterSeconds

\* The expiration date generateSession gives a session at a time.
NewExpiration(time) == time + cSessionTimeoutAfterSeconds

\* generateSession never issues an ID twice, so the user is always new; it has read the
\* clock before it calls addUser.
AddUser(th, s, profile, time) ==
    /\ Free(th)
    /\ s \notin issued
    /\ issued' = issued \cup {s}
    /\ mUsers' = [x \in DOMAIN mUsers \cup {s} |->
                    IF x = s
                    THEN [Name |-> profile.Name, isAdmin |-> profile.isAdmin,
                          ExpirationDate |-> NewExpiration(time),
                          votes |-> {}]
                    ELSE mUsers[x]]
    /\ UNCHANGED <<queue, mCurrentTrack, clearing, now>>

\* The votes the user gave stay in the counters of the tracks.
RemoveUser(th, s) ==
    /\ Free(th)
    /\ HasUser(s)
    /\ mUsers' = Restrict(mUsers, DOMAIN mUsers \ {s})
    /\ UNCHANGED <<queue, mCurrentTrack, issued, clearing, now>>

\* Wrong: only the selected queue is searched.
AddableToThis(t, q) == ~HasTrack(t, q)

\* addTrack searches both queues for the track.
Addable(t, q) == ~HasTrack(t, q) /\ ~HasTrack(t, OtherQueue(q))

AddTrack(th, t, by, q) ==
    /\ Free(th)
    /\ Addable(t, q)
    /\ queue' = [queue EXCEPT ![q] = Append(@,
                    [trackId |-> t, addedBy |-> by, votes |-> 0, insertedAt |-> now])]
    /\ UNCHANGED <<mCurrentTrack, mUsers, issued, clearing, now>>

\* removeTrack up to the end of its critical section.
RemoveTrack(th, t, q) ==
    /\ Free(th)
    /\ HasTrack(t, q)
    /\ queue' = [queue EXCEPT ![q] = Erase(@, t)]
    /\ clearing' = [clearing EXCEPT ![th] = t]
    /\ UNCHANGED <<mCurrentTrack, mUsers, issued, now>>

\* nextTrack up to the end of its critical section: the sort comes after the pop.
NextTrack(th) ==
    /\ Free(th)
    /\ queue[NextQueue] # <<>>
    /\ LET track == Head(queue[NextQueue])
           rest  == [queue EXCEPT ![NextQueue] = Tail(@)]
       IN /\ \E sorted \in SortsOf(rest["Normal"]) : queue' = [rest EXCEPT !["Normal"] = sorted]
          /\ mCurrentTrack' = Base(track)
          /\ clearing' = [clearing EXCEPT ![th] = track.trackId]
    /\ UNCHANGED <<mUsers, issued, now>>

\* The tail of removeTrack and of nextTrack.
RemoveVotesForTrack(th) ==
    /\ ~Free(th)
    /\ mUsers' = [s \in DOMAIN mUsers |-> [mUsers[s] EXCEPT !.votes = @ \ {clearing[th]}]]
    /\ clearing' = [clearing EXCEPT ![th] = NoTrack]
    /\ UNCHANGED <<queue, mCurrentTrack, issued, now>>

\* Wrong: a repeated vote counts again.
DeltaRepeated(s, t, vote) == IF vote THEN 1 ELSE IF t \in mUsers[s].votes THEN -1 ELSE 0

\* Wrong: a vote that was never given can be revoked.
DeltaRevoked(s, t, vote) == IF ~vote THEN -1 ELSE IF t \in mUsers[s].votes THEN 0 ELSE 1

\* The effect of a vote on the counter of the track.
Delta(s, t, vote) ==
    LET voted == t \in mUsers[s].votes
    IN IF vote /\ ~voted THEN 1 ELSE IF ~vote /\ voted THEN -1 ELSE 0

\* The record of the user changes whether or not the track is in the normal
\* queue; the counter only if it is.
VoteTrack(th, s, t, vote) ==
    /\ Free(th)
    /\ HasUser(s)
    /\ mUsers' = [mUsers EXCEPT ![s].votes = IF vote THEN @ \cup {t} ELSE @ \ {t}]
    /\ \E sorted \in SortsOf(AddVotes(queue["Normal"], t, Delta(s, t, vote))) :
            queue' = [queue EXCEPT !["Normal"] = sorted]
    /\ UNCHANGED <<mCurrentTrack, issued, clearing, now>>

\* The clock of the machine, which nobody sets back.
Tick ==
    /\ now < MaxTime
    /\ now' = now + 1
    /\ UNCHANGED <<queue, mCurrentTrack, mUsers, issued, clearing>>

ThreadStep(th) ==
    \/ \E s \in SessionIds, p \in Profiles, time \in 0..now : AddUser(th, s, p, time)
    \/ \E s \in SessionIds : RemoveUser(th, s)
    \/ \E t \in TrackIds, by \in Names, q \in QueueType : AddTrack(th, t, by, q)
    \/ \E t \in TrackIds, q \in QueueType : RemoveTrack(th, t, q)
    \/ NextTrack(th)
    \/ RemoveVotesForTrack(th)
    \/ \E s \in SessionIds, t \in TrackIds, vote \in BOOLEAN : VoteTrack(th, s, t, vote)

DSNext == Tick \/ \E th \in Threads : ThreadStep(th)

DSSpec == DSInit /\ [][DSNext]_dsVars

-----------------------------------------------------------------------------
(* The data store as an implementation of Playlist.                        *)

CurrentId == IF mCurrentTrack = NoTrack THEN NoTrack ELSE mCurrentTrack.trackId

Implements == INSTANCE Playlist WITH
    admin   <- IdSeq(queue["Admin"]),
    user    <- IdsOf(queue["Normal"]),
    current <- CurrentId

-----------------------------------------------------------------------------
(* Properties.                                                             *)

\* Type invariant of the data store's members.
DSTypeOK ==
    /\ queue \in [QueueType -> Seq(QueuedTrack)]
    /\ mCurrentTrack \in BaseTrack \cup {NoTrack}
    /\ issued \subseteq SessionIds
    /\ DOMAIN mUsers \subseteq issued
    /\ mUsers \in [DOMAIN mUsers -> User]
    /\ clearing \in [Threads -> TrackIds \cup {NoTrack}]
    /\ now \in Nat

\* A track is queued at most once over both queues, whatever adds, removals,
\* moves and pops run side by side: the two lookups of addTrack and its
\* push_back must be one critical section, and nothing else inserts.
NoTrackQueuedTwice ==
    /\ \A q \in QueueType : \A i, j \in DOMAIN queue[q] :
            queue[q][i].trackId = queue[q][j].trackId => i = j
    /\ IdsOf(queue["Admin"]) \cap IdsOf(queue["Normal"]) = {}

\* The queues are in playing order without addTrack ever sorting them: no
\* track stands behind one it should precede, unless the one ahead of it has a
\* negative counter.  For the admin queue this is first in, first out.
SortedUnlessDownvoted ==
    \A q \in QueueType : \A i, j \in DOMAIN queue[q] :
        i < j /\ queue[q][i].votes >= 0 => ~Before(queue[q][j], queue[q][i])

\* Every operation of the data store is a step of the playlist or invisible to
\* it: pops serve the admin queue first and in order of insertion, and nothing
\* but addTrack, removeTrack and nextTrack adds, withdraws or plays a track.
ImplementsPlaylist == Implements!PLSpec

=============================================================================
