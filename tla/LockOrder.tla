------------------------------ MODULE LockOrder ------------------------------
(***************************************************************************)
(* The mutexes of all components, and how the code nests them.  A section  *)
(* is a call that begins and ends with nothing locked; every request and   *)
(* every cycle of the scheduler is a series of sections.  Locks are scoped *)
(* (unique_lock, shared_lock): a thread holds a stack of them, and a       *)
(* section is given by the stacks at which the code does something: the    *)
(* thread unlocks from the top and locks until it holds the next one.      *)
(***************************************************************************)
EXTENDS Integers, Sequences

CONSTANTS
    Threads,
    Scheduler,  \* the thread that runs doSchedule
    Recursive   \* the locks a thread may take again while it holds them

ASSUME RecursiveAssumption == Recursive = {"user"}
ASSUME LockSchedulerAssumption == Scheduler \in Threads

VARIABLES
    held,   \* the stack of locks each thread holds
    goals   \* what each thread has still to do in its section

loVars == <<held, goals>>

\* mMtxPlayback, mMtxModifySchedulerState, mPlayPauseMtx, mVolumeMtx, mMutex of
\* SpotifyAuthorization, mQueueMutex, mUserMutex, userIDMutex.
Locks == {"playback", "state", "playPause", "volume", "token", "queue", "user", "userID"}

\* Exclusive and shared ownership, and std::lock, which takes all or waits with none.
X(l) == <<[locks |-> {l}, mode |-> "X"]>>
S(l) == <<[locks |-> {l}, mode |-> "S"]>>
Both(l, m) == <<[locks |-> {l, m}, mode |-> "X"]>>

\* What a thread does with a stack held: nothing that takes time, a call of
\* Spotify, or a call of Spotify about the volume.
Works == {"none", "ask", "getVolume", "setVolume"}

\* A goal: fresh is FALSE for a call that is made again after a refresh.
Do(work, stack) == [stack |-> stack, work |-> work, fresh |-> TRUE]
Hold(stack) == Do("none", stack)

-----------------------------------------------------------------------------
(* The sections.                                                           *)

\* Wrong: the scheduler's mutexes are taken in the other order.
SharedCycleSwapped == S("state") \o S("playback")

\* Wrong: checkForInconsistency takes one of the scheduler's mutexes only.
SharedCycleHalf == S("state")

\* checkForInconsistency's locks.
SharedCycle == S("playback") \o S("state")

\* doSchedule's and nextTrack's locks.
Cycle == X("playback") \o X("state")

\* areQueuesEmpty under the locks of its caller.
AreQueuesEmpty(stack) == <<Hold(stack \o S("queue")), Hold(stack), Hold(stack \o S("queue"))>>

\* The calls of Spotify in one function under one lock, each with its own refresh.
Calls(n, stack) == [i \in 1..n |-> Do("ask", stack)]

\* play and pause, which ask for the playback first.
PlayOrPause(stack) == Calls(2, stack \o X("playPause"))

\* setPlayback asks for the devices and for the playback first.
SetPlayback(stack) == Calls(3, stack \o X("playPause"))

\* nextTrack and removeTrack of the data store.
TakeTrack(stack) == <<Hold(stack \o X("queue")), Hold(stack \o X("user"))>>

GetPlayingTrack(stack) == <<Hold(stack \o S("queue"))>>

ClientSections ==
    {"isSessionExpired", "getUser", "getQueue", "addTrack", "removeTrack", "voteTrack",
     "generateSession", "getLastPlayback", "checkForInconsistency", "createBaseTrack",
     "play", "skip", "getVolume", "setVolume"}

SchedulerSections == {"poll", "pollFailed", "Idle", "PlayNextSong", "CheckPlaying", "Playing"}

\* isSessionExpired calls getUser with mUserMutex held.
Section ==
    [isSessionExpired      |-> <<Hold(X("user") \o X("user"))>>,
     getUser               |-> <<Hold(X("user"))>>,
     getQueue              |-> <<Hold(S("queue"))>>,
     addTrack              |-> <<Hold(X("queue"))>>,
     removeTrack           |-> TakeTrack(<<>>),
     voteTrack             |-> <<Hold(Both("queue", "user"))>>,
     generateSession       |-> <<Hold(X("userID"))>>,
     getLastPlayback       |-> <<Hold(S("playback"))>>,
     checkForInconsistency |-> AreQueuesEmpty(SharedCycle),
     createBaseTrack       |-> <<Do("ask", <<>>)>>,
     play                  |-> PlayOrPause(<<>>),
     skip                  |-> PlayOrPause(Cycle),
     getVolume             |-> <<Do("getVolume", X("volume"))>>,
     setVolume             |-> <<Do("ask", X("volume")), Do("setVolume", X("volume"))>>,
     poll                  |-> <<Do("ask", <<>>)>>,
     pollFailed            |-> <<Hold(Cycle)>>,
     Idle                  |-> AreQueuesEmpty(Cycle),
     PlayNextSong          |-> TakeTrack(Cycle) \o GetPlayingTrack(Cycle) \o SetPlayback(Cycle),
     CheckPlaying          |-> GetPlayingTrack(Cycle) \o PlayOrPause(Cycle),
     Playing               |-> GetPlayingTrack(Cycle) \o <<Hold(Cycle)>> \o AreQueuesEmpty(Cycle)]

SectionsOf(th) == IF th = Scheduler THEN SchedulerSections ELSE ClientSections

-----------------------------------------------------------------------------

Owns(th, l, m) == \E i \in DOMAIN held[th] : l \in held[th][i].locks /\ held[th][i].mode = m

\* th cannot have l in mode m because of what b holds.
Blocks(b, th, l, m) ==
    /\ Owns(b, l, "X") \/ (m = "X" /\ Owns(b, l, "S"))
    /\ b = th => l \notin Recursive

\* The stack th has to hold next.
Target(th) == IF goals[th] = <<>> THEN <<>> ELSE Head(goals[th]).stack

\* The lowest n locks th holds are the first of its target.
Keeps(th, n) == n <= Len(Target(th)) /\ SubSeq(held[th], 1, n) = SubSeq(Target(th), 1, n)

OnTheWay(th) == Keeps(th, Len(held[th]))

\* th is about to take, or waits for, the next lock of its target.
Wanting(th) == OnTheWay(th) /\ Len(held[th]) < Len(Target(th))
Wanted(th) == Target(th)[Len(held[th]) + 1]

LOInit ==
    /\ held = [th \in Threads |-> <<>>]
    /\ goals = [th \in Threads |-> <<>>]

Enter(th, f) ==
    /\ goals[th] = <<>> /\ held[th] = <<>>
    /\ goals' = [goals EXCEPT ![th] = Section[f]]
    /\ UNCHANGED held

Acquire(th) ==
    /\ Wanting(th)
    /\ \A l \in Wanted(th).locks, b \in Threads : ~Blocks(b, th, l, Wanted(th).mode)
    /\ held' = [held EXCEPT ![th] = Append(@, Wanted(th))]
    /\ UNCHANGED goals

\* The end of one or several scopes, innermost first: whoever waits for one of the
\* locks gets it after the last of them as well as in between.
Release(th) ==
    /\ ~OnTheWay(th)
    /\ \E n \in 0..Len(held[th]) - 1 :
          /\ Keeps(th, n)
          /\ \A k \in n + 1 .. Len(held[th]) - 1 : ~Keeps(th, k)
          /\ held' = [held EXCEPT ![th] = SubSeq(@, 1, n)]
    /\ UNCHANGED goals

\* The stack is there: the thread may do its work.
Working(th, work) ==
    /\ goals[th] # <<>> /\ held[th] = Target(th)
    /\ Head(goals[th]).work = work
    /\ UNCHANGED held

\* The code goes on, or returns because of an error or of what it found.
Proceed(th) == goals' = [goals EXCEPT ![th] = Tail(@)]
Return(th) == goals' = [goals EXCEPT ![th] = <<>>]

Work(th, work) == Working(th, work) /\ (Proceed(th) \/ Return(th))

\* errorHandler: the access token has expired.  It is refreshed under mMutex, and
\* the call is made once more.
Refresh(th) ==
    /\ \E work \in Works \ {"none"} : Working(th, work)
    /\ Head(goals[th]).fresh
    /\ goals' = [goals EXCEPT ![th] =
           <<Hold(held[th] \o X("token")), [Head(@) EXCEPT !.fresh = FALSE]>> \o Tail(@)]

LockStep(th) == Acquire(th) \/ Release(th) \/ Refresh(th) \/ \E work \in Works : Work(th, work)

LONext == \E th \in Threads : LockStep(th) \/ \E f \in SectionsOf(th) : Enter(th, f)

-----------------------------------------------------------------------------
(* Properties.                                                             *)

\* a waits for a lock that b holds.
BlockedBy(a, b) == Wanting(a) /\ \E l \in Wanted(a).locks : Blocks(b, a, l, Wanted(a).mode)

\* No threads wait for each other in a circle, and none for itself: whatever set
\* of threads, one of them is not waiting for another of the set.
NoCircularWait ==
    \A W \in SUBSET Threads : W # {} => \E a \in W : \A b \in W : ~BlockedBy(a, b)

\* The two mutexes of the scheduler act as one, which is how SimpleScheduler and
\* QueueStatus model them: while a thread is past both, no other thread is past either,
\* or all of them share both.
OneLock ==
    \A a, b \in Threads, m \in {"S", "X"} :
        a # b /\ Owns(a, "state", m) =>
            \A l \in {"playback", "state"} : ~Owns(b, l, "X") /\ (m = "X" => ~Owns(b, l, "S"))

=============================================================================
