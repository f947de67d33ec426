------------------------- MODULE VolumeControlProofs -------------------------
(***************************************************************************)
(* Proofs about LockOrder and VolumeControl.  No set of threads can wait   *)
(* for each other: every stack the code holds or goes for climbs the ranks *)
(* below, but for the recursive mutex.  The two mutexes of the scheduler   *)
(* act as one.  The volume stays in range and moves by at most a step, and *)
(* its requests wait in no circle either.                                  *)
(***************************************************************************)
EXTENDS VolumeControl, TLAPS

\* The order in which the code takes its locks.
Rank == [l \in Locks |->
    IF l = "playback" THEN 1 ELSE IF l = "state" THEN 2 ELSE IF l = "token" THEN 4 ELSE 3]

\* What a thread may hold: the users' mutex has no shared mode.
Element == { e \in [locks : SUBSET Locks, mode : {"S", "X"}] : "user" \in e.locks => e.mode = "X" }

Climbs(s) ==
    \A i, j \in DOMAIN s : i < j =>
        \A k \in s[i].locks, l \in s[j].locks : Rank[k] < Rank[l] \/ (k = "user" /\ l = "user")

\* The state of the scheduler is locked inside the playback, in the same mode.
Guarded(s) ==
    \A i \in DOMAIN s : "state" \in s[i].locks =>
        \E j \in DOMAIN s : j < i /\ "playback" \in s[j].locks /\ s[j].mode = s[i].mode

Stack == { s \in Seq(Element) : Climbs(s) /\ Guarded(s) }

\* Every lock of s ranks below r.
Below(s, r) == \A i \in DOMAIN s : \A l \in s[i].locks : Rank[l] < r

\* Whoever calls Spotify does not hold the token's mutex.
Goal ==
    { g \in [stack : Stack, work : Works, fresh : BOOLEAN] : g.work # "none" => Below(g.stack, 4) }

\* All goals but the call that sets the volume.
Ordinary == { g \in Goal : g.work # "setVolume" }

\* No two threads hold a lock unless both share it.
MutualExclusion ==
    \A a, b \in Threads, l \in Locks :
        a # b /\ Owns(a, l, "X") => ~Owns(b, l, "X") /\ ~Owns(b, l, "S")

\* The inductive invariant.
LOInv ==
    /\ held \in [Threads -> Stack]
    /\ goals \in [Threads -> Seq(Goal)]
    /\ MutualExclusion

-----------------------------------------------------------------------------
(* The stacks of the sections climb.                                       *)

\* A lock that ranks above a stack may be taken with the stack held.
LEMMA PushLock ==
    ASSUME NEW s \in Stack, NEW r \in 0..4, Below(s, r), NEW l \in Locks, Rank[l] >= r,
           NEW m \in {"S", "X"}, l = "user" => m = "X",
           l = "state" => \E i \in DOMAIN s : "playback" \in s[i].locks /\ s[i].mode = m
    PROVE  /\ s \o <<[locks |-> {l}, mode |-> m]>> \in Stack
           /\ Below(s \o <<[locks |-> {l}, mode |-> m]>>, Rank[l] + 1)
<1> DEFINE e == [locks |-> {l}, mode |-> m]
           t == s \o <<e>>
<1>1. /\ e \in Element
      /\ t \in Seq(Element)
      /\ Len(t) = Len(s) + 1
      /\ \A i \in 1..Len(s) : t[i] = s[i]
      /\ t[Len(t)] = e
  BY DEF Element, Stack
<1>2. \A k \in Locks : Rank[k] \in 1..4
  BY DEF Rank, Locks
<1>3. \A i \in DOMAIN s : s[i].locks \subseteq Locks
  BY DEF Stack, Element
<1>4. Climbs(t)
  <2> SUFFICES ASSUME NEW i \in DOMAIN t, NEW j \in DOMAIN t, i < j,
                      NEW k \in t[i].locks, NEW n \in t[j].locks
               PROVE  Rank[k] < Rank[n] \/ (k = "user" /\ n = "user")
    BY DEF Climbs
  <2>1. CASE j = Len(t)
    <3>1. n = l /\ i \in DOMAIN s /\ k \in s[i].locks
      BY <1>1, <2>1
    <3>2. Rank[k] < r
      BY <3>1 DEF Below
    <3> QED BY <1>2, <1>3, <3>1, <3>2
  <2>2. CASE j # Len(t)
    <3>1. i \in DOMAIN s /\ j \in DOMAIN s /\ t[i] = s[i] /\ t[j] = s[j]
      BY <1>1, <2>2 DEF Stack
    <3> QED BY <3>1 DEF Stack, Climbs
  <2> QED BY <2>1, <2>2
<1>5. Below(t, Rank[l] + 1)
  <2> SUFFICES ASSUME NEW i \in DOMAIN t, NEW k \in t[i].locks
               PROVE  Rank[k] < Rank[l] + 1
    BY DEF Below
  <2>1. CASE i = Len(t)
    BY <1>1, <1>2, <2>1
  <2>2. CASE i # Len(t)
    <3>1. i \in DOMAIN s /\ t[i] = s[i]
      BY <1>1, <2>2 DEF Stack
    <3>2. Rank[k] < r
      BY <3>1 DEF Below
    <3> QED BY <1>2, <1>3, <3>1, <3>2
  <2> QED BY <2>1, <2>2
<1>6. Guarded(t)
  <2> SUFFICES ASSUME NEW i \in DOMAIN t, "state" \in t[i].locks
               PROVE  \E j \in DOMAIN t : j < i /\ "playback" \in t[j].locks /\ t[j].mode = t[i].mode
    BY DEF Guarded
  <2>1. CASE i = Len(t)
    <3>1. PICK j \in DOMAIN s : "playback" \in s[j].locks /\ s[j].mode = m
      BY <1>1, <2>1
    <3>2. j \in 1..Len(s) /\ i = Len(s) + 1 /\ Len(s) \in Nat /\ t[i].mode = m
      BY <1>1, <2>1 DEF Stack
    <3> QED BY <1>1, <3>1, <3>2
  <2>2. CASE i # Len(t)
    <3>1. i \in DOMAIN s /\ t[i] = s[i]
      BY <1>1, <2>2 DEF Stack
    <3>2. PICK j \in DOMAIN s : j < i /\ "playback" \in s[j].locks /\ s[j].mode = s[i].mode
      BY <3>1 DEF Stack, Guarded
    <3>3. j \in DOMAIN t /\ t[j] = s[j]
      BY <1>1, <3>2 DEF Stack
    <3> QED BY <3>1, <3>2, <3>3
  <2> QED BY <2>1, <2>2
<1> QED BY <1>1, <1>4, <1>5, <1>6 DEF Stack

LEMMA PushX ==
    ASSUME NEW s \in Stack, NEW r \in 0..4, Below(s, r), NEW l \in Locks, Rank[l] >= r,
           l = "state" => \E i \in DOMAIN s : "playback" \in s[i].locks /\ s[i].mode = "X"
    PROVE  s \o X(l) \in Stack /\ Below(s \o X(l), Rank[l] + 1)
BY PushLock DEF X

LEMMA PushS ==
    ASSUME NEW s \in Stack, NEW r \in 0..4, Below(s, r), NEW l \in Locks \ {"user"}, Rank[l] >= r,
           l = "state" => \E i \in DOMAIN s : "playback" \in s[i].locks /\ s[i].mode = "S"
    PROVE  s \o S(l) \in Stack /\ Below(s \o S(l), Rank[l] + 1)
BY PushLock DEF S

LEMMA Ranks ==
    /\ Locks = {"playback", "state", "playPause", "volume", "token", "queue", "user", "userID"}
    /\ Rank["playback"] = 1 /\ Rank["state"] = 2 /\ Rank["token"] = 4
    /\ Rank["playPause"] = 3 /\ Rank["volume"] = 3 /\ Rank["queue"] = 3
    /\ Rank["user"] = 3 /\ Rank["userID"] = 3
    /\ \A l \in Locks : Rank[l] \in 1..4
BY DEF Rank, Locks

LEMMA EmptyStack == <<>> \in Stack /\ \A r \in Int : Below(<<>>, r)
BY DEF Stack, Climbs, Guarded, Below

\* A single lock, exclusive or shared.
LEMMA SingleLock ==
    ASSUME NEW l \in Locks \ {"state"}
    PROVE  /\ X(l) \in Stack /\ Below(X(l), Rank[l] + 1)
           /\ l # "user" => S(l) \in Stack /\ Below(S(l), Rank[l] + 1)
<1>1. PICK s : s = <<>>
  OBVIOUS
<1>2. s \in Stack /\ Below(s, 0) /\ Rank[l] >= 0 /\ 0 \in 0..4
  BY <1>1, EmptyStack, Ranks
<1>3. s \o X(l) = X(l) /\ s \o S(l) = S(l)
  BY <1>1 DEF X, S
<1>4. s \o X(l) \in Stack /\ Below(s \o X(l), Rank[l] + 1)
  BY <1>2, PushX
<1>5. ASSUME l # "user"
      PROVE  s \o S(l) \in Stack /\ Below(s \o S(l), Rank[l] + 1)
  BY <1>2, <1>5, PushS
<1> QED BY <1>3, <1>4, <1>5

LEMMA Cycles ==
    /\ Cycle \in Stack /\ Below(Cycle, 3)
    /\ SharedCycle \in Stack /\ Below(SharedCycle, 3)
<1>1. Cycle \in Stack /\ Below(Cycle, 3)
  <2>1. X("playback") \in Stack /\ Below(X("playback"), 2)
    BY SingleLock, Ranks
  <2>2. \E i \in DOMAIN X("playback") :
          "playback" \in X("playback")[i].locks /\ X("playback")[i].mode = "X"
    BY DEF X
  <2> QED BY <2>1, <2>2, PushX, Ranks DEF Cycle
<1>2. SharedCycle \in Stack /\ Below(SharedCycle, 3)
  <2>1. S("playback") \in Stack /\ Below(S("playback"), 2)
    BY SingleLock, Ranks
  <2>2. \E i \in DOMAIN S("playback") :
          "playback" \in S("playback")[i].locks /\ S("playback")[i].mode = "S"
    BY DEF S
  <2> QED BY <2>1, <2>2, PushS, Ranks DEF SharedCycle
<1> QED BY <1>1, <1>2

LEMMA Goals ==
    ASSUME NEW s \in Stack, NEW work \in Works
    PROVE  /\ Hold(s) \in Ordinary
           /\ Below(s, 4) => Do(work, s) \in Goal
           /\ Below(s, 4) /\ work # "setVolume" => Do(work, s) \in Ordinary
BY DEF Ordinary, Goal, Hold, Do, Works

\* Both mutexes of the data store at once, and the users' mutex twice.
LEMMA UserStacks ==
    X("user") \o X("user") \in Stack /\ Both("queue", "user") \in Stack
<1>1. X("user") \o X("user") \in Stack
  <2>1. PICK e : e = [locks |-> {"user"}, mode |-> "X"]
    OBVIOUS
  <2>2. e \in Element /\ \A l \in e.locks : l = "user"
    BY <2>1 DEF Element, Locks
  <2>3. PICK t : t = <<e>> \o <<e>>
    OBVIOUS
  <2>4. t \in Seq(Element) /\ \A i \in DOMAIN t : t[i] = e
    BY <2>2, <2>3
  <2>5. Climbs(t) /\ Guarded(t)
    BY <2>2, <2>4 DEF Climbs, Guarded
  <2> QED BY <2>1, <2>3, <2>4, <2>5 DEF Stack, X
<1>2. Both("queue", "user") \in Stack
  <2> DEFINE e == [locks |-> {"queue", "user"}, mode |-> "X"]
  <2>1. e \in Element
    BY DEF Element, Locks
  <2>2. Both("queue", "user") \in Seq(Element) /\ DOMAIN Both("queue", "user") = 1..1
    BY <2>1 DEF Both
  <2>3. \A i \in 1..1 : Both("queue", "user")[i] = e
    BY DEF Both
  <2> QED BY <2>2, <2>3 DEF Stack, Climbs, Guarded
<1> QED BY <1>1, <1>2

\* What a section does with a stack of the caller's held.
LEMMA Parts ==
    ASSUME NEW s \in Stack, Below(s, 3)
    PROVE  /\ AreQueuesEmpty(s) \in Seq(Ordinary)
           /\ PlayOrPause(s) \in Seq(Ordinary)
           /\ SetPlayback(s) \in Seq(Ordinary)
           /\ TakeTrack(s) \in Seq(Ordinary)
           /\ GetPlayingTrack(s) \in Seq(Ordinary)
<1>1. \A l \in {"playPause", "queue", "user"} : s \o X(l) \in Stack /\ Below(s \o X(l), 4)
  BY PushX, Ranks
<1>2. s \o S("queue") \in Stack
  BY PushS, Ranks
<1>3. Hold(s) \in Ordinary /\ Hold(s \o S("queue")) \in Ordinary
  BY <1>2, Goals, "none" \in Works DEF Works
<1>4. Hold(s \o X("queue")) \in Ordinary /\ Hold(s \o X("user")) \in Ordinary
  BY <1>1, Goals, "none" \in Works DEF Works
<1>5. Do("ask", s \o X("playPause")) \in Ordinary
  BY <1>1, Goals, "ask" \in Works DEF Works
<1>6. Calls(2, s \o X("playPause")) \in Seq(Ordinary) /\ Calls(3, s \o X("playPause")) \in Seq(Ordinary)
  BY <1>5 DEF Calls
<1> QED BY <1>3, <1>4, <1>6 DEF AreQueuesEmpty, PlayOrPause, SetPlayback, TakeTrack, GetPlayingTrack

\* Every section goes from stack to stack.
LEMMA OrdinarySections ==
    ASSUME NEW f \in (ClientSections \cup SchedulerSections) \ {"setVolume"}
    PROVE  Section[f] \in Seq(Ordinary)
<1>1. \A l \in {"playPause", "queue", "user", "userID", "volume"} :
         /\ X(l) \in Stack /\ Below(X(l), 4)
         /\ Hold(X(l)) \in Ordinary /\ Do("getVolume", X(l)) \in Ordinary
  <2>1. \A l \in {"playPause", "queue", "user", "userID", "volume"} :
           X(l) \in Stack /\ Below(X(l), 4)
    BY SingleLock, Ranks
  <2> QED BY <2>1, Goals DEF Works
<1>2. Hold(S("queue")) \in Ordinary /\ Hold(S("playback")) \in Ordinary
  BY SingleLock, Ranks, Goals, "none" \in Works DEF Works
<1>3. Hold(X("user") \o X("user")) \in Ordinary /\ Hold(Both("queue", "user")) \in Ordinary
  BY UserStacks, Goals, "none" \in Works DEF Works
<1>4. <<>> \in Stack /\ Below(<<>>, 3) /\ Below(<<>>, 4)
  BY EmptyStack
<1>5. Do("ask", <<>>) \in Ordinary
  BY <1>4, Goals, "ask" \in Works DEF Works
<1>6. Hold(Cycle) \in Ordinary
  BY Cycles, Goals, "none" \in Works DEF Works
<1>7. /\ AreQueuesEmpty(Cycle) \in Seq(Ordinary) /\ AreQueuesEmpty(SharedCycle) \in Seq(Ordinary)
      /\ PlayOrPause(Cycle) \in Seq(Ordinary) /\ SetPlayback(Cycle) \in Seq(Ordinary)
      /\ TakeTrack(Cycle) \in Seq(Ordinary) /\ GetPlayingTrack(Cycle) \in Seq(Ordinary)
  BY Cycles, Parts
<1>8. PlayOrPause(<<>>) \in Seq(Ordinary) /\ TakeTrack(<<>>) \in Seq(Ordinary)
  BY <1>4, Parts
<1> DEFINE Ok(q) == q \in Seq(Ordinary)
<1>9. /\ \A g \in Ordinary : Ok(<<g>>)
      /\ \A g, h \in Ordinary : Ok(<<g, h>>)
      /\ \A p, q : Ok(p) /\ Ok(q) => Ok(p \o q)
  OBVIOUS
<1>10. /\ Ok(AreQueuesEmpty(Cycle)) /\ Ok(AreQueuesEmpty(SharedCycle))
       /\ Ok(PlayOrPause(Cycle)) /\ Ok(SetPlayback(Cycle)) /\ Ok(TakeTrack(Cycle))
       /\ Ok(GetPlayingTrack(Cycle)) /\ Ok(PlayOrPause(<<>>)) /\ Ok(TakeTrack(<<>>))
  BY <1>7, <1>8
<1> SUFFICES Ok(Section[f])
  OBVIOUS
<1> HIDE DEF Ok
<1>11. CASE f \in {"isSessionExpired", "voteTrack", "getQueue", "getLastPlayback",
                   "createBaseTrack", "poll", "pollFailed"}
  BY <1>2, <1>3, <1>5, <1>6, <1>9, <1>11 DEF Section
<1>12. CASE f \in {"getUser", "addTrack", "generateSession", "getVolume"}
  BY <1>1, <1>9, <1>12 DEF Section
<1>13. CASE f \in {"removeTrack", "checkForInconsistency", "play", "skip", "Idle"}
  BY <1>10, <1>13 DEF Section
<1>14. CASE f \in {"PlayNextSong", "CheckPlaying", "Playing"}
  <2>1. /\ Ok(TakeTrack(Cycle) \o GetPlayingTrack(Cycle) \o SetPlayback(Cycle))
        /\ Ok(GetPlayingTrack(Cycle) \o PlayOrPause(Cycle))
    BY <1>9, <1>10
  <2>2. Ok(GetPlayingTrack(Cycle) \o <<Hold(Cycle)>> \o AreQueuesEmpty(Cycle))
    BY <1>6, <1>9, <1>10
  <2>3. CASE f = "Playing"
    BY <2>2, <2>3 DEF Section
  <2>4. CASE f = "PlayNextSong"
    BY <2>1, <2>4 DEF Section
  <2>5. CASE f = "CheckPlaying"
    BY <2>1, <2>5 DEF Section
  <2> QED BY <1>14, <2>3, <2>4, <2>5
<1> QED BY <1>11, <1>12, <1>13, <1>14 DEF ClientSections, SchedulerSections

LEMMA SetVolumeSection == Section["setVolume"] \in Seq(Goal)
<1>1. X("volume") \in Stack /\ Below(X("volume"), 4)
  BY SingleLock, Ranks
<1>2. Do("ask", X("volume")) \in Goal /\ Do("setVolume", X("volume")) \in Goal
  BY <1>1, Goals DEF Works
<1>3. PICK q : q = <<Do("ask", X("volume")), Do("setVolume", X("volume"))>>
  OBVIOUS
<1>4. q \in Seq(Goal)
  BY <1>2, <1>3
<1>5. Section["setVolume"] = q
  BY <1>3 DEF Section
<1> QED BY <1>4, <1>5

-----------------------------------------------------------------------------
(* The invariant.                                                          *)

LEMMA Prefixes ==
    ASSUME NEW s \in Stack, NEW n \in 0..Len(s)
    PROVE  /\ SubSeq(s, 1, n) \in Stack
           /\ Len(SubSeq(s, 1, n)) = n
           /\ \A i \in 1..n : SubSeq(s, 1, n)[i] = s[i]
<1> DEFINE t == SubSeq(s, 1, n)
<1>1. t \in Seq(Element) /\ Len(t) = n /\ DOMAIN t = 1..n /\ \A i \in 1..n : t[i] = s[i]
  BY DEF Stack
<1>2. Climbs(t)
  BY <1>1 DEF Stack, Climbs
<1>3. Guarded(t)
  <2> SUFFICES ASSUME NEW i \in 1..n, "state" \in s[i].locks
               PROVE  \E j \in 1..n : j < i /\ "playback" \in s[j].locks /\ s[j].mode = s[i].mode
    BY <1>1 DEF Guarded
  <2>1. i \in DOMAIN s /\ DOMAIN s = 1..Len(s) /\ Len(s) \in Nat
    BY DEF Stack
  <2>2. PICK j \in DOMAIN s : j < i /\ "playback" \in s[j].locks /\ s[j].mode = s[i].mode
    BY <2>1 DEF Stack, Guarded
  <2> QED BY <2>1, <2>2
<1> QED BY <1>1, <1>2, <1>3 DEF Stack

\* What a thread goes for is always a stack.
LEMMA Targets ==
    ASSUME NEW th \in Threads, goals[th] \in Seq(Goal)
    PROVE  Target(th) \in Stack
BY EmptyStack DEF Target, Goal

\* On its way, a thread that has what it wants holds a part of its target.
LEMMA NextLock ==
    ASSUME NEW th \in Threads, held[th] \in Stack, goals[th] \in Seq(Goal), Wanting(th)
    PROVE  /\ Wanted(th) \in Element
           /\ Append(held[th], Wanted(th)) \in Stack
           /\ Len(Append(held[th], Wanted(th))) = Len(held[th]) + 1
           /\ \A i \in 1..Len(held[th]) : Append(held[th], Wanted(th))[i] = held[th][i]
           /\ Append(held[th], Wanted(th))[Len(held[th]) + 1] = Wanted(th)
<1> DEFINE h == held[th]
           t == Target(th)
           n == Len(h)
<1>1. t \in Stack /\ n \in Nat /\ n < Len(t)
  BY Targets DEF Wanting, Stack
<1>2. SubSeq(h, 1, n) = SubSeq(t, 1, n)
  BY DEF Wanting, OnTheWay, Keeps
<1>3. \A i \in 1..n : h[i] = t[i]
  BY <1>1, <1>2, Prefixes, n \in 0..Len(h), n \in 0..Len(t)
<1>4. Wanted(th) = t[n + 1] /\ Wanted(th) \in Element
  BY <1>1 DEF Wanted, Stack
<1>5. /\ Append(h, Wanted(th)) \in Seq(Element)
      /\ DOMAIN Append(h, Wanted(th)) = 1..n + 1
      /\ \A i \in 1..n : Append(h, Wanted(th))[i] = h[i]
      /\ Append(h, Wanted(th))[n + 1] = Wanted(th)
  BY <1>4 DEF Stack
<1>6. \A i \in 1..n + 1 : Append(h, Wanted(th))[i] = t[i]
  BY <1>1, <1>3, <1>4, <1>5
<1>7. Climbs(Append(h, Wanted(th)))
  <2>1. Climbs(t) /\ 1..n + 1 \subseteq DOMAIN t
    BY <1>1 DEF Stack
  <2>2. PICK a : a = Append(h, Wanted(th))
    OBVIOUS
  <2>3. DOMAIN a = 1..n + 1 /\ \A i \in 1..n + 1 : a[i] = t[i]
    BY <1>5, <1>6, <2>2
  <2>4. Climbs(a)
    BY <2>1, <2>3 DEF Climbs
  <2> QED BY <2>2, <2>4
<1>8. Guarded(Append(h, Wanted(th)))
  <2>1. Guarded(t) /\ 1..n + 1 \subseteq DOMAIN t /\ DOMAIN t = 1..Len(t) /\ Len(t) \in Nat
    BY <1>1 DEF Stack
  <2>2. PICK a : a = Append(h, Wanted(th))
    OBVIOUS
  <2>3. DOMAIN a = 1..n + 1 /\ \A i \in 1..n + 1 : a[i] = t[i]
    BY <1>5, <1>6, <2>2
  <2>4. ASSUME NEW i \in DOMAIN a, "state" \in a[i].locks
        PROVE  \E j \in DOMAIN a : j < i /\ "playback" \in a[j].locks /\ a[j].mode = a[i].mode
    <3>1. i \in DOMAIN t /\ a[i] = t[i] /\ i \in 1..n + 1
      BY <2>1, <2>3
    <3>2. PICK j \in DOMAIN t : j < i /\ "playback" \in t[j].locks /\ t[j].mode = t[i].mode
      BY <2>1, <2>4, <3>1 DEF Guarded
    <3>3. j \in 1..n + 1
      BY <1>1, <2>1, <3>1, <3>2
    <3> QED BY <2>3, <3>1, <3>2, <3>3
  <2>5. Guarded(a)
    BY <2>4 DEF Guarded
  <2> QED BY <2>2, <2>5
<1> QED BY <1>4, <1>5, <1>7, <1>8 DEF Stack

LEMMA StackDomain == \A s \in Stack : Len(s) \in Nat /\ DOMAIN s = 1..Len(s)
BY DEF Stack

LEMMA InitOk == LOInit => LOInv
<1> SUFFICES ASSUME LOInit PROVE LOInv
  OBVIOUS
<1>1. \A th \in Threads : held[th] = <<>> /\ goals[th] = <<>>
  BY DEF LOInit
<1>2. held \in [Threads -> Stack] /\ goals \in [Threads -> Seq(Goal)]
  BY EmptyStack DEF LOInit
<1>3. MutualExclusion
  BY <1>1 DEF MutualExclusion, Owns
<1> QED BY <1>2, <1>3 DEF LOInv

\* A thread that gives locks up, or does nothing about them, keeps exclusion.
LEMMA LessHeld ==
    ASSUME LOInv, NEW th \in Threads, held' \in [Threads -> Stack],
           \A b \in Threads \ {th} : held'[b] = held[b],
           Len(held'[th]) <= Len(held[th]),
           \A i \in 1..Len(held'[th]) : held'[th][i] = held[th][i]
    PROVE  MutualExclusion'
<1>1. ASSUME NEW a \in Threads, NEW l \in Locks, NEW m \in {"X", "S"}, Owns(a, l, m)'
      PROVE  Owns(a, l, m)
  <2>1. CASE a = th
    <3>1. PICK i \in DOMAIN held'[th] : l \in held'[th][i].locks /\ held'[th][i].mode = m
      BY <1>1, <2>1 DEF Owns
    <3>2. held[th] \in Stack /\ held'[th] \in Stack
      BY DEF LOInv
    <3>3. i \in 1..Len(held'[th]) /\ i \in DOMAIN held[th]
      BY <3>1, <3>2, StackDomain
    <3> QED BY <2>1, <3>1, <3>3 DEF Owns
  <2>2. CASE a # th
    BY <1>1, <2>2 DEF Owns
  <2> QED BY <2>1, <2>2
<1> QED BY <1>1 DEF LOInv, MutualExclusion

LEMMA AcquireOk == ASSUME LOInv, NEW th \in Threads, Acquire(th) PROVE LOInv'
<1> DEFINE w == Wanted(th)
           n == Len(held[th])
<1>1. held[th] \in Stack /\ goals[th] \in Seq(Goal) /\ Wanting(th) /\ goals' = goals
  BY DEF LOInv, Acquire
<1>2. /\ held' = [held EXCEPT ![th] = Append(held[th], w)]
      /\ \A l \in w.locks, b \in Threads : ~Blocks(b, th, l, w.mode)
  BY DEF Acquire
<1>3. held' \in [Threads -> Stack]
  BY <1>1, <1>2, NextLock DEF LOInv
<1>4. ASSUME NEW l \in Locks, NEW m \in {"X", "S"}, Owns(th, l, m)'
      PROVE  Owns(th, l, m) \/ (l \in w.locks /\ w.mode = m)
  <2>1. PICK i \in DOMAIN held'[th] : l \in held'[th][i].locks /\ held'[th][i].mode = m
    BY <1>4 DEF Owns
  <2>2. held'[th] = Append(held[th], w) /\ n \in Nat /\ DOMAIN held[th] = 1..n
    BY <1>2 DEF LOInv, Stack
  <2>3. Len(held'[th]) = n + 1 /\ DOMAIN held'[th] = 1..n + 1
    BY <1>1, <1>3, <2>2, NextLock DEF Stack
  <2>4. CASE i = n + 1
    BY <1>1, <2>1, <2>2, <2>4, NextLock
  <2>5. CASE i # n + 1
    <3>1. i \in DOMAIN held[th] /\ held'[th][i] = held[th][i]
      BY <1>1, <2>1, <2>2, <2>3, <2>5, NextLock
    <3> QED BY <2>1, <3>1 DEF Owns
  <2> QED BY <2>4, <2>5
<1>5. \A b \in Threads \ {th}, l \in Locks, m \in {"X", "S"} : Owns(b, l, m)' <=> Owns(b, l, m)
  BY <1>2 DEF LOInv, Owns
<1>6. \A b \in Threads \ {th}, l \in w.locks :
        ~Owns(b, l, "X") /\ (w.mode = "X" => ~Owns(b, l, "S"))
  BY <1>2 DEF Blocks
<1>7. MutualExclusion'
  <2> SUFFICES ASSUME NEW a \in Threads, NEW b \in Threads, NEW l \in Locks,
                      a # b, Owns(a, l, "X")'
               PROVE  ~Owns(b, l, "X")' /\ ~Owns(b, l, "S")'
    BY DEF MutualExclusion
  <2>1. CASE a = th
    BY <1>4, <1>5, <1>6, <2>1 DEF LOInv, MutualExclusion
  <2>2. CASE b = th
    BY <1>4, <1>5, <1>6, <2>2 DEF LOInv, MutualExclusion
  <2>3. CASE a # th /\ b # th
    BY <1>5, <2>3 DEF LOInv, MutualExclusion
  <2> QED BY <2>1, <2>2, <2>3
<1> QED BY <1>1, <1>3, <1>7 DEF LOInv

LEMMA ReleaseOk == ASSUME LOInv, NEW th \in Threads, Release(th) PROVE LOInv'
<1>1. PICK n \in 0..Len(held[th]) - 1 : held' = [held EXCEPT ![th] = SubSeq(held[th], 1, n)]
  BY DEF Release
<1>2. held[th] \in Stack /\ n \in 0..Len(held[th]) /\ goals' = goals
  BY DEF LOInv, Release, Stack
<1>3. held' \in [Threads -> Stack]
  BY <1>1, <1>2, Prefixes DEF LOInv
<1>4. /\ Len(held'[th]) <= Len(held[th])
      /\ \A i \in 1..Len(held'[th]) : held'[th][i] = held[th][i]
      /\ \A b \in Threads \ {th} : held'[b] = held[b]
  BY <1>1, <1>2, Prefixes DEF LOInv, Stack
<1>5. MutualExclusion'
  BY <1>3, <1>4, LessHeld
<1> QED BY <1>2, <1>3, <1>5 DEF LOInv

\* errorHandler may take the token's mutex: whoever calls Spotify has not got it.
LEMMA RefreshOk == ASSUME LOInv, NEW th \in Threads, Refresh(th) PROVE LOInv'
<1> DEFINE g == Head(goals[th])
           again == [g EXCEPT !.fresh = FALSE]
           token == Hold(held[th] \o X("token"))
<1>1. /\ goals[th] \in Seq(Goal) /\ goals[th] # <<>> /\ g.work # "none" /\ held[th] = g.stack
      /\ held' = held
      /\ goals' = [goals EXCEPT ![th] = <<token, again>> \o Tail(goals[th])]
  BY DEF LOInv, Refresh, Working, Target
<1>2. g \in Goal /\ Tail(goals[th]) \in Seq(Goal)
  BY <1>1
<1>3. again \in Goal
  BY <1>2 DEF Goal
<1>4. held[th] \in Stack /\ Below(held[th], 4)
  BY <1>1, <1>2 DEF Goal
<1>5. held[th] \o X("token") \in Stack
  BY <1>4, PushX, Ranks
<1>6. token \in Goal
  BY <1>5, Goals, "none" \in Works DEF Works, Ordinary
<1> HIDE DEF token, again
<1>7. <<token, again>> \o Tail(goals[th]) \in Seq(Goal)
  BY <1>2, <1>3, <1>6
<1>8. goals' \in [Threads -> Seq(Goal)]
  BY <1>1, <1>7 DEF LOInv
<1> QED BY <1>1, <1>8 DEF LOInv, MutualExclusion, Owns

LEMMA WorkOk == ASSUME LOInv, NEW th \in Threads, NEW work, Work(th, work) PROVE LOInv'
<1>1. goals[th] \in Seq(Goal) /\ goals[th] # <<>> /\ held' = held
  BY DEF LOInv, Work, Working
<1>2. <<>> \in Seq(Goal) /\ Tail(goals[th]) \in Seq(Goal)
  BY <1>1
<1>3. goals' \in [Threads -> Seq(Goal)]
  BY <1>2 DEF LOInv, Work, Proceed, Return
<1> QED BY <1>1, <1>3 DEF LOInv, MutualExclusion, Owns

LEMMA EnterOk ==
    ASSUME LOInv, NEW th \in Threads, NEW f \in SectionsOf(th), Enter(th, f)
    PROVE  LOInv'
<1>1. Section[f] \in Seq(Goal)
  <2>1. Seq(Ordinary) \subseteq Seq(Goal)
    BY DEF Ordinary
  <2> QED BY <2>1, OrdinarySections, SetVolumeSection DEF SectionsOf
<1>2. held' = held /\ goals' \in [Threads -> Seq(Goal)]
  BY <1>1 DEF LOInv, Enter
<1> QED BY <1>2 DEF LOInv, MutualExclusion, Owns

LEMMA StepOk == ASSUME LOInv, [LONext]_loVars PROVE LOInv'
<1>1. ASSUME NEW th \in Threads, LockStep(th) PROVE LOInv'
  BY <1>1, AcquireOk, ReleaseOk, RefreshOk, WorkOk DEF LockStep
<1>2. CASE UNCHANGED loVars
  BY <1>2 DEF loVars, LOInv, MutualExclusion, Owns
<1> QED BY <1>1, <1>2, EnterOk DEF LONext

-----------------------------------------------------------------------------
(* A circle of waiting threads would have to climb for ever.               *)

\* What blocks a thread that wants l is a lock of the same name.
LEMMA Blocked ==
    ASSUME NEW a, NEW b, NEW l, NEW m, Blocks(b, a, l, m)
    PROVE  \E i \in DOMAIN held[b] : l \in held[b][i].locks
BY DEF Blocks, Owns

\* A thread wants a lock that ranks above all it holds, but for the users' mutex.
LEMMA WantsAbove ==
    ASSUME LOInv, NEW b \in Threads, Wanting(b), NEW i \in DOMAIN held[b],
           NEW k \in held[b][i].locks, NEW l \in Wanted(b).locks
    PROVE  Rank[k] < Rank[l] \/ (k = "user" /\ l = "user")
<1> DEFINE n == Len(held[b])
           s == Append(held[b], Wanted(b))
<1>1. held[b] \in Stack /\ goals[b] \in Seq(Goal)
  BY DEF LOInv
<1>2. s \in Stack /\ s[n + 1] = Wanted(b) /\ Len(s) = n + 1 /\ \A j \in 1..n : s[j] = held[b][j]
  BY <1>1, NextLock
<1>3. i \in 1..n /\ n \in Nat /\ DOMAIN s = 1..n + 1
  BY <1>1, <1>2, StackDomain
<1>4. i \in DOMAIN s /\ n + 1 \in DOMAIN s /\ i < n + 1 /\ k \in s[i].locks /\ l \in s[n + 1].locks
  BY <1>2, <1>3
<1> HIDE DEF s, n
<1>5. Climbs(s)
  BY <1>2 DEF Stack
<1> QED BY <1>4, <1>5 DEF Climbs

\* The users' mutex is never waited for by the thread that holds it.
LEMMA UserNotBlocked ==
    ASSUME LOInv, NEW b \in Threads, NEW c \in Threads, Wanting(b), "user" \in Wanted(b).locks,
           NEW i \in DOMAIN held[b], "user" \in held[b][i].locks
    PROVE  ~Blocks(c, b, "user", Wanted(b).mode)
<1>1. held[b][i] \in Element
  BY DEF LOInv, Stack
<1>2. Owns(b, "user", "X")
  BY <1>1 DEF Owns, Element
<1>3. CASE c = b
  BY <1>3, RecursiveAssumption DEF Blocks
<1>4. CASE c # b
  BY <1>2, <1>4, "user" \in Locks DEF Blocks, LOInv, MutualExclusion, Locks
<1> QED BY <1>3, <1>4

\* The invariant allows no circle of waiting threads.
LEMMA NoCircle == LOInv => NoCircularWait
<1> SUFFICES ASSUME LOInv, NEW W \in SUBSET Threads, W # {},
                    \A a \in W : \E b \in W : BlockedBy(a, b)
             PROVE  FALSE
  BY DEF NoCircularWait
<1> DEFINE P(r) == \A a, b \in W : \A l : Wanting(a) /\ l \in Wanted(a).locks
                      /\ Blocks(b, a, l, Wanted(a).mode) => Rank[l] < r
<1>1. ASSUME NEW a \in W, NEW l \in Wanted(a).locks, Wanting(a) PROVE Rank[l] \in 1..4
  <2>1. Wanted(a) \in Element
    BY <1>1, NextLock DEF LOInv
  <2> QED BY <2>1, Ranks DEF Element
<1>2. P(5)
  BY <1>1
<1>3. ASSUME NEW r \in 1..4, P(r + 1) PROVE P(r)
  <2> SUFFICES ASSUME NEW a \in W, NEW b \in W, NEW l \in Wanted(a).locks, Wanting(a),
                      Blocks(b, a, l, Wanted(a).mode), Rank[l] >= r
               PROVE  FALSE
    BY <1>1
  <2>1. PICK i \in DOMAIN held[b] : l \in held[b][i].locks
    BY Blocked
  <2>2. PICK c \in W : BlockedBy(b, c)
    OBVIOUS
  <2>3. PICK k \in Wanted(b).locks : Blocks(c, b, k, Wanted(b).mode)
    BY <2>2 DEF BlockedBy
  <2>4. Wanting(b) /\ Rank[k] < r + 1
    BY <1>3, <2>2, <2>3 DEF BlockedBy
  <2>5. Rank[l] < Rank[k] \/ (l = "user" /\ k = "user")
    BY <2>1, <2>4, WantsAbove
  <2>6. ~(l = "user" /\ k = "user")
    BY <2>1, <2>3, <2>4, UserNotBlocked
  <2>7. Rank[l] \in Int /\ Rank[k] \in Int
    BY <1>1, <2>4
  <2> QED BY <2>4, <2>5, <2>6, <2>7
<1>4. P(1)
  BY <1>2, <1>3
<1>5. PICK a \in W, b \in W : BlockedBy(a, b)
  OBVIOUS
<1>6. PICK l \in Wanted(a).locks : Blocks(b, a, l, Wanted(a).mode)
  BY <1>5 DEF BlockedBy
<1>7. Rank[l] \in 1..4 /\ Rank[l] < 1
  BY <1>1, <1>4, <1>5, <1>6 DEF BlockedBy
<1> QED BY <1>7

\* The locks alone, whatever the sections are for.
THEOREM LocksDeadlockFree == LOInit /\ [][LONext]_loVars => []NoCircularWait
<1>1. LOInv /\ [LONext]_loVars => LOInv'
  BY StepOk
<1> QED BY <1>1, InitOk, NoCircle, PTL

\* Who holds the second mutex of the scheduler holds the first in the same mode, and
\* that one keeps the others out.
LEMMA InsideBoth == LOInv => OneLock
<1> SUFFICES ASSUME LOInv, NEW a \in Threads, NEW b \in Threads, NEW m \in {"S", "X"},
                    a # b, Owns(a, "state", m), NEW l \in {"playback", "state"}
             PROVE  ~Owns(b, l, "X") /\ (m = "X" => ~Owns(b, l, "S"))
  BY DEF OneLock
<1>1. Owns(a, "playback", m)
  <2>1. PICK i \in DOMAIN held[a] : "state" \in held[a][i].locks /\ held[a][i].mode = m
    BY DEF Owns
  <2>2. Guarded(held[a])
    BY DEF LOInv, Stack
  <2> QED BY <2>1, <2>2 DEF Guarded, Owns
<1>2. Owns(a, l, m) /\ l \in Locks
  BY <1>1 DEF Locks
<1> QED BY <1>2 DEF LOInv, MutualExclusion

-----------------------------------------------------------------------------
(* The volume.                                                             *)

\* A thread that is going to set the volume has read it.
HasRead ==
    \A th \in Threads : \A i \in DOMAIN goals[th] :
        goals[th][i].work = "setVolume" => change[th] # NoChange

\* The inductive invariant.
VCInv == LOInv /\ VCTypeOK /\ HasRead

-----------------------------------------------------------------------------
(* The arithmetic of the volume.                                           *)

\* From size_t to int and back is the identity on what an int can hold.
LEMMA Wraps ==
    ASSUME NEW n \in Int, -IntModulus < 2 * n, 2 * n < IntModulus
    PROVE  AsInt(AsSize(n)) = n
<1> DEFINE I == IntModulus
           Z == SizeModulus
           q == Z \div I
<1>1. I \in Nat \ {0} /\ Z \in Nat \ {0} /\ Z % I = 0
  BY VolumeAssumption
<1>2. q \in Int /\ Z = I * q
  BY <1>1
<1>3. q >= 1 /\ I <= Z
  BY <1>1, <1>2
<1>4. CASE n >= 0
  <2>1. AsSize(n) = n
    BY <1>1, <1>3, <1>4 DEF AsSize
  <2>2. n % I = n
    BY <1>1, <1>4
  <2> QED BY <1>4, <2>1, <2>2 DEF AsInt
<1>5. CASE n < 0
  <2>1. AsSize(n) = n + Z
    BY <1>1, <1>3, <1>5 DEF AsSize
  <2>2. n + I \in 0..I - 1 /\ n + Z = (q - 1) * I + (n + I) /\ q - 1 \in Int
    BY <1>1, <1>2, <1>5
  <2>3. PICK x \in Int, p \in Int, r \in 0..I - 1 : x = n + Z /\ p = q - 1 /\ r = n + I
    BY <1>1, <2>2
  <2>4. x = p * I + r
    BY <2>2, <2>3
  <2>5. x % I = r
    <3>1. PICK J \in Nat \ {0} : J = I
      BY <1>1
    <3>2. r \in 0..J - 1 /\ x = p * J + r
      BY <2>3, <2>4, <3>1
    <3>3. x % J = r
      BY <3>2
    <3> QED BY <3>1, <3>3
  <2> QED BY <1>1, <1>5, <2>1, <2>3, <2>5 DEF AsInt
<1> QED BY <1>4, <1>5

\* What is sent is in range, and a step at most from what was read.
LEMMA SentBounded ==
    ASSUME NEW up \in BOOLEAN, NEW base \in 0..MaxVolume
    PROVE  /\ Sent(up, base) \in 0..MaxVolume
           /\ up => base <= Sent(up, base) /\ Sent(up, base) <= base + Step
           /\ ~up => base - Step <= Sent(up, base) /\ Sent(up, base) <= base
<1>1. /\ MaxVolume \in Nat /\ Step \in Nat /\ IntModulus \in Nat
      /\ 2 * (MaxVolume + Step) < IntModulus
  BY VolumeAssumption
<1>2. AsInt(AsSize(base + Step)) = base + Step
  BY <1>1, Wraps
<1>3. AsInt(AsSize(base - Step)) = base - Step
  BY <1>1, Wraps
<1>4. CASE up
  BY <1>1, <1>2, <1>4 DEF Sent, Clamp
<1>5. CASE ~up
  BY <1>1, <1>3, <1>5 DEF Sent, Clamp
<1> QED BY <1>4, <1>5

-----------------------------------------------------------------------------
(* The invariant.                                                          *)

LEMMA VCInitOk == VCInit => VCInv
BY InitOk DEF VCInit, VCInv, VCTypeOK, HasRead, LOInit

\* The goals of a thread that goes on are those it had.
LEMMA GoesOn ==
    ASSUME LOInv, NEW th \in Threads, NEW work, Work(th, work)
    PROVE  \/ goals' = [goals EXCEPT ![th] = <<>>]
           \/ /\ goals' = [goals EXCEPT ![th] = Tail(goals[th])]
              /\ DOMAIN goals'[th] = 1..Len(goals[th]) - 1
              /\ \A i \in 1..Len(goals[th]) - 1 : i + 1 \in DOMAIN goals[th]
                                               /\ goals'[th][i] = goals[th][i + 1]
<1>1. goals[th] \in Seq(Goal) /\ goals[th] # <<>> /\ goals \in [Threads -> Seq(Goal)]
  BY DEF LOInv, Work, Working
<1>2. CASE Return(th)
  BY <1>2 DEF Return
<1>3. CASE Proceed(th)
  <2>1. goals' = [goals EXCEPT ![th] = Tail(goals[th])] /\ goals'[th] = Tail(goals[th])
    BY <1>1, <1>3 DEF Proceed
  <2> QED BY <1>1, <2>1
<1> QED BY <1>2, <1>3 DEF Work

LEMMA BeginOk == ASSUME VCInv, NEW th \in Threads, Begin(th) PROVE VCInv'
<1>1. PICK f \in SectionsOf(th) :
         /\ IF change[th] = NoChange THEN f # "setVolume" ELSE f = "setVolume"
         /\ Enter(th, f)
  BY DEF Begin
<1>2. LOInv'
  BY <1>1, EnterOk DEF VCInv
<1>3. VCTypeOK'
  BY DEF Begin, volumeVars, VCInv, VCTypeOK
<1>4. goals' = [goals EXCEPT ![th] = Section[f]] /\ change' = change
  BY <1>1 DEF Enter, Begin, volumeVars
<1>5. ASSUME NEW i \in DOMAIN goals'[th], goals'[th][i].work = "setVolume"
      PROVE  change'[th] # NoChange
  <2>1. CASE f = "setVolume"
    BY <1>1, <1>4, <2>1
  <2>2. CASE f # "setVolume"
    <3>1. goals'[th] \in Seq(Ordinary)
      BY <1>4, <2>2, OrdinarySections DEF VCInv, LOInv, SectionsOf
    <3> QED BY <1>5, <3>1 DEF Ordinary
  <2> QED BY <2>1, <2>2
<1>6. HasRead'
  BY <1>4, <1>5 DEF HasRead, VCInv, LOInv
<1> QED BY <1>2, <1>3, <1>6 DEF VCInv

LEMMA LockOrUnlockOk == ASSUME VCInv, NEW th \in Threads, LockOrUnlock(th) PROVE VCInv'
<1>1. LOInv'
  BY AcquireOk, ReleaseOk, RefreshOk DEF LockOrUnlock, VCInv
<1>2. VCTypeOK'
  BY DEF LockOrUnlock, volumeVars, VCInv, VCTypeOK
<1>3. change' = change /\ goals \in [Threads -> Seq(Goal)]
  BY DEF LockOrUnlock, volumeVars, VCInv, LOInv
<1>4. ASSUME goals' = goals PROVE HasRead'
  BY <1>3, <1>4 DEF HasRead, VCInv
<1>5. ASSUME Refresh(th) PROVE HasRead'
  <2> DEFINE g == Head(goals[th])
             again == [g EXCEPT !.fresh = FALSE]
             token == Hold(held[th] \o X("token"))
             rest == Tail(goals[th])
  <2>1. /\ goals[th] \in Seq(Goal) /\ goals[th] # <<>>
        /\ goals' = [goals EXCEPT ![th] = <<token, again>> \o rest]
    BY <1>3, <1>5 DEF Refresh, Working
  <2>2. g \in Goal /\ again.work = g.work /\ token.work = "none"
    BY <2>1 DEF Goal, Hold, Do
  <2>3. /\ rest \in Seq(Goal) /\ Len(rest) = Len(goals[th]) - 1
        /\ \A i \in 1..Len(rest) : rest[i] = goals[th][i + 1] /\ i + 1 \in DOMAIN goals[th]
        /\ g = goals[th][1] /\ 1 \in DOMAIN goals[th]
    BY <2>1
  <2> HIDE DEF again, token, rest, g
  <2>4. /\ DOMAIN (<<token, again>> \o rest) = 1..Len(rest) + 2
        /\ (<<token, again>> \o rest)[1] = token /\ (<<token, again>> \o rest)[2] = again
        /\ \A i \in 3..Len(rest) + 2 : (<<token, again>> \o rest)[i] = rest[i - 2]
    BY <2>3
  <2>5. ASSUME NEW i \in DOMAIN goals'[th], goals'[th][i].work = "setVolume"
        PROVE  change'[th] # NoChange
    <3>1. goals'[th] = <<token, again>> \o rest
      BY <1>3, <2>1
    <3>2. i \in 1..Len(rest) + 2 /\ Len(rest) \in Nat
      BY <2>3, <2>4, <3>1
    <3>3. CASE i = 1
      BY <2>2, <2>4, <2>5, <3>1, <3>3
    <3>4. CASE i = 2
      BY <1>3, <2>2, <2>3, <2>4, <2>5, <3>1, <3>4 DEF HasRead, VCInv
    <3>5. CASE i > 2
      <4>1. i - 2 \in 1..Len(rest) /\ goals'[th][i] = rest[i - 2]
        BY <2>4, <3>1, <3>2, <3>5
      <4>2. goals'[th][i] = goals[th][i - 2 + 1] /\ i - 2 + 1 \in DOMAIN goals[th]
        BY <2>3, <4>1
      <4> QED BY <1>3, <2>5, <4>2 DEF HasRead, VCInv
    <3> QED BY <3>2, <3>3, <3>4, <3>5
  <2> QED BY <1>3, <2>1, <2>5 DEF HasRead, VCInv
<1>6. HasRead'
  BY <1>4, <1>5 DEF LockOrUnlock, Acquire, Release
<1> QED BY <1>1, <1>2, <1>6 DEF VCInv

LEMMA OtherWorkOk == ASSUME VCInv, NEW th \in Threads, OtherWork(th) PROVE VCInv'
<1>1. PICK work \in {"none", "ask"} : Work(th, work)
  BY DEF OtherWork
<1>2. LOInv'
  BY <1>1, WorkOk DEF VCInv
<1>3. VCTypeOK'
  BY DEF OtherWork, VCInv, VCTypeOK
<1>4. goals \in [Threads -> Seq(Goal)] /\ goals'[th] \in Seq(Goal)
  BY <1>2 DEF VCInv, LOInv
<1>5. \A b \in Threads \ {th} : goals'[b] = goals[b] /\ change'[b] = change[b]
  BY <1>1, GoesOn DEF OtherWork, VCInv, VCTypeOK, LOInv
<1>6. ASSUME NEW i \in DOMAIN goals'[th], goals'[th][i].work = "setVolume"
      PROVE  change'[th] # NoChange
  <2>1. goals'[th] # <<>> /\ change' = change
    BY <1>6 DEF OtherWork
  <2>2. i + 1 \in DOMAIN goals[th] /\ goals'[th][i] = goals[th][i + 1]
    BY <1>1, <1>4, <2>1, GoesOn DEF VCInv
  <2> QED BY <1>6, <2>1, <2>2 DEF VCInv, HasRead
<1>7. HasRead'
  BY <1>5, <1>6 DEF HasRead, VCInv
<1> QED BY <1>2, <1>3, <1>7 DEF VCInv

\* A thread that returns has no goals left.
LEMMA Returned ==
    ASSUME LOInv, HasRead, NEW th \in Threads, NEW work, Working(th, work), Return(th),
           \A b \in Threads \ {th} : change'[b] = change[b]
    PROVE  LOInv' /\ HasRead'
<1>1. LOInv'
  BY WorkOk DEF Work
<1>2. goals'[th] = <<>> /\ \A b \in Threads \ {th} : goals'[b] = goals[b]
  BY DEF LOInv, Return
<1> QED BY <1>1, <1>2 DEF HasRead

LEMMA GetVolumeOk == ASSUME VCInv, NEW th \in Threads, GetVolume(th) PROVE VCInv'
<1>1. VCTypeOK' /\ \A b \in Threads \ {th} : change'[b] = change[b]
  BY DEF GetVolume, VCInv, VCTypeOK
<1> QED BY <1>1, Returned DEF GetVolume, VCInv

\* What a thread that sets the volume does to a device.
LEMMA SetVolumeStep ==
    ASSUME VCInv, NEW th \in Threads, SetVolume(th)
    PROVE  /\ change[th] # NoChange /\ change[th] \in [up : BOOLEAN, base : 0..MaxVolume]
           /\ \A d \in Devices : volume'[d] \in {volume[d], Sent(change[th].up, change[th].base)}
           /\ volume' \in [Devices -> 0..MaxVolume]
<1>1. goals[th] \in Seq(Goal) /\ goals[th] # <<>> /\ goals[th][1].work = "setVolume"
  BY DEF SetVolume, Working, VCInv, LOInv
<1>2. change[th] # NoChange /\ change[th] \in [up : BOOLEAN, base : 0..MaxVolume]
  BY <1>1, 1 \in DOMAIN goals[th] DEF VCInv, VCTypeOK, HasRead
<1>3. Sent(change[th].up, change[th].base) \in 0..MaxVolume
  BY <1>2, SentBounded
<1>4. volume \in [Devices -> 0..MaxVolume] /\ {Configured, active} \ {NoDevice} \subseteq Devices
  BY DeviceAssumption DEF VCInv, VCTypeOK
<1> QED BY <1>2, <1>3, <1>4 DEF SetVolume

LEMMA SetVolumeOk == ASSUME VCInv, NEW th \in Threads, SetVolume(th) PROVE VCInv'
<1>1. VCTypeOK'
  BY SetVolumeStep DEF SetVolume, VCInv, VCTypeOK
<1>2. \A b \in Threads \ {th} : change'[b] = change[b]
  BY DEF SetVolume, VCInv, VCTypeOK
<1> QED BY <1>1, <1>2, Returned DEF SetVolume, VCInv

LEMMA TransferOk == ASSUME VCInv, Transfer PROVE VCInv'
BY DEF Transfer, loVars, VCInv, LOInv, MutualExclusion, Owns, VCTypeOK, HasRead

LEMMA VCStepOk == ASSUME VCInv, [VCNext]_vcVars PROVE VCInv'
<1>1. CASE UNCHANGED vcVars
  BY <1>1 DEF vcVars, loVars, VCInv, LOInv, MutualExclusion, Owns, VCTypeOK, HasRead
<1>2. ASSUME NEW th \in Threads, ThreadStep(th) PROVE VCInv'
  BY <1>2, LockOrUnlockOk, OtherWorkOk, GetVolumeOk, SetVolumeOk DEF ThreadStep
<1> QED BY <1>1, <1>2, BeginOk, TransferOk DEF VCNext

-----------------------------------------------------------------------------

\* What is in VCTypeOK holds at all times, whatever the widths of the integers.
THEOREM VolumeTyped == VCSpec => []VCTypeOK
<1>1. VCInv /\ [VCNext]_vcVars => VCInv'
  BY VCStepOk
<1>2. VCInv => VCTypeOK
  BY DEF VCInv
<1> QED BY <1>1, <1>2, VCInitOk, PTL DEF VCSpec

\* No requests, with or without the scheduler, wait for each other in a circle.
THEOREM DeadlockFree == VCSpec => []NoCircularWait
<1>1. VCInv /\ [VCNext]_vcVars => VCInv'
  BY VCStepOk
<1>2. VCInv => NoCircularWait
  BY NoCircle DEF VCInv
<1> QED BY <1>1, <1>2, VCInitOk, PTL DEF VCSpec

\* Nobody gets between the two mutexes of the scheduler (nextTrack,
\* checkForInconsistency and doSchedule, SimpleScheduler.cpp:59, 74 and 103).
THEOREM LocksActAsOne == VCSpec => []OneLock
<1>1. VCInv /\ [VCNext]_vcVars => VCInv'
  BY VCStepOk
<1>2. VCInv => OneLock
  BY InsideBoth DEF VCInv
<1> QED BY <1>1, <1>2, VCInitOk, PTL DEF VCSpec

\* A request moves the volume it has read by at most a step, the way it was asked to.
THEOREM VolumeMovesAStep == VCSpec => VolumeStepBounded
<1> DEFINE Bounded ==
        \A d \in Devices : volume'[d] # volume[d]
         => \E th \in Threads :
               /\ change[th] # NoChange
               /\ LET base == change[th].base
                  IN IF change[th].up
                     THEN base <= volume'[d] /\ volume'[d] <= base + Step
                     ELSE base - Step <= volume'[d] /\ volume'[d] <= base
<1>1. VCInv /\ [VCNext]_vcVars => VCInv'
  BY VCStepOk
<1>2. ASSUME VCInv, [VCNext]_vcVars PROVE [Bounded]_vcVars
  <2> SUFFICES ASSUME NEW d \in Devices, volume'[d] # volume[d] PROVE Bounded
    OBVIOUS
  <2>1. PICK th \in Threads : SetVolume(th)
    BY <1>2 DEF VCNext, vcVars, Transfer, ThreadStep, Begin, volumeVars, LockOrUnlock, OtherWork, GetVolume
  <2>2. \A e \in Devices : volume'[e] # volume[e] => volume'[e] = Sent(change[th].up, change[th].base)
    BY <1>2, <2>1, SetVolumeStep
  <2>3. change[th] # NoChange /\ change[th].up \in BOOLEAN /\ change[th].base \in 0..MaxVolume
    BY <1>2, <2>1, SetVolumeStep
  <2> QED BY <2>2, <2>3, SentBounded
<1> QED BY <1>1, <1>2, VCInitOk, PTL DEF VCSpec, VolumeStepBounded

=============================================================================
