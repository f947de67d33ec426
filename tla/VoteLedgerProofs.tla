-------------------------- MODULE VoteLedgerProofs --------------------------
(***************************************************************************)
(* Proofs about VoteLedger, for any tracks, sessions and threads: the      *)
(* counter of every track in the ledger is exact, and no counter falls     *)
(* further below the recorded votes than there were sessions.              *)
(***************************************************************************)
EXTENDS VoteLedger, RAMDataStoreProofs, FiniteSetTheorems

\* The votes of a track in the ledger are not about to be dropped: a track that a
\* thread clears has left the normal queue since, and one queued again meanwhile
\* does not enter.
LedgerInv ==
    /\ IsFiniteSet(issued)
    /\ ledger \subseteq IdsOf(queue["Normal"])
    /\ \A t \in ledger : ~BeingCleared(t)
    /\ LedgerExact
    /\ DebtBounded

-----------------------------------------------------------------------------
(* The tracks in a queue.                                                  *)

Elements(q) == { q[i] : i \in DOMAIN q }

LEMMA IdsOfElements ==
    ASSUME NEW q
    PROVE  IdsOf(q) = { e.trackId : e \in Elements(q) }
BY DEF IdsOf, Elements

LEMMA ElementsAfterPush ==
    ASSUME NEW S, NEW q \in Seq(S), NEW e \in S
    PROVE  Elements(Append(q, e)) \subseteq Elements(q) \cup {e}
<1> DEFINE r == Append(q, e)
<1>1. /\ Len(q) \in Nat /\ DOMAIN q = 1..Len(q) /\ DOMAIN r = 1..(Len(q) + 1)
      /\ \A i \in 1..Len(q) : r[i] = q[i]
      /\ r[Len(q) + 1] = e
  BY AppendProperties, LenProperties
<1> HIDE DEF r
<1>2. ASSUME NEW i \in DOMAIN r
      PROVE  r[i] \in Elements(q) \cup {e}
  <2>1. i \in 1..Len(q) \/ i = Len(q) + 1
    BY <1>1
  <2> QED BY <1>1, <2>1 DEF Elements
<1> QED BY <1>2 DEF Elements, r

LEMMA ElementsAfterPop ==
    ASSUME NEW S, NEW q \in Seq(S), q # <<>>
    PROVE  Elements(Tail(q)) \subseteq Elements(q)
<1>1. /\ DOMAIN q = 1..Len(q) /\ Len(q) \in Nat /\ Len(q) > 0
      /\ DOMAIN Tail(q) = 1..(Len(q) - 1)
      /\ \A k \in 1..(Len(q) - 1) : Tail(q)[k] = q[k + 1]
  BY HeadTailProperties, LenProperties
<1> QED BY <1>1 DEF Elements

LEMMA ElementsAfterErase ==
    ASSUME NEW S, NEW q \in Seq(S), UniqueIds(q), NEW t \in IdsOf(q)
    PROVE  Elements(Erase(q, t)) \subseteq Elements(q)
<1> DEFINE r == Erase(q, t)
           i == Find(q, t)
<1>1. i \in 1..Len(q) /\ DOMAIN q = 1..Len(q) /\ Len(q) \in Nat
  BY FindUnique, LenProperties
<1>2. /\ r \in Seq(S) /\ Len(r) = Len(q) - 1
      /\ \A k \in 1..(Len(q) - 1) : r[k] = IF k < i THEN q[k] ELSE q[k + 1]
  BY <1>1, RemoveAtElements DEF Erase
<1>3. DOMAIN r = 1..(Len(q) - 1)
  BY <1>2, LenProperties
<1> HIDE DEF r, i
<1>4. \A k \in DOMAIN r : r[k] \in Elements(q)
  BY <1>1, <1>2, <1>3 DEF Elements
<1> QED BY <1>4 DEF Elements, r

LEMMA ElementsAfterSort ==
    ASSUME NEW S, NEW q \in Seq(S), NEW s \in SortsOf(q)
    PROVE  Elements(s) = Elements(q)
BY SortProperties DEF Elements

-----------------------------------------------------------------------------
(* Voters.                                                                 *)

\* Who voted is registered, and there are finitely many.
LEMMA VotersFinite ==
    ASSUME IInv, IsFiniteSet(issued), NEW t
    PROVE  /\ IsFiniteSet(Voters(t))
           /\ Cardinality(Voters(t)) \in Nat
           /\ Cardinality(issued) \in Nat
           /\ Cardinality(Voters(t)) <= Cardinality(issued)
<1>1. Voters(t) \in SUBSET issued
  BY DEF Voters, IInv, DSTypeOK
<1>2. IsFiniteSet(Voters(t)) /\ Cardinality(Voters(t)) <= Cardinality(issued)
  BY <1>1, FS_Subset
<1> QED BY <1>2, FS_CardinalityType

LEMMA IdsTyped ==
    ASSUME NEW q \in Seq(QueuedTrack)
    PROVE  IdsOf(q) \subseteq TrackIds
<1>1. \A i \in DOMAIN q : q[i] \in QueuedTrack
  BY ElementOfSeq, LenProperties
<1> QED BY <1>1 DEF IdsOf, QueuedTrack

\* The tracks of the normal queue have counters.
LEMMA NormalTracksTyped ==
    ASSUME IInv
    PROVE  /\ NormalTracks = Elements(queue["Normal"])
           /\ IdsOf(queue["Normal"]) \subseteq TrackIds
           /\ \A e \in NormalTracks : /\ e.votes \in Int /\ e.trackId \in TrackIds
                                      /\ HasTrack(e.trackId, "Normal")
<1>1. queue["Normal"] \in Seq(QueuedTrack)
  BY DEF IInv, DSTypeOK, QueueType
<1>2. \A i \in DOMAIN queue["Normal"] : queue["Normal"][i] \in QueuedTrack
  BY <1>1, ElementOfSeq, LenProperties
<1> QED BY <1>2 DEF NormalTracks, Elements, HasTrack, IdsOf, QueuedTrack

-----------------------------------------------------------------------------
(* The ledger.                                                             *)

\* Whatever the step, only tracks in the normal queue are in the ledger.
LEMMA LedgerQueued ==
    ASSUME ledger' = LedgerAfter
    PROVE  /\ (ledger \subseteq IdsOf(queue["Normal"]))'
           /\ \A t \in ledger' :
                 \/ t \in ledger /\ \A s \in Voters(t) : s \in DOMAIN mUsers'
                 \/ ~HasTrack(t, "Normal") /\ Voters(t) = {} /\ ~BeingCleared(t)
BY DEF LedgerAfter, HasTrack

\* A step that leaves the votes alone: tracks leave the normal queue, or enter it
\* with a counter of zero, and who clears a track has taken it out.
LEMMA QueueStepLedger ==
    ASSUME IInv, IInv', LedgerInv, ledger' = LedgerAfter,
           mUsers' = mUsers, issued' = issued,
           \A e \in NormalTracks' :
                \/ e \in NormalTracks
                \/ e.votes = 0 /\ ~HasTrack(e.trackId, "Normal"),
           \A t \in TrackIds : BeingCleared(t)' => BeingCleared(t) \/ ~HasTrack(t, "Normal")'
    PROVE  LedgerInv'
<1>1. IsFiniteSet(issued) /\ IsFiniteSet(issued')
  BY DEF LedgerInv
<1>2. \A t : Voters(t)' = Voters(t)
  BY DEF Voters
<1>3. \A t \in ledger' : ~BeingCleared(t)'
  <2> SUFFICES ASSUME NEW t \in ledger' PROVE ~BeingCleared(t)'
    OBVIOUS
  <2>1. HasTrack(t, "Normal")' /\ ~BeingCleared(t)
    BY LedgerQueued DEF LedgerInv, HasTrack
  <2>2. queue'["Normal"] \in Seq(QueuedTrack)
    BY DEF IInv, DSTypeOK, QueueType
  <2>3. t \in TrackIds
    BY <2>1, <2>2, IdsTyped DEF HasTrack
  <2> QED BY <2>1, <2>3
<1>4. LedgerExact'
  <2> SUFFICES ASSUME NEW e \in NormalTracks', e.trackId \in ledger'
               PROVE  e.votes = Cardinality(Voters(e.trackId))
    BY <1>2 DEF LedgerExact
  <2>1. CASE e \in NormalTracks
    <3>1. e.trackId \in ledger
      BY <2>1, LedgerQueued, NormalTracksTyped
    <3> QED BY <2>1, <3>1 DEF LedgerInv, LedgerExact
  <2>2. CASE e.votes = 0 /\ ~HasTrack(e.trackId, "Normal")
    <3>1. e.trackId \notin ledger
      BY <2>2 DEF LedgerInv, HasTrack
    <3>2. Voters(e.trackId) = {}
      BY <3>1, LedgerQueued
    <3> QED BY <2>2, <3>2, FS_EmptySet
  <2> QED BY <2>1, <2>2
<1>5. DebtBounded'
  <2> SUFFICES ASSUME NEW e \in NormalTracks'
               PROVE  e.votes >= Cardinality(Voters(e.trackId)) - Cardinality(issued)
    BY <1>2 DEF DebtBounded
  <2>1. CASE e \in NormalTracks
    BY <2>1 DEF LedgerInv, DebtBounded
  <2>2. CASE e.votes = 0
    BY <1>1, <2>2, VotersFinite
  <2> QED BY <2>1, <2>2
<1> QED BY <1>1, <1>3, <1>4, <1>5, LedgerQueued DEF LedgerInv

\* A step that leaves the queues alone: voters may go, but none of a track that
\* stays in the ledger.
LEMMA UserStepLedger ==
    ASSUME IInv, IInv', LedgerInv, ledger' = LedgerAfter,
           queue' = queue, IsFiniteSet(issued'), issued \subseteq issued',
           \A t : Voters(t)' \subseteq Voters(t),
           \A t \in ledger : (\A s \in Voters(t) : s \in DOMAIN mUsers')
                                => Voters(t)' = Voters(t),
           \A t \in TrackIds : BeingCleared(t)' => BeingCleared(t)
    PROVE  LedgerInv'
<1>1. NormalTracks' = NormalTracks
  BY DEF NormalTracks
<1>2. ASSUME NEW t \in ledger'
      PROVE  t \in ledger /\ t \in TrackIds /\ Voters(t)' = Voters(t)
  <2>1. HasTrack(t, "Normal")
    BY LedgerQueued DEF HasTrack
  <2> QED BY <2>1, LedgerQueued, NormalTracksTyped DEF HasTrack
<1>3. \A t \in ledger' : ~BeingCleared(t)'
  BY <1>2 DEF LedgerInv
<1>4. LedgerExact'
  BY <1>1, <1>2 DEF LedgerInv, LedgerExact
<1>5. DebtBounded'
  <2> SUFFICES ASSUME NEW e \in NormalTracks
               PROVE  e.votes >= Cardinality(Voters(e.trackId)') - Cardinality(issued')
    BY <1>1 DEF DebtBounded
  <2>1. IsFiniteSet(issued) /\ e.votes \in Int
    BY NormalTracksTyped DEF LedgerInv
  <2>2. /\ IsFiniteSet(Voters(e.trackId)) /\ Cardinality(Voters(e.trackId)) \in Nat
        /\ Cardinality(issued) \in Nat
    BY <2>1, VotersFinite
  <2>3. /\ Cardinality(Voters(e.trackId)') <= Cardinality(Voters(e.trackId))
        /\ Cardinality(Voters(e.trackId)') \in Nat
    BY <2>2, FS_Subset, FS_CardinalityType
  <2>4. Cardinality(issued) <= Cardinality(issued') /\ Cardinality(issued') \in Nat
    BY FS_Subset, FS_CardinalityType
  <2>5. e.votes >= Cardinality(Voters(e.trackId)) - Cardinality(issued)
    BY DEF LedgerInv, DebtBounded
  <2> QED BY <2>1, <2>2, <2>3, <2>4, <2>5
<1> QED BY <1>3, <1>4, <1>5, LedgerQueued DEF LedgerInv

-----------------------------------------------------------------------------
(* The operations.                                                         *)

LEMMA AddUserLedger ==
    ASSUME IInv, IInv', LedgerInv, ledger' = LedgerAfter,
           NEW th \in Threads, NEW s \in SessionIds, NEW p \in Profiles, NEW time,
           AddUser(th, s, p, time)
    PROVE  LedgerInv'
<1>1. s \notin DOMAIN mUsers
  BY DEF AddUser, IInv, DSTypeOK
<1>2. /\ DOMAIN mUsers' = DOMAIN mUsers \cup {s} /\ mUsers'[s].votes = {}
      /\ \A x \in DOMAIN mUsers : mUsers'[x] = mUsers[x]
  BY <1>1 DEF AddUser
<1>3. \A t : Voters(t)' = Voters(t)
  BY <1>1, <1>2 DEF Voters
<1>4. IsFiniteSet(issued') /\ issued \subseteq issued'
  BY FS_AddElement DEF AddUser, LedgerInv
<1>5. queue' = queue /\ clearing' = clearing
  BY DEF AddUser
<1> QED BY <1>3, <1>4, <1>5, UserStepLedger DEF BeingCleared

LEMMA RemoveUserLedger ==
    ASSUME IInv, IInv', LedgerInv, ledger' = LedgerAfter,
           NEW th \in Threads, NEW s \in SessionIds, RemoveUser(th, s)
    PROVE  LedgerInv'
<1>1. /\ DOMAIN mUsers' = DOMAIN mUsers \ {s}
      /\ \A x \in DOMAIN mUsers' : mUsers'[x] = mUsers[x]
  BY DEF RemoveUser, Restrict
<1>2. \A t : Voters(t)' = Voters(t) \ {s}
  BY <1>1 DEF Voters
<1>3. \A t : (\A x \in Voters(t) : x \in DOMAIN mUsers') => Voters(t)' = Voters(t)
  BY <1>1, <1>2
<1>4. queue' = queue /\ clearing' = clearing /\ issued' = issued
  BY DEF RemoveUser
<1> QED BY <1>2, <1>3, <1>4, UserStepLedger DEF BeingCleared, LedgerInv

LEMMA RemoveVotesLedger ==
    ASSUME IInv, IInv', LedgerInv, ledger' = LedgerAfter,
           NEW th \in Threads, RemoveVotesForTrack(th)
    PROVE  LedgerInv'
<1>1. clearing[th] # NoTrack /\ clearing \in [Threads -> TrackIds \cup {NoTrack}]
  BY DEF RemoveVotesForTrack, Free, IInv, DSTypeOK
<1>2. ASSUME NEW s \in DOMAIN mUsers
      PROVE  mUsers'[s].votes = mUsers[s].votes \ {clearing[th]}
  <2>1. mUsers[s] \in User
    BY DEF IInv, DSTypeOK
  <2>2. mUsers'[s] = [mUsers[s] EXCEPT !.votes = @ \ {clearing[th]}]
    BY DEF RemoveVotesForTrack
  <2> QED BY <2>1, <2>2 DEF User
<1>3. DOMAIN mUsers' = DOMAIN mUsers
  BY DEF RemoveVotesForTrack
<1>4. \A t : Voters(t)' \subseteq Voters(t) /\ (t # clearing[th] => Voters(t)' = Voters(t))
  BY <1>2, <1>3 DEF Voters
<1>5. clearing[th] \notin ledger
  BY DEF LedgerInv, BeingCleared
<1>6. \A t \in ledger : Voters(t)' = Voters(t)
  BY <1>4, <1>5
<1>7. \A t \in TrackIds : BeingCleared(t)' => BeingCleared(t)
  BY <1>1, NoTrackAssumption DEF RemoveVotesForTrack, BeingCleared
<1>8. queue' = queue /\ issued' = issued
  BY DEF RemoveVotesForTrack
<1> QED BY <1>4, <1>6, <1>7, <1>8, UserStepLedger DEF LedgerInv

LEMMA AddTrackLedger ==
    ASSUME IInv, IInv', LedgerInv, ledger' = LedgerAfter,
           NEW th \in Threads, NEW t \in TrackIds, NEW by \in Names, NEW q \in QueueType,
           AddTrack(th, t, by, q)
    PROVE  LedgerInv'
<1> DEFINE e == [trackId |-> t, addedBy |-> by, votes |-> 0, insertedAt |-> now]
<1>1. /\ queue \in [QueueType -> Seq(QueuedTrack)] /\ queue["Normal"] \in Seq(QueuedTrack)
      /\ now \in Nat
  BY DEF IInv, DSTypeOK, QueueType
<1>2. e \in QueuedTrack /\ e.votes = 0 /\ e.trackId = t
  BY <1>1 DEF QueuedTrack
<1>3. queue' = [queue EXCEPT ![q] = Append(queue[q], e)]
  BY DEF AddTrack
<1> HIDE DEF e
<1>4. ~HasTrack(t, "Normal")
  BY DEF AddTrack, Addable, OtherQueue, QueueType
<1>5. queue'["Normal"] = queue["Normal"] \/ queue'["Normal"] = Append(queue["Normal"], e)
  BY <1>1, <1>3 DEF QueueType
<1>6. \A x \in Elements(queue'["Normal"]) : x \in Elements(queue["Normal"]) \/ x = e
  BY <1>1, <1>2, <1>5, ElementsAfterPush
<1>7. \A x \in NormalTracks' :
         \/ x \in NormalTracks
         \/ x.votes = 0 /\ ~HasTrack(x.trackId, "Normal")
  BY <1>2, <1>4, <1>6 DEF NormalTracks, Elements
<1>8. UNCHANGED <<mUsers, issued, clearing>>
  BY DEF AddTrack
<1> QED BY <1>7, <1>8, QueueStepLedger DEF BeingCleared

LEMMA RemoveTrackLedger ==
    ASSUME IInv, IInv', LedgerInv, ledger' = LedgerAfter,
           NEW th \in Threads, NEW t \in TrackIds, NEW q \in QueueType, RemoveTrack(th, t, q)
    PROVE  LedgerInv'
<1>1. /\ queue \in [QueueType -> Seq(QueuedTrack)] /\ queue["Normal"] \in Seq(QueuedTrack)
      /\ UniqueIds(queue["Normal"])
      /\ clearing \in [Threads -> TrackIds \cup {NoTrack}]
  BY DEF IInv, DSTypeOK, Good, QueueType
<1>2. t \in IdsOf(queue[q])
  BY DEF RemoveTrack, HasTrack
<1>3. /\ Elements(queue'["Normal"]) \subseteq Elements(queue["Normal"])
      /\ t \notin IdsOf(queue'["Normal"])
  <2>1. CASE q = "Normal"
    <3>1. queue'["Normal"] = Erase(queue["Normal"], t)
      BY <1>1, <2>1 DEF RemoveTrack
    <3> QED BY <1>1, <1>2, <2>1, <3>1, ElementsAfterErase, EraseProperties
  <2>2. CASE q = "Admin"
    <3>1. queue'["Normal"] = queue["Normal"]
      BY <1>1, <2>2 DEF RemoveTrack
    <3> QED BY <1>2, <2>2, <3>1 DEF IInv
  <2> QED BY <2>1, <2>2 DEF QueueType
<1>4. NormalTracks' \subseteq NormalTracks /\ ~HasTrack(t, "Normal")'
  BY <1>3 DEF NormalTracks, Elements, HasTrack
<1>5. \A u : BeingCleared(u)' => BeingCleared(u) \/ u = t
  BY <1>1 DEF RemoveTrack, BeingCleared
<1>6. UNCHANGED <<mUsers, issued>>
  BY DEF RemoveTrack
<1> QED BY <1>4, <1>5, <1>6, QueueStepLedger

LEMMA NextTrackLedger ==
    ASSUME IInv, IInv', LedgerInv, ledger' = LedgerAfter, NEW th \in Threads, NextTrack(th)
    PROVE  LedgerInv'
<1> DEFINE q     == NextQueue
           rest  == [queue EXCEPT ![q] = Tail(queue[q])]
<1>1. /\ queue \in [QueueType -> Seq(QueuedTrack)]
      /\ \A x \in QueueType : queue[x] \in Seq(QueuedTrack) /\ UniqueIds(queue[x])
      /\ clearing \in [Threads -> TrackIds \cup {NoTrack}]
  BY DEF IInv, DSTypeOK, Good
<1>2. q \in QueueType /\ queue[q] # <<>>
  BY DEF NextTrack, NextQueue, QueueType
<1>3. PICK sorted \in SortsOf(rest["Normal"]) : queue' = [rest EXCEPT !["Normal"] = sorted]
  BY DEF NextTrack
<1>4. PICK t : t = Head(queue[q]).trackId
  OBVIOUS
<1>5. clearing' = [clearing EXCEPT ![th] = t] /\ UNCHANGED <<mUsers, issued>>
  BY <1>4 DEF NextTrack
<1> HIDE DEF q
<1>6. /\ rest["Normal"] \in Seq(QueuedTrack)
      /\ Elements(rest["Normal"]) \subseteq Elements(queue["Normal"])
      /\ t \notin IdsOf(rest["Normal"])
  <2>1. CASE q = "Normal"
    <3>1. rest["Normal"] = Tail(queue["Normal"])
      BY <1>1, <2>1 DEF QueueType
    <3> QED BY <1>1, <1>2, <1>4, <2>1, <3>1, ElementsAfterPop, PopProperties
  <2>2. CASE q = "Admin"
    <3>1. rest["Normal"] = queue["Normal"] /\ "Normal" \in QueueType
      BY <1>1, <2>2 DEF QueueType
    <3>2. t \in IdsOf(queue["Admin"])
      BY <1>1, <1>2, <1>4, <2>2, PopProperties
    <3> QED BY <1>1, <3>1, <3>2 DEF IInv
  <2> QED BY <1>2, <2>1, <2>2 DEF QueueType
<1> HIDE DEF rest
<1>7. Elements(sorted) = Elements(rest["Normal"]) /\ IdsOf(sorted) = IdsOf(rest["Normal"])
  BY <1>3, <1>6, ElementsAfterSort, SortProperties
<1>8. queue'["Normal"] = sorted
  BY <1>1, <1>3 DEF QueueType, rest
<1>9. NormalTracks' \subseteq NormalTracks /\ ~HasTrack(t, "Normal")'
  BY <1>6, <1>7, <1>8 DEF NormalTracks, Elements, HasTrack
<1>10. \A u : BeingCleared(u)' => BeingCleared(u) \/ u = t
  BY <1>1, <1>5 DEF BeingCleared
<1> QED BY <1>5, <1>9, <1>10, QueueStepLedger

\* The counter moves with the number of entries, or not at all.
LEMMA VoteCounted ==
    ASSUME IInv, LedgerInv, NEW th \in Threads, NEW s \in SessionIds, NEW t \in TrackIds,
           NEW vote \in BOOLEAN, VoteTrack(th, s, t, vote)
    PROVE  /\ \A u : u # t => Voters(u)' = Voters(u)
           /\ Cardinality(Voters(t)') = Cardinality(Voters(t)) + Delta(s, t, vote)
<1>1. s \in DOMAIN mUsers /\ mUsers[s] \in User
  BY DEF VoteTrack, HasUser, IInv, DSTypeOK
<1> DEFINE v == IF vote THEN mUsers[s].votes \cup {t} ELSE mUsers[s].votes \ {t}
<1>2. mUsers' = [mUsers EXCEPT ![s] = [mUsers[s] EXCEPT !.votes = v]]
  BY <1>1 DEF VoteTrack
<1>3. /\ DOMAIN mUsers' = DOMAIN mUsers /\ mUsers'[s].votes = v
      /\ \A x \in DOMAIN mUsers \ {s} : mUsers'[x] = mUsers[x]
  BY <1>1, <1>2 DEF User, IInv, DSTypeOK
<1>4. \A u : u # t => Voters(u)' = Voters(u)
  BY <1>3 DEF Voters
<1>5. s \in Voters(t) <=> t \in mUsers[s].votes
  BY <1>1 DEF Voters
<1>6. Voters(t)' = IF vote THEN Voters(t) \cup {s} ELSE Voters(t) \ {s}
  BY <1>1, <1>3 DEF Voters
<1>7. IsFiniteSet(Voters(t)) /\ Cardinality(Voters(t)) \in Nat
  BY VotersFinite DEF LedgerInv
<1>8. Delta(s, t, vote) = IF vote THEN IF s \in Voters(t) THEN 0 ELSE 1
                                  ELSE IF s \in Voters(t) THEN -1 ELSE 0
  BY <1>5 DEF Delta
<1>9. /\ Cardinality(Voters(t) \cup {s}) =
            IF s \in Voters(t) THEN Cardinality(Voters(t)) ELSE Cardinality(Voters(t)) + 1
      /\ Cardinality(Voters(t) \ {s}) =
            IF s \in Voters(t) THEN Cardinality(Voters(t)) - 1 ELSE Cardinality(Voters(t))
  BY <1>7, FS_AddElement, FS_RemoveElement
<1>10. CASE vote
  BY <1>4, <1>6, <1>7, <1>8, <1>9, <1>10
<1>11. CASE ~vote
  BY <1>4, <1>6, <1>7, <1>8, <1>9, <1>11
<1> QED BY <1>10, <1>11

LEMMA VoteTrackLedger ==
    ASSUME IInv, IInv', LedgerInv, ledger' = LedgerAfter,
           NEW th \in Threads, NEW s \in SessionIds, NEW t \in TrackIds,
           NEW vote \in BOOLEAN, VoteTrack(th, s, t, vote)
    PROVE  LedgerInv'
<1> DEFINE q == queue["Normal"]
           d == Delta(s, t, vote)
           r == AddVotes(q, t, d)
<1>1. /\ queue \in [QueueType -> Seq(QueuedTrack)]
      /\ q \in Seq(Tracks(TrackIds, Names)) /\ UniqueIds(q)
  BY QueuedTrackIsTracks DEF IInv, DSTypeOK, Good, QueueType
<1>2. d \in Int
  BY DEF Delta
<1>3. PICK sorted \in SortsOf(r) : queue' = [queue EXCEPT !["Normal"] = sorted]
  BY DEF VoteTrack
<1>4. UNCHANGED <<issued, clearing>>
  BY DEF VoteTrack
<1> HIDE DEF d
<1>5. /\ r \in Seq(Tracks(TrackIds, Names)) /\ IdsOf(r) = IdsOf(q) /\ DOMAIN r = DOMAIN q
      /\ \A i \in DOMAIN q :
            /\ r[i].trackId = q[i].trackId
            /\ r[i].votes = IF q[i].trackId = t THEN q[i].votes + d ELSE q[i].votes
  BY <1>1, <1>2, AddVotesProperties
<1>6. queue'["Normal"] = sorted
  BY <1>1, <1>3 DEF QueueType
<1>7. Elements(sorted) = Elements(r) /\ IdsOf(sorted) = IdsOf(q)
  BY <1>3, <1>5, ElementsAfterSort, SortProperties
<1> HIDE DEF r
<1>8. ASSUME NEW e \in NormalTracks'
      PROVE  \E x \in NormalTracks :
                /\ e.trackId = x.trackId
                /\ e.votes = IF x.trackId = t THEN x.votes + d ELSE x.votes
  <2>1. e \in Elements(r)
    BY <1>6, <1>7 DEF NormalTracks, Elements
  <2> QED BY <1>5, <2>1 DEF NormalTracks, Elements
<1>9. ledger' \subseteq ledger
  BY <1>6, <1>7, LedgerQueued DEF HasTrack
<1>10. \A u \in ledger' : ~BeingCleared(u)'
  BY <1>4, <1>9 DEF LedgerInv, BeingCleared
<1>11. /\ \A u : u # t => Voters(u)' = Voters(u)
       /\ Cardinality(Voters(t)') = Cardinality(Voters(t)) + d
  BY VoteCounted DEF d
<1>12. \A u : Cardinality(Voters(u)) \in Nat /\ Cardinality(issued) \in Nat
  BY VotersFinite DEF LedgerInv
<1>13. LedgerExact'
  <2> SUFFICES ASSUME NEW e \in NormalTracks', e.trackId \in ledger'
               PROVE  e.votes = Cardinality(Voters(e.trackId)')
    BY DEF LedgerExact
  <2>1. PICK x \in NormalTracks :
           /\ e.trackId = x.trackId
           /\ e.votes = IF x.trackId = t THEN x.votes + d ELSE x.votes
    BY <1>8
  <2>2. x.votes = Cardinality(Voters(x.trackId))
    BY <1>9, <2>1 DEF LedgerInv, LedgerExact
  <2> QED BY <1>11, <2>1, <2>2
<1>14. DebtBounded'
  <2> SUFFICES ASSUME NEW e \in NormalTracks'
               PROVE  e.votes >= Cardinality(Voters(e.trackId)') - Cardinality(issued)
    BY <1>4 DEF DebtBounded
  <2>1. PICK x \in NormalTracks :
           /\ e.trackId = x.trackId
           /\ e.votes = IF x.trackId = t THEN x.votes + d ELSE x.votes
    BY <1>8
  <2>2. x.votes >= Cardinality(Voters(x.trackId)) - Cardinality(issued) /\ x.votes \in Int
    BY NormalTracksTyped DEF LedgerInv, DebtBounded
  <2>3. CASE x.trackId = t
    BY <1>2, <1>11, <1>12, <2>1, <2>2, <2>3
  <2>4. CASE x.trackId # t
    BY <1>11, <2>1, <2>2, <2>4
  <2> QED BY <2>3, <2>4
<1> QED BY <1>4, <1>10, <1>13, <1>14, LedgerQueued DEF LedgerInv

-----------------------------------------------------------------------------
(* The theorems.                                                           *)

LEMMA InitLedger == VLInit => IInv /\ LedgerInv
<1> SUFFICES ASSUME VLInit PROVE IInv /\ LedgerInv
  OBVIOUS
<1>1. IInv
  BY InitIInv DEF VLInit
<1>2. issued = {} /\ ledger = {} /\ queue["Normal"] = <<>>
  BY DEF VLInit, DSInit, QueueType
<1>3. NormalTracks = {}
  BY <1>2 DEF NormalTracks
<1> QED BY <1>1, <1>2, <1>3, FS_EmptySet DEF LedgerInv, LedgerExact, DebtBounded

LEMMA NextLedger == IInv /\ LedgerInv /\ [VLNext]_vlVars => IInv' /\ LedgerInv'
<1> SUFFICES ASSUME IInv, LedgerInv, [VLNext]_vlVars PROVE IInv' /\ LedgerInv'
  OBVIOUS
<1>1. IInv'
  BY NextIInv DEF VLNext, vlVars
<1>2. CASE UNCHANGED vlVars
  BY <1>1, <1>2 DEF vlVars, dsVars, LedgerInv, LedgerExact, DebtBounded, NormalTracks, Voters,
                    BeingCleared
<1>3. CASE VLNext
  <2>1. ledger' = LedgerAfter
    BY <1>3 DEF VLNext
  <2>2. CASE Tick
    BY <1>1, <2>1, <2>2, QueueStepLedger DEF Tick, NormalTracks, BeingCleared
  <2>3. ASSUME NEW th \in Threads, ThreadStep(th)
        PROVE  LedgerInv'
    BY <1>1, <2>1, <2>3, AddUserLedger, RemoveUserLedger, AddTrackLedger, RemoveTrackLedger,
       NextTrackLedger, RemoveVotesLedger, VoteTrackLedger DEF ThreadStep
  <2> QED BY <1>1, <1>3, <2>2, <2>3 DEF VLNext, DSNext
<1> QED BY <1>2, <1>3

LEMMA LedgerInvariance == VLSpec => [](IInv /\ LedgerInv)
BY InitLedger, NextLedger, PTL DEF VLSpec

\* With any number of users and threads, the counter of a track that was queued
\* before anybody voted for it is the number of recorded votes, although removeTrack
\* and nextTrack drop those after they have let go of the queues.
THEOREM VotesCounted == VLSpec => []LedgerExact
<1>1. LedgerInv => LedgerExact
  BY DEF LedgerInv
<1> QED BY <1>1, LedgerInvariance, PTL

\* With any number of users and threads, every session downvotes a track at most once.
THEOREM DownvotesBounded == VLSpec => []DebtBounded
<1>1. LedgerInv => DebtBounded
  BY DEF LedgerInv
<1> QED BY <1>1, LedgerInvariance, PTL

=============================================================================
