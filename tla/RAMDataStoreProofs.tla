------------------------- MODULE RAMDataStoreProofs -------------------------
(***************************************************************************)
(* Proofs about TrackQueue, what an erase, a pop, a push, a vote and a     *)
(* sort preserve of a queue, and about RAMDataStore, for any tracks,       *)
(* sessions, profiles, threads and timeout: its type, that no track is     *)
(* queued twice, that the queues stay in playing order although addTrack   *)
(* does not sort them, and that it implements Playlist: under the mapping  *)
(* that forgets votes, users and the clock, every operation is a step of   *)
(* the playlist or invisible to it.                                        *)
(***************************************************************************)
EXTENDS RAMDataStore, SequenceTheorems, TLAPS

\* No ID occurs twice in q.
UniqueIds(q) == \A i, j \in DOMAIN q : q[i].trackId = q[j].trackId => i = j

\* Nothing in q was inserted after time n.
InsertedBy(q, n) == \A i \in DOMAIN q : q[i].insertedAt <= n

\* All counters in q are zero.
Uncounted(q) == \A i \in DOMAIN q : q[i].votes = 0

\* q is sorted, except behind tracks with a negative counter.
Settled(q) == \A i, j \in DOMAIN q : i < j /\ q[i].votes >= 0 => ~Before(q[j], q[i])


-----------------------------------------------------------------------------

\* What erasing the i-th element leaves (vector::erase).
LEMMA RemoveAtElements ==
    ASSUME NEW S, NEW q \in Seq(S), NEW i \in 1..Len(q)
    PROVE  /\ RemoveAt(q, i) \in Seq(S)
           /\ Len(RemoveAt(q, i)) = Len(q) - 1
           /\ \A k \in 1..(Len(q) - 1) :
                 RemoveAt(q, i)[k] = IF k < i THEN q[k] ELSE q[k + 1]
<1> DEFINE a == SubSeq(q, 1, i - 1)
           b == SubSeq(q, i + 1, Len(q))
<1>1. /\ a \in Seq(S) /\ Len(a) = i - 1
      /\ \A k \in 1..(i - 1) : a[k] = q[k]
  BY SubSeqProperties
<1>2. /\ b \in Seq(S) /\ Len(b) = Len(q) - i
      /\ \A k \in 1..(Len(q) - i) : b[k] = q[i + k]
  BY SubSeqProperties
<1> HIDE DEF a, b
<1>a. /\ a \o b \in Seq(S)
      /\ Len(a \o b) = Len(a) + Len(b)
      /\ \A k \in 1..(Len(a) + Len(b)) :
            (a \o b)[k] = IF k <= Len(a) THEN a[k] ELSE b[k - Len(a)]
  BY <1>1, <1>2, ConcatProperties
<1>b. Len(a) + Len(b) = Len(q) - 1 /\ Len(a) = i - 1
  BY <1>1, <1>2
<1>3. /\ a \o b \in Seq(S)
      /\ Len(a \o b) = Len(q) - 1
      /\ \A k \in 1..(Len(q) - 1) : (a \o b)[k] = IF k <= i - 1 THEN a[k] ELSE b[k - (i - 1)]
  BY <1>a, <1>b
<1>4. ASSUME NEW k \in 1..(Len(q) - 1)
      PROVE  (a \o b)[k] = IF k < i THEN q[k] ELSE q[k + 1]
  <2>1. CASE k < i
    BY <1>1, <1>3, <2>1
  <2>2. CASE ~(k < i)
    <3>1. k - (i - 1) \in 1..(Len(q) - i)
      BY <2>2
    <3>2. (a \o b)[k] = b[k - (i - 1)]
      BY <1>3, <2>2
    <3>3. b[k - (i - 1)] = q[i + (k - (i - 1))] /\ i + (k - (i - 1)) = k + 1
      BY <1>2, <3>1
    <3> QED BY <2>2, <3>2, <3>3
  <2> QED BY <2>1, <2>2
<1> QED BY <1>3, <1>4 DEF RemoveAt, a, b

\* A queue r whose elements are those of q in the same order, some left out:
\* f says where each of them was.
LEMMA Subqueue ==
    ASSUME NEW S, NEW q \in Seq(S), NEW r \in Seq(S),
           NEW f \in [DOMAIN r -> DOMAIN q],
           \A k \in DOMAIN r : r[k] = q[f[k]],
           \A k, l \in DOMAIN r : k < l => f[k] < f[l]
    PROVE  /\ UniqueIds(q) => UniqueIds(r)
           /\ \A n : InsertedBy(q, n) => InsertedBy(r, n)
           /\ Uncounted(q) => Uncounted(r)
           /\ Settled(q) => Settled(r)
           /\ IdsOf(r) \subseteq IdsOf(q)
<1>1. DOMAIN r = 1..Len(r) /\ Len(r) \in Nat /\ DOMAIN q = 1..Len(q) /\ Len(q) \in Nat
  BY LenProperties
<1>2. \A k, l \in DOMAIN r : f[k] = f[l] => k = l
  BY <1>1
<1>3. UniqueIds(q) => UniqueIds(r)
  BY <1>2 DEF UniqueIds
<1>4. \A n : InsertedBy(q, n) => InsertedBy(r, n)
  BY DEF InsertedBy
<1>5. Uncounted(q) => Uncounted(r)
  BY DEF Uncounted
<1>6. Settled(q) => Settled(r)
  BY DEF Settled
<1>7. IdsOf(r) \subseteq IdsOf(q)
  BY DEF IdsOf
<1> QED BY <1>3, <1>4, <1>5, <1>6, <1>7

\* A pop from the front of a queue.
LEMMA PopProperties ==
    ASSUME NEW S, NEW q \in Seq(S), q # <<>>
    PROVE  /\ Head(q) \in S
           /\ Tail(q) \in Seq(S)
           /\ Head(q).trackId \in IdsOf(q)
           /\ UniqueIds(q) => /\ UniqueIds(Tail(q))
                              /\ IdsOf(Tail(q)) = IdsOf(q) \ {Head(q).trackId}
           /\ \A n : InsertedBy(q, n) => InsertedBy(Tail(q), n)
           /\ Uncounted(q) => Uncounted(Tail(q))
           /\ Settled(q) => Settled(Tail(q))
<1> DEFINE f == [k \in DOMAIN Tail(q) |-> k + 1]
<1>1. /\ Head(q) \in S /\ Head(q) = q[1]
      /\ Tail(q) \in Seq(S)
      /\ DOMAIN q = 1..Len(q) /\ Len(q) \in Nat /\ Len(q) > 0
      /\ DOMAIN Tail(q) = 1..(Len(q) - 1)
      /\ \A k \in 1..(Len(q) - 1) : Tail(q)[k] = q[k + 1]
  BY HeadTailProperties, LenProperties
<1>2. /\ f \in [DOMAIN Tail(q) -> DOMAIN q]
      /\ \A k \in DOMAIN Tail(q) : Tail(q)[k] = q[f[k]]
      /\ \A k, l \in DOMAIN Tail(q) : k < l => f[k] < f[l]
  BY <1>1
<1> HIDE DEF f
<1>3. /\ UniqueIds(q) => UniqueIds(Tail(q))
      /\ \A n : InsertedBy(q, n) => InsertedBy(Tail(q), n)
      /\ Uncounted(q) => Uncounted(Tail(q))
      /\ Settled(q) => Settled(Tail(q))
  BY <1>1, <1>2, Subqueue
<1>4. Head(q).trackId \in IdsOf(q)
  BY <1>1 DEF IdsOf
<1>5. ASSUME UniqueIds(q)
      PROVE  IdsOf(Tail(q)) = IdsOf(q) \ {Head(q).trackId}
  <2>1. ASSUME NEW k \in DOMAIN Tail(q)
        PROVE  Tail(q)[k].trackId \in IdsOf(q) /\ Tail(q)[k].trackId # Head(q).trackId
    BY <1>1, <1>5 DEF IdsOf, UniqueIds
  <2>2. ASSUME NEW k \in DOMAIN q, q[k].trackId # Head(q).trackId
        PROVE  q[k].trackId \in IdsOf(Tail(q))
    <3>1. k # 1
      BY <1>1, <2>2
    <3>2. k - 1 \in 1..(Len(q) - 1) /\ (k - 1) + 1 = k
      BY <1>1, <3>1
    <3>3. k - 1 \in DOMAIN Tail(q) /\ Tail(q)[k - 1] = q[k]
      BY <1>1, <3>2
    <3> QED BY <3>3 DEF IdsOf
  <2> QED BY <2>1, <2>2 DEF IdsOf
<1> QED BY <1>1, <1>3, <1>4, <1>5

\* std::find finds the only track with the ID.
LEMMA FindUnique ==
    ASSUME NEW S, NEW q \in Seq(S), UniqueIds(q), NEW t \in IdsOf(q)
    PROVE  Find(q, t) \in DOMAIN q /\ q[Find(q, t)].trackId = t
<1>1. PICK i \in DOMAIN q : q[i].trackId = t
  BY DEF IdsOf
<1>2. \A j \in DOMAIN q : q[j].trackId = t => i <= j
  <2> SUFFICES ASSUME NEW j \in DOMAIN q, q[j].trackId = t
               PROVE  i <= j
    OBVIOUS
  <2>1. i = j
    BY <1>1 DEF UniqueIds
  <2>2. i \in Int
    BY LenProperties
  <2> QED BY <2>1, <2>2
<1> QED BY <1>1, <1>2 DEF Find

\* Removing a track by its ID.
LEMMA EraseProperties ==
    ASSUME NEW S, NEW q \in Seq(S), UniqueIds(q), NEW t \in IdsOf(q)
    PROVE  /\ Erase(q, t) \in Seq(S)
           /\ UniqueIds(Erase(q, t))
           /\ IdsOf(Erase(q, t)) = IdsOf(q) \ {t}
           /\ \A n : InsertedBy(q, n) => InsertedBy(Erase(q, t), n)
           /\ Uncounted(q) => Uncounted(Erase(q, t))
           /\ Settled(q) => Settled(Erase(q, t))
<1> DEFINE i == Find(q, t)
           r == Erase(q, t)
           f == [k \in DOMAIN r |-> IF k < i THEN k ELSE k + 1]
<1>1. i \in 1..Len(q) /\ q[i].trackId = t /\ Len(q) \in Nat /\ DOMAIN q = 1..Len(q)
  BY FindUnique, LenProperties
<1>2. /\ r \in Seq(S)
      /\ Len(r) = Len(q) - 1
      /\ \A k \in 1..(Len(q) - 1) : r[k] = IF k < i THEN q[k] ELSE q[k + 1]
  BY <1>1, RemoveAtElements DEF Erase
<1> HIDE DEF i, r
<1>3. DOMAIN r = 1..(Len(q) - 1)
  BY <1>2, LenProperties
<1>4. /\ f \in [DOMAIN r -> DOMAIN q]
      /\ \A k \in DOMAIN r : r[k] = q[f[k]]
      /\ \A k, l \in DOMAIN r : k < l => f[k] < f[l]
  BY <1>1, <1>2, <1>3
<1>5. \A k \in DOMAIN r : f[k] # i
  BY <1>1, <1>3
<1>6. \A j \in DOMAIN q : j # i => \E k \in DOMAIN r : f[k] = j
  <2> SUFFICES ASSUME NEW j \in DOMAIN q, j # i
               PROVE  \E k \in DOMAIN r : f[k] = j
    OBVIOUS
  <2>1. CASE j < i
    <3>1. j \in DOMAIN r /\ f[j] = j
      BY <1>1, <1>3, <2>1
    <3> QED BY <3>1
  <2>2. CASE ~(j < i)
    <3>1. j - 1 \in DOMAIN r /\ f[j - 1] = j
      BY <1>1, <1>3, <2>2
    <3> QED BY <3>1
  <2> QED BY <2>1, <2>2
<1> HIDE DEF f
<1>7. /\ UniqueIds(r)
      /\ \A n : InsertedBy(q, n) => InsertedBy(r, n)
      /\ Uncounted(q) => Uncounted(r)
      /\ Settled(q) => Settled(r)
  BY <1>2, <1>4, Subqueue
<1>8. IdsOf(r) = IdsOf(q) \ {t}
  <2>1. ASSUME NEW k \in DOMAIN r
        PROVE  r[k].trackId \in IdsOf(q) /\ r[k].trackId # t
    BY <1>1, <1>4, <1>5 DEF IdsOf, UniqueIds
  <2>2. ASSUME NEW j \in DOMAIN q, q[j].trackId # t
        PROVE  q[j].trackId \in IdsOf(r)
    BY <1>1, <1>4, <1>6, <2>2 DEF IdsOf
  <2> QED BY <2>1, <2>2 DEF IdsOf
<1> QED BY <1>2, <1>7, <1>8 DEF r

\* The IDs after a push, of any queue.
LEMMA IdsAfterPush ==
    ASSUME NEW S, NEW q \in Seq(S), NEW e \in S
    PROVE  IdsOf(Append(q, e)) = IdsOf(q) \cup {e.trackId}
<1> DEFINE r == Append(q, e)
           m == Len(q)
<1>1. /\ m \in Nat /\ DOMAIN q = 1..m /\ DOMAIN r = 1..(m + 1)
      /\ \A i \in 1..m : r[i] = q[i]
      /\ r[m + 1] = e
  BY AppendProperties, LenProperties
<1> HIDE DEF r, m
<1>2. \A i \in DOMAIN r : r[i].trackId \in IdsOf(q) \cup {e.trackId}
  BY <1>1 DEF IdsOf
<1>3. \A i \in DOMAIN q : i \in DOMAIN r /\ r[i] = q[i]
  BY <1>1
<1>4. m + 1 \in DOMAIN r /\ r[m + 1].trackId = e.trackId
  BY <1>1
<1>5. IdsOf(r) = IdsOf(q) \cup {e.trackId}
  BY <1>2, <1>3, <1>4 DEF IdsOf
<1> QED BY <1>5 DEF r

\* The queued tracks with an ID of Ids, added by somebody of By.
Tracks(Ids, By) == [trackId : Ids, addedBy : By, votes : Int, insertedAt : Nat]

\* A push at the back at time n, with no vote yet, as addTrack does it: the
\* queue stays settled although nothing is sorted.
LEMMA PushProperties ==
    ASSUME NEW Ids, NEW By, NEW q \in Seq(Tracks(Ids, By)), NEW n \in Nat,
           NEW e \in Tracks(Ids, By), e.votes = 0, e.insertedAt = n,
           InsertedBy(q, n), e.trackId \notin IdsOf(q), UniqueIds(q)
    PROVE  /\ Append(q, e) \in Seq(Tracks(Ids, By))
           /\ UniqueIds(Append(q, e))
           /\ IdsOf(Append(q, e)) = IdsOf(q) \cup {e.trackId}
           /\ InsertedBy(Append(q, e), n)
           /\ Uncounted(q) => Uncounted(Append(q, e))
           /\ Settled(q) => Settled(Append(q, e))
<1> DEFINE r == Append(q, e)
           m == Len(q)
<1>1. /\ m \in Nat /\ DOMAIN q = 1..m
      /\ r \in Seq(Tracks(Ids, By)) /\ DOMAIN r = 1..(m + 1)
      /\ \A i \in 1..m : r[i] = q[i]
      /\ r[m + 1] = e
  BY AppendProperties, LenProperties
<1> HIDE DEF r, m
<1>2. \A i \in 1..m : q[i].trackId # e.trackId
  BY <1>1 DEF IdsOf
<1>3. UniqueIds(r)
  <2> SUFFICES ASSUME NEW i \in 1..(m + 1), NEW j \in 1..(m + 1), r[i].trackId = r[j].trackId
               PROVE  i = j
    BY <1>1 DEF UniqueIds
  <2>1. CASE i \in 1..m /\ j \in 1..m
    BY <1>1, <2>1 DEF UniqueIds
  <2>2. CASE i = m + 1 /\ j \in 1..m
    BY <1>1, <1>2, <2>2
  <2>3. CASE i \in 1..m /\ j = m + 1
    BY <1>1, <1>2, <2>3
  <2>4. CASE i = m + 1 /\ j = m + 1
    BY <2>4
  <2> QED BY <1>1, <2>1, <2>2, <2>3, <2>4
<1>4. IdsOf(r) = IdsOf(q) \cup {e.trackId}
  BY IdsAfterPush DEF r
<1>5. InsertedBy(r, n)
  BY <1>1 DEF InsertedBy
<1>6. Uncounted(q) => Uncounted(r)
  BY <1>1 DEF Uncounted
<1>7. ASSUME Settled(q)
      PROVE  Settled(r)
  <2> SUFFICES ASSUME NEW i \in 1..(m + 1), NEW j \in 1..(m + 1), i < j, r[i].votes >= 0
               PROVE  ~Before(r[j], r[i])
    BY <1>1 DEF Settled
  <2>1. CASE j \in 1..m
    BY <1>1, <1>7, <2>1 DEF Settled
  <2>2. CASE j = m + 1
    <3>1. r[j] = e /\ r[i] = q[i] /\ i \in DOMAIN q
      BY <1>1, <2>2
    <3>2. q[i] \in Tracks(Ids, By) /\ q[i].insertedAt <= n
      BY <1>1, <3>1, ElementOfSeq DEF InsertedBy
    <3> QED BY <3>1, <3>2 DEF Before, Tracks
  <2> QED BY <1>1, <2>1, <2>2
<1> QED BY <1>1, <1>3, <1>4, <1>5, <1>6, <1>7 DEF r

\* A vote changes counters only.
LEMMA AddVotesProperties ==
    ASSUME NEW Ids, NEW By, NEW q \in Seq(Tracks(Ids, By)), NEW t, NEW d \in Int,
           UniqueIds(q)
    PROVE  /\ AddVotes(q, t, d) \in Seq(Tracks(Ids, By))
           /\ UniqueIds(AddVotes(q, t, d))
           /\ IdsOf(AddVotes(q, t, d)) = IdsOf(q)
           /\ \A n : InsertedBy(q, n) => InsertedBy(AddVotes(q, t, d), n)
           /\ DOMAIN AddVotes(q, t, d) = DOMAIN q
           /\ \A i \in DOMAIN q :
                 /\ AddVotes(q, t, d)[i].trackId = q[i].trackId
                 /\ AddVotes(q, t, d)[i].votes =
                       IF q[i].trackId = t THEN q[i].votes + d ELSE q[i].votes
<1> DEFINE r == AddVotes(q, t, d)
<1>1. DOMAIN q = 1..Len(q) /\ Len(q) \in Nat /\ \A i \in DOMAIN q : q[i] \in Tracks(Ids, By)
  BY LenProperties, ElementOfSeq
<1>2. DOMAIN r = DOMAIN q
  BY DEF AddVotes
<1>3. ASSUME NEW i \in DOMAIN q
      PROVE  /\ r[i] \in Tracks(Ids, By)
             /\ r[i].trackId = q[i].trackId
             /\ r[i].insertedAt = q[i].insertedAt
             /\ r[i].votes = IF q[i].trackId = t THEN q[i].votes + d ELSE q[i].votes
  <2>1. CASE q[i].trackId = t
    <3>1. t \in IdsOf(q)
      BY <2>1 DEF IdsOf
    <3>2. Find(q, t) \in DOMAIN q /\ q[Find(q, t)].trackId = t
      BY <3>1, FindUnique
    <3>3. i = Find(q, t)
      BY <2>1, <3>2 DEF UniqueIds
    <3>4. r[i] = [q[i] EXCEPT !.votes = @ + d]
      BY <3>1, <3>3 DEF AddVotes
    <3>5. PICK id \in Ids, by \in By, v \in Int, at \in Nat :
             q[i] = [trackId |-> id, addedBy |-> by, votes |-> v, insertedAt |-> at]
      BY <1>1 DEF Tracks
    <3> HIDE DEF r
    <3>6. r[i] = [trackId |-> id, addedBy |-> by, votes |-> v + d, insertedAt |-> at]
      BY <3>4, <3>5
    <3> QED BY <2>1, <3>5, <3>6 DEF Tracks
  <2>2. CASE q[i].trackId # t
    <3>1. r[i] = q[i]
      <4>1. CASE t \in IdsOf(q)
        <5>1. i # Find(q, t)
          BY <2>2, <4>1, FindUnique
        <5> QED BY <5>1 DEF AddVotes
      <4>2. CASE t \notin IdsOf(q)
        BY <4>2 DEF AddVotes
      <4> QED BY <4>1, <4>2
    <3> QED BY <1>1, <2>2, <3>1 DEF Tracks
  <2> QED BY <2>1, <2>2
<1>4. r \in Seq(Tracks(Ids, By))
  <2>1. r \in [1..Len(q) -> Tracks(Ids, By)]
    BY <1>1, <1>2, <1>3 DEF AddVotes
  <2> QED BY <1>1, <2>1
<1> HIDE DEF r
<1>5. UniqueIds(r)
  BY <1>2, <1>3 DEF UniqueIds
<1>6. IdsOf(r) = IdsOf(q)
  BY <1>2, <1>3 DEF IdsOf
<1>7. \A n : InsertedBy(q, n) => InsertedBy(r, n)
  BY <1>2, <1>3 DEF InsertedBy
<1> QED BY <1>2, <1>3, <1>4, <1>5, <1>6, <1>7 DEF r

\* Whatever order std::sort leaves, it is a sorted arrangement of the same tracks.
LEMMA SortProperties ==
    ASSUME NEW S, NEW q \in Seq(S), NEW s \in SortsOf(q)
    PROVE  /\ s \in Seq(S)
           /\ Sorted(s)
           /\ Settled(s)
           /\ UniqueIds(q) => UniqueIds(s)
           /\ IdsOf(s) = IdsOf(q)
           /\ \A n : InsertedBy(q, n) => InsertedBy(s, n)
           /\ \A i \in DOMAIN s : \E j \in DOMAIN q : s[i] = q[j]
           /\ \A j \in DOMAIN q : \E i \in DOMAIN s : s[i] = q[j]
<1>1. PICK p \in Bijection(DOMAIN q, DOMAIN q) : s = [i \in DOMAIN q |-> q[p[i]]]
  BY DEF SortsOf
<1>2. /\ p \in [DOMAIN q -> DOMAIN q]
      /\ \A a, b \in DOMAIN q : p[a] = p[b] => a = b
      /\ \A j \in DOMAIN q : \E i \in DOMAIN q : p[i] = j
  BY DEF Bijection, Injection, Surjection, IsInjective
<1>3. DOMAIN q = 1..Len(q) /\ Len(q) \in Nat /\ \A i \in DOMAIN q : q[i] \in S
  BY LenProperties, ElementOfSeq
<1>4. DOMAIN s = DOMAIN q /\ \A i \in DOMAIN q : s[i] = q[p[i]] /\ p[i] \in DOMAIN q
  BY <1>1, <1>2
<1>5. s \in Seq(S)
  <2>1. s \in [1..Len(q) -> S]
    BY <1>1, <1>2, <1>3
  <2> QED BY <1>3, <2>1
<1>6. Sorted(s)
  BY DEF SortsOf
<1>7. Settled(s)
  BY <1>6 DEF Sorted, Settled
<1>8. ASSUME UniqueIds(q)
      PROVE  UniqueIds(s)
  <2> SUFFICES ASSUME NEW i \in DOMAIN q, NEW j \in DOMAIN q, s[i].trackId = s[j].trackId
               PROVE  i = j
    BY <1>4 DEF UniqueIds
  <2>1. p[i] = p[j]
    BY <1>4, <1>8 DEF UniqueIds
  <2> QED BY <1>2, <2>1
<1>9. IdsOf(s) = IdsOf(q)
  BY <1>2, <1>4 DEF IdsOf
<1>10. \A n : InsertedBy(q, n) => InsertedBy(s, n)
  BY <1>4 DEF InsertedBy
<1>11. \A i \in DOMAIN s : \E j \in DOMAIN q : s[i] = q[j]
  BY <1>4
<1>12. \A j \in DOMAIN q : \E i \in DOMAIN s : s[i] = q[j]
  BY <1>2, <1>4
<1> QED BY <1>5, <1>6, <1>7, <1>8, <1>9, <1>10, <1>11, <1>12

-----------------------------------------------------------------------------
(* The data store.                                                         *)

\* A queue as every operation leaves it at time n.
Good(q, n) == q \in Seq(QueuedTrack) /\ UniqueIds(q) /\ InsertedBy(q, n) /\ Settled(q)

\* The inductive invariant.  addTrack may push at the back without a sort only
\* because nothing in a queue is younger than now, and the admin queue stays in
\* order under erase and pop only because its counters are all zero.
IInv ==
    /\ DSTypeOK
    /\ \A q \in QueueType : Good(queue[q], now)
    /\ Uncounted(queue["Admin"])
    /\ IdsOf(queue["Admin"]) \cap IdsOf(queue["Normal"]) = {}

-----------------------------------------------------------------------------
(* The operations on one queue.                                            *)

LEMMA QueuedTrackIsTracks == QueuedTrack = Tracks(TrackIds, Names)
BY DEF QueuedTrack, Tracks

\* An empty queue is good.
LEMMA GoodEmpty ==
    ASSUME NEW n \in Nat
    PROVE  Good(<<>>, n) /\ Uncounted(<<>>) /\ IdsOf(<<>>) = {}
BY DEF Good, UniqueIds, InsertedBy, Settled, Uncounted, IdsOf

\* Time passes.
LEMMA GoodLater ==
    ASSUME NEW q, NEW n \in Nat, Good(q, n)
    PROVE  Good(q, n + 1)
<1>1. \A i \in DOMAIN q : q[i] \in QueuedTrack
  BY ElementOfSeq, LenProperties DEF Good
<1>2. \A i \in DOMAIN q : q[i].insertedAt \in Nat
  BY <1>1 DEF QueuedTrack
<1>3. InsertedBy(q, n + 1)
  BY <1>2 DEF Good, InsertedBy
<1> QED BY <1>3 DEF Good

\* push_back in addTrack.
LEMMA GoodPush ==
    ASSUME NEW q, NEW n \in Nat, Good(q, n),
           NEW t \in TrackIds, t \notin IdsOf(q), NEW by \in Names
    PROVE  LET r == Append(q, [trackId |-> t, addedBy |-> by, votes |-> 0, insertedAt |-> n])
           IN /\ Good(r, n)
              /\ IdsOf(r) = IdsOf(q) \cup {t}
              /\ Uncounted(q) => Uncounted(r)
<1> DEFINE e == [trackId |-> t, addedBy |-> by, votes |-> 0, insertedAt |-> n]
<1>1. /\ e \in Tracks(TrackIds, Names)
      /\ e.votes = 0 /\ e.insertedAt = n /\ e.trackId = t
  BY DEF Tracks
<1> HIDE DEF e
<1>2. q \in Seq(Tracks(TrackIds, Names)) /\ UniqueIds(q) /\ InsertedBy(q, n) /\ Settled(q)
  BY QueuedTrackIsTracks DEF Good
<1>3. /\ Append(q, e) \in Seq(Tracks(TrackIds, Names))
      /\ UniqueIds(Append(q, e))
      /\ IdsOf(Append(q, e)) = IdsOf(q) \cup {e.trackId}
      /\ InsertedBy(Append(q, e), n)
      /\ Uncounted(q) => Uncounted(Append(q, e))
      /\ Settled(q) => Settled(Append(q, e))
  BY <1>1, <1>2, PushProperties
<1>4. Good(Append(q, e), n) /\ IdsOf(Append(q, e)) = IdsOf(q) \cup {t}
  BY <1>1, <1>2, <1>3, QueuedTrackIsTracks DEF Good
<1> QED BY <1>3, <1>4 DEF e

\* erase in removeTrack.
LEMMA GoodErase ==
    ASSUME NEW q, NEW n, Good(q, n), NEW t \in IdsOf(q)
    PROVE  /\ Good(Erase(q, t), n)
           /\ IdsOf(Erase(q, t)) = IdsOf(q) \ {t}
           /\ Uncounted(q) => Uncounted(Erase(q, t))
BY EraseProperties DEF Good

\* The front and erase(begin) in nextTrack.
LEMMA GoodPop ==
    ASSUME NEW q, NEW n, Good(q, n), q # <<>>
    PROVE  /\ Head(q) \in QueuedTrack
           /\ Head(q).trackId \in IdsOf(q)
           /\ Good(Tail(q), n)
           /\ IdsOf(Tail(q)) = IdsOf(q) \ {Head(q).trackId}
           /\ Uncounted(q) => Uncounted(Tail(q))
BY PopProperties DEF Good

\* std::sort, of a queue that need not be settled.
LEMMA GoodSort ==
    ASSUME NEW q \in Seq(QueuedTrack), NEW n, UniqueIds(q), InsertedBy(q, n),
           NEW s \in SortsOf(q)
    PROVE  Good(s, n) /\ IdsOf(s) = IdsOf(q)
BY SortProperties DEF Good

\* The count and the sort in voteTrack.
LEMMA GoodVote ==
    ASSUME NEW q, NEW n, Good(q, n), NEW t, NEW d \in Int,
           NEW s \in SortsOf(AddVotes(q, t, d))
    PROVE  Good(s, n) /\ IdsOf(s) = IdsOf(q)
<1>1. /\ AddVotes(q, t, d) \in Seq(QueuedTrack)
      /\ UniqueIds(AddVotes(q, t, d))
      /\ InsertedBy(AddVotes(q, t, d), n)
      /\ IdsOf(AddVotes(q, t, d)) = IdsOf(q)
  BY AddVotesProperties, QueuedTrackIsTracks DEF Good
<1> QED BY <1>1, GoodSort


-----------------------------------------------------------------------------
(* The invariant is inductive: one lemma per operation.                    *)

\* What the queues contribute to the invariant, for any value of the variable.
QueuesOK(qs, n) ==
    /\ qs \in [QueueType -> Seq(QueuedTrack)]
    /\ \A q \in QueueType : Good(qs[q], n)
    /\ Uncounted(qs["Admin"])
    /\ IdsOf(qs["Admin"]) \cap IdsOf(qs["Normal"]) = {}

\* What the other variables contribute.
OthersOK ==
    /\ mCurrentTrack \in BaseTrack \cup {NoTrack}
    /\ issued \subseteq SessionIds
    /\ DOMAIN mUsers \subseteq issued
    /\ mUsers \in [DOMAIN mUsers -> User]
    /\ clearing \in [Threads -> TrackIds \cup {NoTrack}]
    /\ now \in Nat

LEMMA IInvParts == IInv <=> QueuesOK(queue, now) /\ OthersOK
BY DEF IInv, DSTypeOK, QueuesOK, OthersOK

\* The same, of the next state.
LEMMA IInvPartsPrime == QueuesOK(queue', now') /\ OthersOK' => IInv'
BY DEF IInv, DSTypeOK, QueuesOK, OthersOK

LEMMA InitIInv == DSInit => IInv
<1> SUFFICES ASSUME DSInit PROVE IInv
  OBVIOUS
<1>1. now \in Nat /\ \A q \in QueueType : queue[q] = <<>>
  BY DEF DSInit
<1>2. \A q \in QueueType : Good(queue[q], now)
  BY <1>1, GoodEmpty
<1>3. Uncounted(queue["Admin"]) /\ IdsOf(queue["Admin"]) \cap IdsOf(queue["Normal"]) = {}
  BY <1>1, GoodEmpty DEF QueueType
<1>4. DSTypeOK
  BY DEF DSInit, DSTypeOK
<1> QED BY <1>2, <1>3, <1>4 DEF IInv

\* Another vote in a user's record leaves a user's record.
LEMMA UserVotes ==
    ASSUME NEW u \in User, NEW v \in SUBSET TrackIds
    PROVE  [u EXCEPT !.votes = v] \in User /\ u.votes \in SUBSET TrackIds
<1>1. PICK a \in Names, b \in BOOLEAN, e \in Nat, w \in SUBSET TrackIds :
         u = [Name |-> a, isAdmin |-> b, ExpirationDate |-> e, votes |-> w]
  BY DEF User
<1>2. [u EXCEPT !.votes = v] = [Name |-> a, isAdmin |-> b, ExpirationDate |-> e, votes |-> v]
  BY <1>1
<1> QED BY <1>1, <1>2 DEF User

LEMMA AddUserIInv ==
    ASSUME IInv, NEW th \in Threads, NEW s \in SessionIds, NEW p \in Profiles, NEW time \in Nat,
           AddUser(th, s, p, time)
    PROVE  IInv'
<1>1. QueuesOK(queue, now) /\ OthersOK
  BY IInvParts
<1>2. [Name |-> p.Name, isAdmin |-> p.isAdmin, ExpirationDate |-> NewExpiration(time), votes |-> {}]
         \in User
  BY <1>1, ProfilesAssumption, TimeAssumption DEF OthersOK, User, Names, NewExpiration
<1>3. mUsers' \in [DOMAIN mUsers \cup {s} -> User] /\ issued' = issued \cup {s}
  BY <1>1, <1>2 DEF AddUser, OthersOK
<1>4. OthersOK'
  BY <1>1, <1>3 DEF AddUser, OthersOK
<1> QED BY <1>1, <1>4, IInvPartsPrime DEF AddUser

LEMMA RemoveUserIInv ==
    ASSUME IInv, NEW th \in Threads, NEW s \in SessionIds, RemoveUser(th, s)
    PROVE  IInv'
<1>1. QueuesOK(queue, now) /\ OthersOK
  BY IInvParts
<1>2. mUsers' \in [DOMAIN mUsers \ {s} -> User]
  BY <1>1 DEF RemoveUser, OthersOK, Restrict
<1>3. OthersOK'
  BY <1>1, <1>2 DEF RemoveUser, OthersOK
<1> QED BY <1>1, <1>3, IInvPartsPrime DEF RemoveUser

LEMMA AddTrackIInv ==
    ASSUME IInv, NEW th \in Threads, NEW t \in TrackIds, NEW by \in Names, NEW q \in QueueType,
           AddTrack(th, t, by, q)
    PROVE  IInv'
<1>1. QueuesOK(queue, now) /\ OthersOK
  BY IInvParts
<1> DEFINE r == Append(queue[q],
                  [trackId |-> t, addedBy |-> by, votes |-> 0, insertedAt |-> now])
<1>2. t \notin IdsOf(queue["Admin"]) /\ t \notin IdsOf(queue["Normal"])
  BY DEF AddTrack, Addable, HasTrack, OtherQueue, QueueType
<1>3. Good(queue[q], now) /\ now \in Nat /\ t \notin IdsOf(queue[q])
  BY <1>1, <1>2 DEF QueuesOK, OthersOK, QueueType
<1>4. Good(r, now) /\ IdsOf(r) = IdsOf(queue[q]) \cup {t} /\ (Uncounted(queue[q]) => Uncounted(r))
  BY <1>3, GoodPush
<1>5. queue' = [queue EXCEPT ![q] = r]
  BY DEF AddTrack
<1> HIDE DEF r
<1>6. QueuesOK(queue', now)
  BY <1>1, <1>2, <1>4, <1>5 DEF QueuesOK, QueueType, Good
<1>7. OthersOK' /\ now' = now
  BY <1>1 DEF AddTrack, OthersOK
<1> QED BY <1>6, <1>7, IInvPartsPrime

LEMMA RemoveTrackIInv ==
    ASSUME IInv, NEW th \in Threads, NEW t \in TrackIds, NEW q \in QueueType,
           RemoveTrack(th, t, q)
    PROVE  IInv'
<1>1. QueuesOK(queue, now) /\ OthersOK
  BY IInvParts
<1> DEFINE r == Erase(queue[q], t)
<1>2. Good(queue[q], now) /\ t \in IdsOf(queue[q])
  BY <1>1 DEF QueuesOK, RemoveTrack, HasTrack
<1>3. Good(r, now) /\ IdsOf(r) = IdsOf(queue[q]) \ {t} /\ (Uncounted(queue[q]) => Uncounted(r))
  BY <1>2, GoodErase
<1>4. queue' = [queue EXCEPT ![q] = r]
  BY DEF RemoveTrack
<1> HIDE DEF r
<1>5. QueuesOK(queue', now)
  BY <1>1, <1>3, <1>4 DEF QueuesOK, QueueType, Good
<1>6. OthersOK' /\ now' = now
  BY <1>1 DEF RemoveTrack, OthersOK
<1> QED BY <1>5, <1>6, IInvPartsPrime

LEMMA NextTrackIInv ==
    ASSUME IInv, NEW th \in Threads, NextTrack(th)
    PROVE  IInv'
<1>1. QueuesOK(queue, now) /\ OthersOK
  BY IInvParts
<1> DEFINE q     == NextQueue
           track == Head(queue[q])
           rest  == [queue EXCEPT ![q] = Tail(queue[q])]
<1>2. q \in QueueType /\ queue[q] # <<>>
  BY DEF NextTrack, NextQueue, QueueType
<1>3. Good(queue[q], now)
  BY <1>1, <1>2 DEF QueuesOK
<1>4. PICK sorted \in SortsOf(rest["Normal"]) : queue' = [rest EXCEPT !["Normal"] = sorted]
  BY DEF NextTrack
<1>5. mCurrentTrack' = Base(track) /\ clearing' = [clearing EXCEPT ![th] = track.trackId]
  BY DEF NextTrack
<1>6. now' = now /\ mUsers' = mUsers /\ issued' = issued
  BY DEF NextTrack
<1> HIDE DEF q
<1>7. /\ track \in QueuedTrack
      /\ Good(Tail(queue[q]), now)
      /\ IdsOf(Tail(queue[q])) \subseteq IdsOf(queue[q])
      /\ Uncounted(queue[q]) => Uncounted(Tail(queue[q]))
  BY <1>2, <1>3, GoodPop
<1> HIDE DEF track
<1>8. /\ QueuesOK(rest, now)
      /\ "Normal" \in QueueType
  BY <1>1, <1>2, <1>7 DEF QueuesOK, QueueType, Good
<1> HIDE DEF rest
<1>9. Good(sorted, now) /\ IdsOf(sorted) = IdsOf(rest["Normal"])
  BY <1>4, <1>8, GoodSort DEF QueuesOK, Good
<1>10. QueuesOK(queue', now)
  BY <1>4, <1>8, <1>9 DEF QueuesOK, QueueType, Good
<1>11. track.trackId \in TrackIds /\ Base(track) \in BaseTrack
  BY <1>7 DEF QueuedTrack, Base, BaseTrack
<1>12. OthersOK'
  BY <1>1, <1>5, <1>6, <1>11 DEF OthersOK
<1> QED BY <1>6, <1>10, <1>12, IInvPartsPrime

LEMMA RemoveVotesForTrackIInv ==
    ASSUME IInv, NEW th \in Threads, RemoveVotesForTrack(th)
    PROVE  IInv'
<1>1. QueuesOK(queue, now) /\ OthersOK
  BY IInvParts
<1>2. ASSUME NEW s \in DOMAIN mUsers
      PROVE  [mUsers[s] EXCEPT !.votes = @ \ {clearing[th]}] \in User
  <2>1. mUsers[s] \in User
    BY <1>1 DEF OthersOK
  <2>2. mUsers[s].votes \ {clearing[th]} \in SUBSET TrackIds
    BY <2>1, UserVotes
  <2> QED BY <2>1, <2>2, UserVotes
<1>3. mUsers' \in [DOMAIN mUsers -> User]
  BY <1>2 DEF RemoveVotesForTrack
<1>4. OthersOK'
  BY <1>1, <1>3 DEF RemoveVotesForTrack, OthersOK
<1> QED BY <1>1, <1>4, IInvPartsPrime DEF RemoveVotesForTrack

LEMMA VoteTrackIInv ==
    ASSUME IInv, NEW th \in Threads, NEW s \in SessionIds, NEW t \in TrackIds,
           NEW vote \in BOOLEAN, VoteTrack(th, s, t, vote)
    PROVE  IInv'
<1>1. QueuesOK(queue, now) /\ OthersOK
  BY IInvParts
<1>2. s \in DOMAIN mUsers /\ mUsers[s] \in User
  BY <1>1 DEF VoteTrack, HasUser, OthersOK
<1> DEFINE v == IF vote THEN mUsers[s].votes \cup {t} ELSE mUsers[s].votes \ {t}
<1>3. v \in SUBSET TrackIds
  BY <1>2, UserVotes
<1>4. mUsers' = [mUsers EXCEPT ![s] = [mUsers[s] EXCEPT !.votes = v]]
  BY <1>2 DEF VoteTrack
<1> HIDE DEF v
<1>5. mUsers' \in [DOMAIN mUsers -> User]
  BY <1>1, <1>2, <1>3, <1>4, UserVotes DEF OthersOK
<1>6. OthersOK' /\ now' = now
  BY <1>1, <1>5 DEF VoteTrack, OthersOK
<1>7. Good(queue["Normal"], now)
  BY <1>1 DEF QueuesOK, QueueType
<1>8. Delta(s, t, vote) \in Int
  BY DEF Delta
<1>9. PICK sorted \in SortsOf(AddVotes(queue["Normal"], t, Delta(s, t, vote))) :
         queue' = [queue EXCEPT !["Normal"] = sorted]
  BY DEF VoteTrack
<1>10. Good(sorted, now) /\ IdsOf(sorted) = IdsOf(queue["Normal"])
  BY <1>7, <1>8, GoodVote
<1>11. QueuesOK(queue', now)
  BY <1>1, <1>9, <1>10 DEF QueuesOK, QueueType, Good
<1> QED BY <1>6, <1>11, IInvPartsPrime

LEMMA TickIInv ==
    ASSUME IInv, Tick
    PROVE  IInv'
<1>1. QueuesOK(queue, now) /\ OthersOK
  BY IInvParts
<1>2. now \in Nat /\ now' = now + 1 /\ queue' = queue
  BY <1>1 DEF OthersOK, Tick
<1>3. QueuesOK(queue', now')
  BY <1>1, <1>2, GoodLater DEF QueuesOK
<1>4. OthersOK'
  BY <1>1, <1>2 DEF OthersOK, Tick
<1> QED BY <1>3, <1>4, IInvPartsPrime

LEMMA NextIInv == IInv /\ [DSNext]_dsVars => IInv'
<1> SUFFICES ASSUME IInv, [DSNext]_dsVars PROVE IInv'
  OBVIOUS
<1>1. CASE Tick
  BY <1>1, TickIInv
<1>2. ASSUME NEW th \in Threads, ThreadStep(th)
      PROVE  IInv'
  <2>1. ASSUME NEW s \in SessionIds, NEW p \in Profiles, NEW time \in 0..now,
               AddUser(th, s, p, time)
        PROVE  IInv'
    BY <2>1, AddUserIInv
  <2>2. ASSUME NEW s \in SessionIds, RemoveUser(th, s)
        PROVE  IInv'
    BY <2>2, RemoveUserIInv
  <2>3. ASSUME NEW t \in TrackIds, NEW by \in Names, NEW q \in QueueType, AddTrack(th, t, by, q)
        PROVE  IInv'
    BY <2>3, AddTrackIInv
  <2>4. ASSUME NEW t \in TrackIds, NEW q \in QueueType, RemoveTrack(th, t, q)
        PROVE  IInv'
    BY <2>4, RemoveTrackIInv
  <2>5. CASE NextTrack(th)
    BY <2>5, NextTrackIInv
  <2>6. CASE RemoveVotesForTrack(th)
    BY <2>6, RemoveVotesForTrackIInv
  <2>7. ASSUME NEW s \in SessionIds, NEW t \in TrackIds, NEW vote \in BOOLEAN,
               VoteTrack(th, s, t, vote)
        PROVE  IInv'
    BY <2>7, VoteTrackIInv
  <2> QED BY <1>2, <2>1, <2>2, <2>3, <2>4, <2>5, <2>6, <2>7 DEF ThreadStep
<1>3. CASE UNCHANGED dsVars
  BY <1>3, IInvParts, IInvPartsPrime DEF dsVars, OthersOK
<1> QED BY <1>1, <1>2, <1>3 DEF DSNext

-----------------------------------------------------------------------------
(* The theorems.                                                           *)

LEMMA Invariance == DSSpec => []IInv
BY InitIInv, NextIInv, PTL DEF DSSpec

\* The members of the data store keep their types.
THEOREM TypeCorrect == DSSpec => []DSTypeOK
<1>1. IInv => DSTypeOK
  BY DEF IInv
<1> QED BY Invariance, <1>1, PTL

\* addTrack's check of both queues is enough: whatever calls interleave, no
\* track is ever queued twice.
THEOREM QueuedOnce == DSSpec => []NoTrackQueuedTwice
<1>1. IInv => NoTrackQueuedTwice
  BY DEF IInv, Good, UniqueIds, NoTrackQueuedTwice
<1> QED BY Invariance, <1>1, PTL

\* addTrack may leave out the sort and nextTrack may sort after the pop: the
\* queues are in playing order anyway, but for tracks with a negative counter.
THEOREM PlayingOrder == DSSpec => []SortedUnlessDownvoted
<1>1. IInv => SortedUnlessDownvoted
  BY DEF IInv, Good, Settled, SortedUnlessDownvoted
<1> QED BY Invariance, <1>1, PTL

-----------------------------------------------------------------------------
(* The admin playlist as a sequence of IDs.                                *)

LEMMA IdSeqType ==
    ASSUME NEW q \in Seq(QueuedTrack)
    PROVE  /\ IdSeq(q) \in Seq(TrackIds)
           /\ Len(IdSeq(q)) = Len(q)
           /\ \A i \in 1..Len(q) : q[i] \in QueuedTrack /\ IdSeq(q)[i] = q[i].trackId
           /\ DOMAIN IdSeq(q) = 1..Len(q) /\ DOMAIN q = 1..Len(q) /\ Len(q) \in Nat
<1>1. DOMAIN q = 1..Len(q) /\ Len(q) \in Nat /\ \A i \in 1..Len(q) : q[i] \in QueuedTrack
  BY LenProperties, ElementOfSeq
<1>2. \A i \in 1..Len(q) : q[i].trackId \in TrackIds
  BY <1>1 DEF QueuedTrack
<1>3. IdSeq(q) \in [1..Len(q) -> TrackIds]
  BY <1>1, <1>2 DEF IdSeq
<1>4. IdSeq(q) \in Seq(TrackIds) /\ DOMAIN IdSeq(q) = 1..Len(q)
  BY <1>1, <1>3
<1>5. Len(IdSeq(q)) = Len(q)
  BY <1>1, <1>4, LenProperties
<1> QED BY <1>1, <1>4, <1>5 DEF IdSeq

LEMMA IdSeqKnown ==
    ASSUME NEW q \in Seq(QueuedTrack), NEW t
    PROVE  (\E i \in DOMAIN IdSeq(q) : IdSeq(q)[i] = t) <=> t \in IdsOf(q)
BY IdSeqType DEF IdsOf

LEMMA IdSeqPush ==
    ASSUME NEW q \in Seq(QueuedTrack), NEW e \in QueuedTrack
    PROVE  IdSeq(Append(q, e)) = Append(IdSeq(q), e.trackId)
<1> DEFINE r == Append(q, e)
           m == Len(q)
           a == IdSeq(q)
<1>1. e.trackId \in TrackIds
  BY DEF QueuedTrack
<1>2. /\ m \in Nat /\ r \in Seq(QueuedTrack) /\ Len(r) = m + 1
      /\ \A i \in 1..m : r[i] = q[i]
      /\ r[m + 1] = e
  BY AppendProperties, LenProperties
<1>3. /\ a \in Seq(TrackIds) /\ Len(a) = m
      /\ \A i \in 1..m : a[i] = q[i].trackId
  BY IdSeqType
<1>4. /\ IdSeq(r) \in Seq(TrackIds) /\ Len(IdSeq(r)) = m + 1
      /\ \A i \in 1..(m + 1) : IdSeq(r)[i] = r[i].trackId
  <2> HIDE DEF r
  <2> QED BY <1>2, IdSeqType
<1> HIDE DEF r, m, a
<1>5. /\ Append(a, e.trackId) \in Seq(TrackIds) /\ Len(Append(a, e.trackId)) = m + 1
      /\ \A i \in 1..m : Append(a, e.trackId)[i] = a[i]
      /\ Append(a, e.trackId)[m + 1] = e.trackId
  BY <1>1, <1>3, AppendProperties
<1>6. \A i \in 1..(m + 1) : IdSeq(r)[i] = Append(a, e.trackId)[i]
  BY <1>2, <1>3, <1>4, <1>5
<1>7. IdSeq(r) = Append(a, e.trackId)
  BY <1>4, <1>5, <1>6, SeqEqual
<1> QED BY <1>7 DEF r, a

LEMMA IdSeqPop ==
    ASSUME NEW q \in Seq(QueuedTrack), q # <<>>
    PROVE  /\ IdSeq(q) # <<>>
           /\ IdSeq(Tail(q)) = Tail(IdSeq(q))
           /\ Head(q).trackId = Head(IdSeq(q))
<1> DEFINE m == Len(q)
           a == IdSeq(q)
           r == Tail(q)
<1>1. /\ m \in Nat /\ m > 0 /\ Head(q) = q[1]
      /\ r \in Seq(QueuedTrack) /\ Len(r) = m - 1
      /\ \A i \in 1..(m - 1) : r[i] = q[i + 1]
  BY HeadTailProperties, LenProperties
<1>2. /\ a \in Seq(TrackIds) /\ Len(a) = m
      /\ \A i \in 1..m : a[i] = q[i].trackId
  BY IdSeqType
<1>3. /\ IdSeq(r) \in Seq(TrackIds) /\ Len(IdSeq(r)) = m - 1
      /\ \A i \in 1..(m - 1) : IdSeq(r)[i] = r[i].trackId
  <2> HIDE DEF r
  <2> QED BY <1>1, IdSeqType
<1> HIDE DEF r, m, a
<1>4. a # <<>>
  BY <1>1, <1>2
<1>5. /\ Head(a) = a[1] /\ Tail(a) \in Seq(TrackIds) /\ Len(Tail(a)) = m - 1
      /\ \A i \in 1..(m - 1) : Tail(a)[i] = a[i + 1]
  BY <1>2, <1>4, HeadTailProperties
<1>6. \A i \in 1..(m - 1) : IdSeq(r)[i] = Tail(a)[i]
  BY <1>1, <1>2, <1>3, <1>5
<1>7. IdSeq(r) = Tail(a)
  BY <1>3, <1>5, <1>6, SeqEqual
<1>8. Head(q).trackId = Head(a)
  BY <1>1, <1>2, <1>5
<1> QED BY <1>4, <1>7, <1>8 DEF r, a

LEMMA IdSeqErase ==
    ASSUME NEW q \in Seq(QueuedTrack), UniqueIds(q), NEW t \in IdsOf(q)
    PROVE  /\ Find(q, t) \in DOMAIN IdSeq(q)
           /\ IdSeq(q)[Find(q, t)] = t
           /\ IdSeq(Erase(q, t)) = RemoveAt(IdSeq(q), Find(q, t))
<1> DEFINE m == Len(q)
           a == IdSeq(q)
           i == Find(q, t)
           r == RemoveAt(q, i)
<1>1. /\ a \in Seq(TrackIds) /\ Len(a) = m /\ m \in Nat /\ DOMAIN q = 1..m /\ DOMAIN a = 1..m
      /\ \A k \in 1..m : a[k] = q[k].trackId
  BY IdSeqType
<1>2. i \in 1..m /\ q[i].trackId = t
  BY <1>1, FindUnique
<1> HIDE DEF i, a
<1>3. /\ r \in Seq(QueuedTrack) /\ Len(r) = m - 1
      /\ \A k \in 1..(m - 1) : r[k] = IF k < i THEN q[k] ELSE q[k + 1]
  BY <1>2, RemoveAtElements
<1>4. /\ IdSeq(r) \in Seq(TrackIds) /\ Len(IdSeq(r)) = m - 1
      /\ \A k \in 1..(m - 1) : IdSeq(r)[k] = r[k].trackId
  <2> HIDE DEF r
  <2> QED BY <1>3, IdSeqType
<1>5. /\ RemoveAt(a, i) \in Seq(TrackIds) /\ Len(RemoveAt(a, i)) = m - 1
      /\ \A k \in 1..(m - 1) : RemoveAt(a, i)[k] = IF k < i THEN a[k] ELSE a[k + 1]
  BY <1>1, <1>2, RemoveAtElements
<1> HIDE DEF r, m
<1>6. ASSUME NEW k \in 1..(m - 1)
      PROVE  IdSeq(r)[k] = RemoveAt(a, i)[k]
  <2>1. k \in 1..m /\ k + 1 \in 1..m
    BY <1>1
  <2>2. a[k] = q[k].trackId /\ a[k + 1] = q[k + 1].trackId
    BY <1>1, <2>1
  <2>3. IdSeq(r)[k] = IF k < i THEN q[k].trackId ELSE q[k + 1].trackId
    BY <1>3, <1>4
  <2>4. RemoveAt(a, i)[k] = IF k < i THEN a[k] ELSE a[k + 1]
    BY <1>5
  <2> QED BY <2>2, <2>3, <2>4
<1>7. IdSeq(r) = RemoveAt(a, i)
  BY <1>4, <1>5, <1>6, SeqEqual
<1> QED BY <1>1, <1>2, <1>7 DEF r, a, i, Erase

-----------------------------------------------------------------------------
(* Every step of the data store is a step of the playlist or a stutter.    *)

\* What the steps need of the invariant.
QueuesTyped ==
    /\ queue["Admin"] \in Seq(QueuedTrack) /\ UniqueIds(queue["Admin"])
    /\ queue["Normal"] \in Seq(QueuedTrack) /\ UniqueIds(queue["Normal"])
    /\ queue \in [QueueType -> Seq(QueuedTrack)]

LEMMA IInvTyped == IInv => QueuesTyped
BY DEF IInv, DSTypeOK, Good, QueuesTyped, QueueType

\* The playlist sees nothing of the change.
Unseen ==
    /\ IdSeq(queue'["Admin"]) = IdSeq(queue["Admin"])
    /\ IdsOf(queue'["Normal"]) = IdsOf(queue["Normal"])
    /\ mCurrentTrack' = mCurrentTrack

LEMMA UnseenStutters == Unseen => UNCHANGED Implements!plVars
BY DEF Unseen, Implements!plVars, CurrentId

LEMMA InitImplements == DSInit => Implements!PLInit
<1> SUFFICES ASSUME DSInit PROVE Implements!PLInit
  OBVIOUS
<1>1. queue["Admin"] = <<>> /\ queue["Normal"] = <<>> /\ mCurrentTrack = NoTrack
  BY DEF DSInit, QueueType
<1>2. IdSeq(<<>>) = <<>> /\ IdsOf(<<>>) = {}
  BY DEF IdSeq, IdsOf
<1> QED BY <1>1, <1>2 DEF Implements!PLInit, CurrentId

LEMMA AddTrackEnqueues ==
    ASSUME QueuesTyped, NEW th \in Threads, NEW t \in TrackIds, NEW by \in Names,
           NEW q \in QueueType, now \in Nat, AddTrack(th, t, by, q)
    PROVE  Implements!Enqueue(t)
<1> DEFINE e == [trackId |-> t, addedBy |-> by, votes |-> 0, insertedAt |-> now]
<1>1. e \in QueuedTrack /\ e.trackId = t
  BY DEF QueuedTrack
<1>2. queue' = [queue EXCEPT ![q] = Append(queue[q], e)] /\ mCurrentTrack' = mCurrentTrack
  BY DEF AddTrack
<1> HIDE DEF e
<1>3. t \notin IdsOf(queue["Admin"]) /\ t \notin IdsOf(queue["Normal"])
  BY DEF AddTrack, Addable, HasTrack, OtherQueue, QueueType
<1>4. ~Implements!Known(t)
  BY <1>3, IdSeqKnown DEF QueuesTyped, Implements!Known
<1>5. CurrentId' = CurrentId
  BY <1>2 DEF CurrentId
<1>6. CASE q = "Admin"
  <2>1. queue'["Admin"] = Append(queue["Admin"], e) /\ queue'["Normal"] = queue["Normal"]
    BY <1>2, <1>6 DEF QueuesTyped, QueueType
  <2>2. IdSeq(queue'["Admin"]) = Append(IdSeq(queue["Admin"]), t)
    BY <1>1, <2>1, IdSeqPush DEF QueuesTyped
  <2> QED BY <1>4, <1>5, <2>1, <2>2 DEF Implements!Enqueue
<1>7. CASE q = "Normal"
  <2>1. queue'["Normal"] = Append(queue["Normal"], e) /\ queue'["Admin"] = queue["Admin"]
    BY <1>2, <1>7 DEF QueuesTyped, QueueType
  <2>2. IdsOf(Append(queue["Normal"], e)) = IdsOf(queue["Normal"]) \cup {t}
    <3>1. e \in Tracks(TrackIds, Names) /\ queue["Normal"] \in Seq(Tracks(TrackIds, Names))
      BY <1>1, QueuedTrackIsTracks DEF QueuesTyped
    <3> QED BY <1>1, <3>1, IdsAfterPush
  <2> QED BY <1>4, <1>5, <2>1, <2>2 DEF Implements!Enqueue
<1> QED BY <1>6, <1>7 DEF QueueType

LEMMA RemoveTrackWithdraws ==
    ASSUME QueuesTyped, NEW th \in Threads, NEW t \in TrackIds, NEW q \in QueueType,
           RemoveTrack(th, t, q)
    PROVE  Implements!Withdraw(t)
<1>1. /\ t \in IdsOf(queue[q])
      /\ queue' = [queue EXCEPT ![q] = Erase(queue[q], t)]
      /\ mCurrentTrack' = mCurrentTrack
  BY DEF RemoveTrack, HasTrack
<1>2. CurrentId' = CurrentId
  BY <1>1 DEF CurrentId
<1>3. CASE q = "Admin"
  <2>1. queue'["Admin"] = Erase(queue["Admin"], t) /\ queue'["Normal"] = queue["Normal"]
    BY <1>1, <1>3 DEF QueuesTyped, QueueType
  <2>2. \E i \in DOMAIN IdSeq(queue["Admin"]) :
           /\ IdSeq(queue["Admin"])[i] = t
           /\ IdSeq(queue'["Admin"]) = RemoveAt(IdSeq(queue["Admin"]), i)
    BY <1>1, <1>3, <2>1, IdSeqErase DEF QueuesTyped
  <2> QED BY <1>2, <2>1, <2>2 DEF Implements!Withdraw, Implements!RemoveAt, RemoveAt
<1>4. CASE q = "Normal"
  <2>1. queue'["Normal"] = Erase(queue["Normal"], t) /\ queue'["Admin"] = queue["Admin"]
    BY <1>1, <1>4 DEF QueuesTyped, QueueType
  <2>2. IdsOf(queue'["Normal"]) = IdsOf(queue["Normal"]) \ {t}
    BY <1>1, <1>4, <2>1, EraseProperties DEF QueuesTyped
  <2> QED BY <1>1, <1>2, <1>4, <2>1, <2>2 DEF Implements!Withdraw
<1> QED BY <1>3, <1>4 DEF QueueType

LEMMA NextTrackPlays ==
    ASSUME QueuesTyped, NEW th \in Threads, NextTrack(th)
    PROVE  Implements!Play
<1> DEFINE q     == NextQueue
           track == Head(queue[q])
           rest  == [queue EXCEPT ![q] = Tail(queue[q])]
<1>1. /\ q \in QueueType /\ queue[q] # <<>>
      /\ q = "Normal" => queue["Admin"] = <<>>
      /\ queue[q] \in Seq(QueuedTrack) /\ UniqueIds(queue[q])
  BY DEF NextTrack, NextQueue, QueueType, QueuesTyped
<1>2. PICK sorted \in SortsOf(rest["Normal"]) : queue' = [rest EXCEPT !["Normal"] = sorted]
  BY DEF NextTrack
<1>3. mCurrentTrack' = Base(track)
  BY DEF NextTrack
<1> HIDE DEF q
<1>4. /\ track \in QueuedTrack
      /\ track.trackId \in IdsOf(queue[q])
      /\ Tail(queue[q]) \in Seq(QueuedTrack)
      /\ IdsOf(Tail(queue[q])) = IdsOf(queue[q]) \ {track.trackId}
  BY <1>1, PopProperties
<1>5. CurrentId' = track.trackId
  <2>1. Base(track) \in BaseTrack /\ Base(track).trackId = track.trackId
    BY <1>4 DEF QueuedTrack, Base, BaseTrack
  <2> QED BY <1>3, <2>1, NoTrackAssumption DEF CurrentId
<1>6. rest \in [QueueType -> Seq(QueuedTrack)] /\ rest["Normal"] \in Seq(QueuedTrack)
  BY <1>1, <1>4 DEF QueuesTyped, QueueType
<1>7. IdsOf(sorted) = IdsOf(rest["Normal"])
  <2> HIDE DEF rest
  <2> QED BY <1>2, <1>6, SortProperties
<1>8. queue'["Normal"] = sorted /\ queue'["Admin"] = rest["Admin"]
  <2> HIDE DEF rest
  <2> QED BY <1>2, <1>6 DEF QueueType
<1>9. CASE q = "Admin"
  <2>1. rest["Admin"] = Tail(queue["Admin"]) /\ rest["Normal"] = queue["Normal"]
    BY <1>9 DEF QueuesTyped, QueueType
  <2>2. /\ IdSeq(queue["Admin"]) # <<>>
        /\ IdSeq(queue'["Admin"]) = Tail(IdSeq(queue["Admin"]))
        /\ track.trackId = Head(IdSeq(queue["Admin"]))
    BY <1>1, <1>8, <1>9, <2>1, IdSeqPop
  <2> QED BY <1>5, <1>7, <1>8, <2>1, <2>2 DEF Implements!Play, Implements!PlayAdmin
<1>10. CASE q = "Normal"
  <2>1. rest["Normal"] = Tail(queue["Normal"]) /\ rest["Admin"] = queue["Admin"]
    BY <1>10 DEF QueuesTyped, QueueType
  <2>2. IdSeq(queue["Admin"]) = <<>>
    BY <1>1, <1>10 DEF IdSeq
  <2>3. IdsOf(queue'["Normal"]) = IdsOf(queue["Normal"]) \ {track.trackId}
    BY <1>4, <1>7, <1>8, <1>10, <2>1
  <2> QED BY <1>4, <1>5, <1>8, <1>10, <2>1, <2>2, <2>3 DEF Implements!Play, Implements!PlayUser
<1> QED BY <1>1, <1>9, <1>10 DEF QueueType

LEMMA VoteTrackUnseen ==
    ASSUME QueuesTyped, NEW th \in Threads, NEW s \in SessionIds, NEW t \in TrackIds,
           NEW vote \in BOOLEAN, VoteTrack(th, s, t, vote)
    PROVE  Unseen
<1>1. Delta(s, t, vote) \in Int
  BY DEF Delta
<1>2. PICK sorted \in SortsOf(AddVotes(queue["Normal"], t, Delta(s, t, vote))) :
         queue' = [queue EXCEPT !["Normal"] = sorted]
  BY DEF VoteTrack
<1>3. /\ AddVotes(queue["Normal"], t, Delta(s, t, vote)) \in Seq(Tracks(TrackIds, Names))
      /\ IdsOf(AddVotes(queue["Normal"], t, Delta(s, t, vote))) = IdsOf(queue["Normal"])
  BY <1>1, AddVotesProperties, QueuedTrackIsTracks DEF QueuesTyped
<1>4. IdsOf(sorted) = IdsOf(queue["Normal"])
  BY <1>2, <1>3, SortProperties
<1>5. queue'["Normal"] = sorted /\ queue'["Admin"] = queue["Admin"]
  BY <1>2 DEF QueuesTyped, QueueType
<1>6. mCurrentTrack' = mCurrentTrack
  BY DEF VoteTrack
<1> QED BY <1>4, <1>5, <1>6 DEF Unseen

LEMMA NextImplements == IInv /\ [DSNext]_dsVars => [Implements!PLNext]_(Implements!plVars)
<1> SUFFICES ASSUME IInv, [DSNext]_dsVars
             PROVE  Implements!PLNext \/ UNCHANGED Implements!plVars
  OBVIOUS
<1>1. QueuesTyped /\ now \in Nat
  BY IInvTyped DEF IInv, DSTypeOK
<1>2. CASE Tick
  BY <1>2, UnseenStutters DEF Tick, Unseen
<1>3. ASSUME NEW th \in Threads, ThreadStep(th)
      PROVE  Implements!PLNext \/ UNCHANGED Implements!plVars
  <2>1. ASSUME NEW s \in SessionIds, NEW p \in Profiles, NEW time, AddUser(th, s, p, time)
        PROVE  UNCHANGED Implements!plVars
    BY <2>1, UnseenStutters DEF AddUser, Unseen
  <2>2. ASSUME NEW s \in SessionIds, RemoveUser(th, s)
        PROVE  UNCHANGED Implements!plVars
    BY <2>2, UnseenStutters DEF RemoveUser, Unseen
  <2>3. ASSUME NEW t \in TrackIds, NEW by \in Names, NEW q \in QueueType, AddTrack(th, t, by, q)
        PROVE  Implements!PLNext
    BY <1>1, <2>3, AddTrackEnqueues DEF Implements!PLNext
  <2>4. ASSUME NEW t \in TrackIds, NEW q \in QueueType, RemoveTrack(th, t, q)
        PROVE  Implements!PLNext
    BY <1>1, <2>4, RemoveTrackWithdraws DEF Implements!PLNext
  <2>5. CASE NextTrack(th)
    BY <1>1, <2>5, NextTrackPlays DEF Implements!PLNext
  <2>6. CASE RemoveVotesForTrack(th)
    BY <2>6, UnseenStutters DEF RemoveVotesForTrack, Unseen
  <2>7. ASSUME NEW s \in SessionIds, NEW t \in TrackIds, NEW vote \in BOOLEAN,
               VoteTrack(th, s, t, vote)
        PROVE  UNCHANGED Implements!plVars
    BY <1>1, <2>7, VoteTrackUnseen, UnseenStutters
  <2> QED BY <1>3, <2>1, <2>2, <2>3, <2>4, <2>5, <2>6, <2>7 DEF ThreadStep
<1>4. CASE UNCHANGED dsVars
  BY <1>4, UnseenStutters DEF dsVars, Unseen
<1> QED BY <1>2, <1>3, <1>4 DEF DSNext

\* The data store keeps the playlist's promise: admin tracks first and in order,
\* no track twice, none played that was not queued, whatever calls interleave.
THEOREM PlaylistImplemented == DSSpec => ImplementsPlaylist
BY InitImplements, NextImplements, Invariance, PTL
   DEF DSSpec, ImplementsPlaylist, Implements!PLSpec

=============================================================================
