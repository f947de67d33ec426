----------------------------- MODULE TrackQueue -----------------------------
(***************************************************************************)
(* The std::vector<QueuedTrack> operations of RAMDataStore (Types/Tracks.h *)
(* and Types/Queue.h): find, erase, push_back, and a std::sort that is not *)
(* stable.  A queue is a sequence of records with the fields trackId,      *)
(* addedBy, votes and insertedAt; title, album, artist, duration and icon  *)
(* are carried along unread and are left out.                              *)
(***************************************************************************)
EXTENDS Integers, Sequences, SequencesExt

\* QueuedTrack::operator<: more votes first, then the earlier insertion.
Before(a, b) ==
    IF a.votes = b.votes THEN a.insertedAt < b.insertedAt ELSE a.votes > b.votes

\* Wrong: slicing forgotten, the track keeps its queue fields.
BaseUnsliced(track) == track

\* The part of a track that survives in a BaseTrack.
Base(track) == [trackId |-> track.trackId, addedBy |-> track.addedBy]

\* The IDs of the tracks in q.  BaseTrack::operator== compares only the ID.
IdsOf(q) == { q[i].trackId : i \in DOMAIN q }

\* The IDs of the tracks in q, in the order of the queue.
IdSeq(q) == [i \in DOMAIN q |-> q[i].trackId]

\* std::find: the first position of track t, for t \in IdsOf(q).
Find(q, t) ==
    CHOOSE i \in DOMAIN q :
        /\ q[i].trackId = t
        /\ \A j \in DOMAIN q : q[j].trackId = t => i <= j

\* vector::erase of the element std::find returned.
Erase(q, t) == RemoveAt(q, Find(q, t))

\* Adds d to the vote counter of track t if it is in q, and changes nothing
\* if it is not (the null pNormalTrack of voteTrack).
AddVotes(q, t, d) ==
    [i \in DOMAIN q |->
        IF t \in IdsOf(q) /\ i = Find(q, t) THEN [q[i] EXCEPT !.votes = @ + d] ELSE q[i]]

\* No later element belongs strictly before an earlier one.
Sorted(q) == \A i, j \in DOMAIN q : i < j => ~Before(q[j], q[i])

\* Wrong: no sort.
Unsorted(q) == {q}

\* Every result std::sort may leave: a sorted permutation of q.  Elements that
\* compare equal may end up in any order.
SortsOf(q) ==
    { s \in { [i \in DOMAIN q |-> q[p[i]]] : p \in Bijection(DOMAIN q, DOMAIN q) } : Sorted(s) }

=============================================================================
