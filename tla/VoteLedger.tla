----------------------------- MODULE VoteLedger -----------------------------
(***************************************************************************)
(* A vote is kept twice: as a counter in the queued track and as an entry  *)
(* in the votes vector of the user.  voteTrack updates both in one         *)
(* critical section, but removeTrack and nextTrack drop the entries only   *)
(* after the track is gone, and a vote for a track that is not queued      *)
(* leaves an entry with no counter.  This module adds a history variable   *)
(* to RAMDataStore that says for which tracks the two still agree.         *)
(***************************************************************************)
EXTENDS RAMDataStore, FiniteSets

VARIABLE ledger  \* the tracks whose entries were all counted, see below

vlVars == <<dsVars, ledger>>

\* A thread has taken t out of a queue and not yet dropped its votes.
BeingCleared(t) == \E th \in Threads : clearing[th] = t

NormalTracks == { queue["Normal"][i] : i \in DOMAIN queue["Normal"] }

\* A track enters the ledger when it enters the normal queue while no user has
\* an entry for it and no thread is about to drop its entries; it leaves the
\* ledger with the queue, and when a user who voted for it is removed.
LedgerAfter ==
    LET entered == { t \in TrackIds : HasTrack(t, "Normal")' /\ ~HasTrack(t, "Normal") }
        honest  == { t \in entered : Voters(t) = {} /\ ~BeingCleared(t) }
        kept    == { t \in ledger : /\ HasTrack(t, "Normal")'
                                    /\ \A s \in Voters(t) : s \in DOMAIN mUsers' }
    IN kept \cup honest

VLInit == DSInit /\ ledger = {}

VLNext == DSNext /\ ledger' = LedgerAfter

VLSpec == VLInit /\ [][VLNext]_vlVars

-----------------------------------------------------------------------------

\* The counter of a track is the number of users whose entry it is, for every
\* track that was added before anybody voted for it and outside the window in
\* which removeTrack or nextTrack drops its old entries.
LedgerExact ==
    \A track \in NormalTracks :
        track.trackId \in ledger => track.votes = Cardinality(Voters(track.trackId))

\* However the calls interleave, a counter falls at most as far below the number
\* of entries as there were sessions: each entry that was never counted can be
\* revoked once.
DebtBounded ==
    \A track \in NormalTracks :
        track.votes >= Cardinality(Voters(track.trackId)) - Cardinality(issued)

\* RESTInterface.md:259 says a user cannot vote for the same track twice: no
\* counter exceeds the number of users there ever were.
NobodyCountsTwice ==
    \A track \in NormalTracks : track.votes <= Cardinality(issued)

=============================================================================
