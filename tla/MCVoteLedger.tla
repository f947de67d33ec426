---------------------------- MODULE MCVoteLedger ----------------------------
(* VoteLedger with one kind of user and symmetric sets, for TLC.            *)
EXTENDS VoteLedger, TLC

CONSTANT Nick

OneProfile == {[Name |-> Nick, isAdmin |-> FALSE]}

Symmetry == Permutations(TrackIds) \cup Permutations(SessionIds) \cup Permutations(Threads)

=============================================================================
