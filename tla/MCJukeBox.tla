----------------------------- MODULE MCJukeBox -----------------------------
(* JukeBox with one admin's and one guest's profile, for TLC.              *)
EXTENDS JukeBox, TLC

CONSTANTS ann, bob

TwoProfiles == {[Name |-> ann, isAdmin |-> TRUE], [Name |-> bob, isAdmin |-> FALSE]}

Symmetry == Permutations(TrackIds) \cup Permutations(SessionIds) \cup Permutations(RequestThreads)

=============================================================================
