--------------------------- MODULE MCVolumeControl ---------------------------
(* VolumeControl with two clients and the scheduler, for TLC.               *)
EXTENDS VolumeControl, TLC

CONSTANTS scheduler, r1, r2, d1, d2

Symmetry == Permutations(Threads \ {Scheduler})

=============================================================================
