------------------------- MODULE MCSimpleScheduler -------------------------
(* SimpleScheduler with symmetric tracks, for TLC.  The symmetry is used    *)
(* only where no liveness is checked.                                       *)
EXTENDS SimpleScheduler, TLC

Symmetry == Permutations(TrackIds)

\* Where tracks may end at any time no step reads heard, and only AdminPauseHolds
\* reads paused.
WithoutHeardAndPaused ==
    <<plVars, player, threadVars, handed, refused, excused, meddled, skips>>

=============================================================================
