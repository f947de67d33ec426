-------------------------- MODULE MCVirtualJukebox --------------------------
(* VirtualJukebox with the profiles of MCJukeBox, for TLC.                  *)
EXTENDS VirtualJukebox

CONSTANTS ann, bob

TwoProfiles == {[Name |-> ann, isAdmin |-> TRUE], [Name |-> bob, isAdmin |-> FALSE]}

\* No step and no property reads the HTTP status of the last request, and where tracks may
\* end at any time none reads this part of the scheduler's history but to carry it on.
WithoutUnread ==
    <<dsVars, [th \in RequestThreads |-> [call[th] EXCEPT !.status = 0]],
      player, mSchedulerState, mLastPlayback, pc, poll, handed, refused, skips>>

=============================================================================
