--------------------------- MODULE MCQueueStatus ---------------------------
(* QueueStatus with two tracks, for TLC.                                    *)
EXTENDS QueueStatus, TLC

CONSTANTS t1, t2

=============================================================================
