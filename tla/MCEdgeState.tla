---------------------------- MODULE MCEdgeState ----------------------------
(* A ring of three buckets whose duration is no multiple of three, and a        *)
(* histogram with a step above 1 at its end.                                    *)
EXTENDS EdgeState

MCDurations == {0, 9, 30}
=============================================================================
