---------------------------- MODULE MCAnnotator ----------------------------
(* Two service pairs and room to track one of them.                             *)
EXTENDS Annotator

CONSTANTS front, back

MCEdgeKeys == {front, back}

MCDurations == {9}
=============================================================================
