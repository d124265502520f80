----------------------------- MODULE MCGroundLink -----------------------------
(* A small link for GroundLink: a frame holds a good and a malformed detection.*)
EXTENDS GroundLink

MCDetections == {<<[valid |-> FALSE], [valid |-> TRUE]>>}
==============================================================================
