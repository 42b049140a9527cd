---------------------------- MODULE MCImageBuild ----------------------------
(* Values of the constants of ImageBuild for TLC. *)
EXTENDS ImageBuild

AllPoints == Running
NoPoints  == {}

BoardOnly == {"guest"}
LoopTools == {"mount", "extract", "logcat"}
NoTools   == {}
=============================================================================
