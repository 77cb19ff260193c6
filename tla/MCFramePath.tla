----------------------------- MODULE MCFramePath ----------------------------
(* FramePath with a queue of one or two frames. *)
EXTENDS FramePath
=============================================================================
