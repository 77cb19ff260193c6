------------------------- MODULE MCClassifierQueue -------------------------
(* The configurations of ClassifierQueue need no definitions of their own. *)
EXTENDS ClassifierQueue
=============================================================================
