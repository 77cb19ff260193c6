----------------------------- MODULE MCSettings -----------------------------
(* Three requests, up to two of them at a time. *)
EXTENDS Settings
=============================================================================
