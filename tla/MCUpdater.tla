----------------------------- MODULE MCUpdater ------------------------------
(* Two cameras and the classifier, one upstream commit to update to. *)
EXTENDS Updater
=============================================================================
