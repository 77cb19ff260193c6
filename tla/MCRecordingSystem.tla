------------------------- MODULE MCRecordingSystem --------------------------
(* The whole recording path on small instances.                            *)
EXTENDS RecordingSystem
=============================================================================
