----------------------------- MODULE MCRecorder -----------------------------
(* Recorder on a small instance.  PreBuffer - Overlap is large enough for a *)
(* new event to open with the start of a chunk that is still being          *)
(* assembled, the case _active_starts is a list for.                        *)
EXTENDS Recorder
=============================================================================
