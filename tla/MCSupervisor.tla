---------------------------- MODULE MCSupervisor ----------------------------
(* Supervisor with a backoff of one, then two seconds. *)
EXTENDS Supervisor

MCBackoffs == <<1, 2>>
=============================================================================
