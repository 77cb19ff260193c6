---------------------------- MODULE MCRetention ----------------------------
(* Three clips of different sizes, a low window of one unit of age, a     *)
(* review window of one and a high window of two, as 48 hours < 30 days.   *)
EXTENDS Retention

MCSizeOf == <<1, 2, 1>>
MCWindow == [low |-> 1, review |-> 1, high |-> 2]
=============================================================================
