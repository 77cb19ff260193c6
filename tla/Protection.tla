----------------------------- MODULE Protection -----------------------------
(***************************************************************************)
(* What the recorder and the segment cache have in common: the clock, the  *)
(* recorder's _active_starts, and the time the cache is told by protect_since *)
(* to keep everything from.                                                *)
(***************************************************************************)
EXTENDS Integers

CONSTANTS
  MaxTime,       \* bound: the clock stops here
  None           \* Python's None

VARIABLES
  now,             \* time.time()
  activeStarts,    \* _active_starts, each entry with the window that added it
  protectedSince   \* SegmentCache._protected_since

claimVars == <<activeStarts, protectedSince>>

Claim == [id: Nat, start: Int]    \* one entry of _active_starts

IsTime(t) == t \in Int \/ t = None    \* an Optional[float] of the code

Starts(claims) == {c.start : c \in claims}

\* What protect_since is called with: min(_active_starts), or None.
Earliest(claims) ==
  IF claims = {} THEN {None}
  ELSE {s \in Starts(claims) : \A t \in Starts(claims) : s <= t}
=============================================================================
