--------------------------- MODULE MCClipAnalysis ---------------------------
(* Clips of up to three seconds, a peak at the start or in the middle of its *)
(* second, durations shorter than, as long as and longer than the timeline.  *)
(* The input shows the frame from 2 to 10; boxes overlap, lie next to each   *)
(* other, reach into the padding or lie in it.                               *)
EXTENDS ClipAnalysis

MCDurations == {0, 6, 12, 24, None}

Box(target, confidence, from, to) ==
  [target |-> target, confidence |-> confidence, from |-> from, to |-> to]

MCRawOutputs ==
  {{},
   {Box(TRUE, 5, 3, 6)},                                           \* sure
   {Box(TRUE, 3, 3, 6), Box(TRUE, 1, 7, 9)},                       \* unsure; at the floor
   {Box(TRUE, 5, 3, 6), Box(FALSE, 6, 3, 7)},                      \* covered
   {Box(TRUE, 5, 4, 7), Box(FALSE, 6, 6, 8)},                      \* touched
   {Box(TRUE, 5, 1, 3), Box(FALSE, 6, 0, 2), Box(FALSE, 2, 0, 3)}, \* in the padding
   {Box(FALSE, 3, 0, 12)},                                         \* large
   {Box(FALSE, 3, 2, 4), Box(TRUE, 4, 2, 5), Box(TRUE, 5, 3, 6)}}  \* a chain
=============================================================================
