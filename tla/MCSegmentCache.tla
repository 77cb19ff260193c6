--------------------------- MODULE MCSegmentCache ---------------------------
(* SegmentCache on small instances.                                        *)
EXTENDS SegmentCache

\* EndsAfter is a comparison with SegmentEnd, on every small set of segments.
ASSUME EndsAfterIsSegmentEnd ==
  \A S \in SUBSET (0..(3 * SegmentSeconds)) : \A s \in S :
    \A t \in -1..(4 * SegmentSeconds) :
      EndsAfter(S, s, t) <=> SegmentEnd(S, s) > t

=============================================================================
