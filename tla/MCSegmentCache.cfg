CONSTANTS
  TicksPerSecond = 2
  SegmentSeconds = 2
  MinSegment = 2
  MaxSegment = 3
  StallLimit = 4
  KeepSeconds = 4
  Reach = 2
  MaxPruneDelay = 1
  MaxOutages = 1
  MaxClaims = 1
  MaxTime = 7
  None = None
SPECIFICATION FairSpec
INVARIANTS ClaimedFootageKept FileBeingWrittenKept
PROPERTY CacheBounded
