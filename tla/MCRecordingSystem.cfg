CONSTANTS
  PreBuffer = 2
  PostBuffer = 1
  MaxChunk = 2
  Overlap = 1
  MaxLag = 1
  FrameHorizon = 3
  MaxTime = 7
  TicksPerSecond = 1
  SegmentSeconds = 2
  MinSegment = 2
  MaxSegment = 2
  StallLimit = 3
  MaxPruneDelay = 0
  MaxOutages = 1
  KeepMargin = 2
  None = None
SPECIFICATION Spec
INVARIANTS WindowFullyListed LostOnlyInOutage
PROPERTY ComponentSpecs
