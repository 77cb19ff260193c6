CONSTANTS
  PreBuffer = 3
  PostBuffer = 1
  MaxChunk = 2
  Overlap = 1
  MaxLag = 1
  FrameHorizon = 7
  MaxTime = 8
  None = None
SPECIFICATION FairSpec
INVARIANTS ActiveStartsExact ProtectionCoversLive MotionCovered NothingLostAcrossCut
 
