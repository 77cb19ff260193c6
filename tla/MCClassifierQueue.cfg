CONSTANTS
  LastClip = 3
  QueueSize = 1
  MaxFailures = 1
  MaxCrashes = 1
  MaxDeletes = 1
  None = None
SPECIFICATION FairSpec
PROPERTY EveryClipClassified
INVARIANTS QueuedExact
