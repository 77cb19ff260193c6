CONSTANTS
  QueueSize = 2
  InitialDelay = 1
  MaxDelay = 2
  MaxFrames = 3
  MaxFailures = 1
  MaxChanges = 1
  MaxSignals = 2
  None = None
SPECIFICATION Spec
INVARIANTS FramesAccounted  TailKept
PROPERTIES StaleOnlyFromOpening 
CHECK_DEADLOCK FALSE
