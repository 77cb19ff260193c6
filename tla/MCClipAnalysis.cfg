CONSTANTS
  UnitsPerSecond = 6
  LastSecond = 3
  Scores = {0, 1, 2}
  PeakParts = {0, 3}
  Durations <- MCDurations
  MaxFrames = 3
  MinSpacing = 9
  RawOutputs <- MCRawOutputs
  FrameFrom = 2
  FrameTo = 10
  ConfidenceFloor = 1
  HighConfidence = 4
  IouParts = 2
  IouWhole = 5
  LargeSize = 6
  PersistentParts = 3
  PersistentWhole = 5
  None = None
SPECIFICATION AnalysisSpec
INVARIANTS BestMomentsSampled  MissedOnlyIfCovered
