CONSTANTS
  Cameras = {front, back}
  Classifier = {classifier}
  LastCommit = 1
  MaxCrashes = 1
  None = None
SPECIFICATION Spec
INVARIANTS  FailureRestartsNothing
