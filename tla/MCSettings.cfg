CONSTANTS
  MaxRequests = 3
  MaxInFlight = 2
  MaxFailures = 1
  MaxDeaths = 1
  None = None
SPECIFICATION Spec
INVARIANTS PatchKept 
CHECK_DEADLOCK FALSE
