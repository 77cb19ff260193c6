CONSTANTS
  Requests = {r1, r2}
  MaxHits = 1
  MaxRequests = 2
  MaxFaults = 1
  None = None
SYMMETRY Sym
SPECIFICATION HeatmapSpec
INVARIANTS  OnlyUnsavedAtRisk ApplyFailsOnlyOverlapped
CHECK_DEADLOCK FALSE
