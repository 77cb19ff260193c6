CONSTANTS
  Dirs = {d1, d2}
  Requests = {r1}
  MaxName = 2
  MaxJobs = 2
  MaxSwaps = 1
  MaxFaults = 1
  None = None
SYMMETRY Symmetric
SPECIFICATION Spec
INVARIANTS  NoPartialClip  IndexExact
