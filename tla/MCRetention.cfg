CONSTANTS
  LastClip = 3
  SizeOf <- MCSizeOf
  Verdicts = {"low", "review"}
  Window <- MCWindow
  Budget = 2
  MaxAge = 2
  MaxDisruptions = 1
  None = None
SPECIFICATION Spec
INVARIANTS SweepExact BudgetMet 
