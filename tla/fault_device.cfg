SPECIFICATION Spec
CONSTANTS
  Size = 2
  Data = {0, 1}
  Budgets = {1}
  MaxOps = 3
  MaxPokes = 1
INVARIANTS FaultTypeOK EveryOutcome Extremes
PROPERTIES ImplementsMedium PastIsFixed
