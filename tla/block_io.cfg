SPECIFICATION Spec
CONSTANTS
  Client = {a}
  Exclusive = TRUE
  Size = 5
  ALIGN = 3
  Payload = {1, 2}
  MaxFaults = 2
  MaxCuts = 1
INVARIANTS NeverGrows BlockTypeOK Reachable
PROPERTIES NeighboursKept OkMeansServed CallsEnd
