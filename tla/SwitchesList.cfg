SPECIFICATION Spec
CONSTANTS
  c1 = c1
  c2 = c2
  c3 = c3
  r1 = r1
  r2 = r2
  UcbSwitches = {3}
  SaSwitches = {10}
  Cells <- MCCells
  Readers <- MCOneReader
  MaxEdges = 2
  MaxSleeps = 0
  MaxFaults = 1
CHECK_DEADLOCK FALSE
INVARIANTS
  ListIntact
