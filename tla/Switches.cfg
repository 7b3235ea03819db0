SPECIFICATION FairSpec
CONSTANTS
  c1 = c1
  c2 = c2
  c3 = c3
  r1 = r1
  r2 = r2
  UcbSwitches = {3}
  SaSwitches = {10}
  Cells <- MCTwoCells
  Readers <- MCTwoReaders
  MaxEdges = 2
  MaxSleeps = 1
  MaxFaults = 2
CHECK_DEADLOCK FALSE
INVARIANTS
  TypeOK
  ListIntactUnlessDisturbed
  StrandedOnlyByRace
  Alternates
  
PROPERTIES
  PollReturns
