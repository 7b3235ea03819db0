SPECIFICATION FairSpec
CONSTANTS
  r1 = r1
  r2 = r2
  NrEvents = 4
  Readers <- MCReaders
  Usages <- MCUsages
  MaxCount = 2
  MaxEvents = 4
INVARIANTS
  TypeOK
  NotStranded
  PenOffSeenUnlessLost
PROPERTIES
  ReaderDrains
  ImplementsQueue
