SPECIFICATION Spec
CONSTANTS
  r1 = r1
  r2 = r2
  NrEvents = 4
  Readers <- MCReaders
  Usages <- MCAlone
  MaxCount = 1
  MaxEvents = 3
INVARIANTS
  ReadReturnsCopied
