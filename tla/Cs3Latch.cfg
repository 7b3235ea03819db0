SPECIFICATION Spec
CONSTANTS
  ProcValues <- MCProcValues
  Vccs = {0, 33, 50, 12}
CHECK_DEADLOCK FALSE
INVARIANTS
  TypeOK
  LatchFollowsShadow
  NoLostUpdate
  NeverBothSupplies
  CardIrqOn
  PowerStatusTrue
