SPECIFICATION Spec
CONSTANTS
  BlockSize = 9
  Images <- MCImages
  WriteOutcomes = {"full", "zero"}
  MaxNoise = 0
CHECK_DEADLOCK FALSE
INVARIANTS
  SuccessMeansComplete
