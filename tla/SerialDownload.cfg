SPECIFICATION FairSpec
CONSTANTS
  BlockSize = 9
  Images <- MCNoisyImages
  WriteOutcomes = {"full", "short", "error"}
  MaxNoise = 2
CHECK_DEADLOCK FALSE
INVARIANTS
  TypeOK
  BlocksInStep
  CheckIsFresh
  TailIntact
  SuccessMeansComplete
  BaudAgreement
PROPERTIES
  Completes
  ImplementsTransfer
