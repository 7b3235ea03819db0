SPECIFICATION FairSpec
CONSTANTS
  BlockSize = 9
  Images <- MCWholeImages
  WriteOutcomes = {"full"}
  MaxNoise = 0
CHECK_DEADLOCK FALSE
PROPERTIES
  Completes
