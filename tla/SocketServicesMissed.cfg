SPECIFICATION FairSpec
CONSTANTS
  u1 = u1
  u2 = u2
  Users <- MCOneUser
  UnresetLimit = 2
PROPERTIES
  Detects
