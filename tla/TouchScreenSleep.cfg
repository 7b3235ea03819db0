SPECIFICATION Spec
CONSTANTS
  u1 = u1
  u2 = u2
  Users <- MCUsers
  MaxSuspends = 1
  MaxKills = 0
SYMMETRY Symmetry
INVARIANTS
  PenDetectable
