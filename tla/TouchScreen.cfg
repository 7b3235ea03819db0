SPECIFICATION FairSpec
CONSTANTS
  u1 = u1
  u2 = u2
  Users <- MCUsers
  MaxSuspends = 2
  MaxKills = 1
INVARIANTS
  TypeOK
  ClockBalanced
  AdcExclusive
  SessionsWhole
  GarbageOnlyBeforeCallbacks
  PenDetectableUnlessSlept
PROPERTIES
  CloseFinishes
  TouchNoticed
