SPECIFICATION FairSpec
CONSTANTS
  u1 = u1
  u2 = u2
  Users <- MCTwoUsers
  UnresetLimit = 2
INVARIANTS
  TypeOK
  NothingPending
  HotOnlyWithCard
  PresenceKnown
  ClientsServed
PROPERTIES
  EventMatchesCauseUnlessCold
  DetectsUnlessMissed
