SPECIFICATION FairSpec
CONSTANTS
  Replica = {p1, p2}
  NoHolder = NoHolder
  Expiring = Expiring
PROPERTY NoContinuousRestarts
