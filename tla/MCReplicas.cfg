SPECIFICATION FairSpec
CONSTANTS
  Replica = {p1, p2, p3}
  NoHolder = NoHolder
  Expiring = Expiring
INVARIANTS ServingOnlyOnLeader SoleScaler
PROPERTY FailoverServes
