SPECIFICATION FairSpec
CONSTANTS
  p1 = p1
  p2 = p2
  Pool <- Pools
  NoPool = NoPool
  Group = "v1alpha2"
  MaxWrites <- ChangeBound
INVARIANT NoEventLost
PROPERTY Settles
