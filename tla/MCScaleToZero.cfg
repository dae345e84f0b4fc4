SPECIFICATION TimedSpec
CONSTANTS
  Request = {r1, r2}
  Monitor = Monitor
  NoGuard = NoGuard
  NoPool = NoPool
  Client <- Clients
  Pool <- OnlyQuick
  OutsideReplicas <- None
  StatusOptional = TRUE
  MaxReplicas = 1
  Grace = 2
  Retention = 1
  InitialPeriod = 3
  DefaultDelay = 4
  ShortDelay = 3
SYMMETRY RequestSymmetry
INVARIANTS TypeOK GuardOwned SoloScaling QuietWhileScaling AnsweredInTime IdleBeforeTick PanicsExplained
PROPERTY LatchImplemented
