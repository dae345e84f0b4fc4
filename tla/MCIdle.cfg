SPECIFICATION ApiFairSpec
CONSTANTS
  Request = {r1}
  Monitor = Monitor
  NoGuard = NoGuard
  NoPool = NoPool
  Client <- Clients
  Pool <- AllPools
  OutsideReplicas <- UpToOne
  StatusOptional = TRUE
  MaxReplicas = 1
  Grace = 1
  Retention = 1
  InitialPeriod = 2
  DefaultDelay = 2
  ShortDelay = 2
PROPERTY IdleScalesToZero
