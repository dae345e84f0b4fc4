SPECIFICATION Spec
CONSTANTS
  Request = {r1}
  Monitor = Monitor
  NoGuard = NoGuard
  NoPool = NoPool
  Client <- Clients
  Pool <- OnlyQuick
  OutsideReplicas <- None
  StatusOptional = TRUE
  MaxReplicas = 2
  Grace = 2
  Retention = 1
  InitialPeriod = 3
  DefaultDelay = 4
  ShortDelay = 3
PROPERTY ActivatorNeverScalesDown
