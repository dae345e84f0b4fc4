SPECIFICATION AnswersSpec
CONSTANTS
  Request = {r1, r2, r3}
  First = r1
  Second = r2
  Third = r3
  Monitor = Monitor
  NoGuard = NoGuard
  NoPool = NoPool
  Client <- Clients
  Pool <- OnlyQuick
  OutsideReplicas <- None
  StatusOptional = FALSE
  MaxReplicas = 1
  Grace = 1
  Retention = 1
  InitialPeriod = 1
  DefaultDelay = 1
  ShortDelay = 1
PROPERTY RequestsAnswered
