CONSTANTS
  Caller <- Goroutines
  Pool = {p1}
  NoPool = NoPool
  NoCaller = NoCaller
  Ops <- ProgramOps
SPECIFICATION FairSpec
PROPERTY CallsReturn
CHECK_DEADLOCK FALSE
