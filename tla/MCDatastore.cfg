CONSTANTS
  Caller <- Goroutines
  Pool = {p1, p2}
  NoPool = NoPool
  NoCaller = NoCaller
  Ops <- ProgramOps
SPECIFICATION Spec
INVARIANTS TypeOK PoolGetNeverNil BlockedOnlyByNestedRLock
PROPERTY Linearizable
CHECK_DEADLOCK FALSE
