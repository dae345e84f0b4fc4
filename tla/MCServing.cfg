SPECIFICATION FairSpec
CONSTANT MaxMessages <- MessageBound
INVARIANTS TypeOK RefusalReachesEnvoy DrainedOnExit
PROPERTIES GateImplemented HandlerEnds ProcessEnds
CHECK_DEADLOCK FALSE
