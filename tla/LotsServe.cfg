\* Two Sessions, of which one may get a priority that aging never makes up for.
SPECIFICATION FairSpec
CONSTANTS
  Slots <- MCSlots
  Sessions <- MCSessions
  SessionOf <- MCSessionOf
  Policies <- MCPolicies
  StarvationWait = 1
  AgingLimit = 1
  LotCap = 2
  LotSizes = {1, 2}
  Pausable = {"s1"}
  WorkerSessions <- MCWorkerSessions
  MaxEvents = 1
INVARIANT TypeOK
INVARIANT OneLotPerSlot
PROPERTY LotSizeRespected
PROPERTY PausedNotLeased
PROPERTY ServedUnlessPaused
