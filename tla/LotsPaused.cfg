\* A paused Unit's entry comes first.
SPECIFICATION FairSpec
CONSTANTS
  Slots <- MCSlots
  Sessions <- MCSessions
  SessionOf <- MCSessionOf
  Policies <- MCPolicies
  StarvationWait = 2
  AgingLimit = 3
  LotCap = 1
  LotSizes = {1}
  Pausable = {"s1"}
  WorkerSessions = {}
  MaxEvents = 1
PROPERTY Served
