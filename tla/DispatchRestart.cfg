CONSTANTS
  root = root
  child = child
  b1 = b1
  b2 = b2
  Sessions = {root}
  Parents <- NoParents
  Bodies = {b1}
  DefaultBody = b1
  WaitKinds = {"deadline"}
  MessageKinds = {"Note"}
  Working = {root}
  Pausable = {}
  MaxEvents = 1
  MaxFaults = 1
  MaxRuns = 16
SPECIFICATION FairSpec
INVARIANTS
  NoSessionForgotten
  ReadinessOwned
  CursorFromReleasedRuns
PROPERTIES
  CompletionByLeaseHolder
  
