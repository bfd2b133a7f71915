CONSTANTS
  root = root
  child = child
  b1 = b1
  b2 = b2
  Sessions = {root}
  Parents <- NoParents
  Bodies = {b1, b2}
  DefaultBody = b1
  WaitKinds = {"event", "deadline"}
  MessageKinds = {"WorkerRequest", "WorkerReport"}
  Working = {root}
  Pausable = {root}
  MaxEvents = 2
  MaxFaults = 0
  MaxRuns = 16
SPECIFICATION Spec
INVARIANTS
  NoSessionForgotten
  TypeOK
  OneRunPerRole
  WaitingSuppressesReview
  DeferredInputReachesGoalManager
