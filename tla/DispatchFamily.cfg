CONSTANTS
  root = root
  child = child
  b1 = b1
  b2 = b2
  Sessions = {root, child}
  Parents <- RootOfChild
  Bodies = {b1}
  DefaultBody = b1
  WaitKinds = {"child"}
  MessageKinds = {"WorkerReport"}
  Working = {child}
  Pausable = {}
  MaxEvents = 1
  MaxFaults = 0
  MaxRuns = 16
SPECIFICATION Spec
INVARIANTS
  CompleteMeansReviewed
  
