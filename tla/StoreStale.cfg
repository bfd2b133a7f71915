SPECIFICATION Spec
CONSTANTS
  s1 = s1
  s2 = s2
  Sessions = {s1}
  MaxSegment = 9
  InitFirst = FALSE
  MaxBatch = 2
  MaxRecords = 4
  MaxCrashes = 1
INVARIANT AckedDurable
CHECK_DEADLOCK FALSE
