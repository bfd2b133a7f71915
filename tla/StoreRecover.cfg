SPECIFICATION Spec
CONSTANTS
  s1 = s1
  s2 = s2
  Sessions = {s1, s2}
  MaxSegment = 2
  InitFirst = TRUE
  MaxBatch = 2
  MaxRecords = 3
  MaxCrashes = 2
INVARIANT TypeOK
INVARIANT GapFree
INVARIANT IndexCurrent
INVARIANT StateBehindLog
PROPERTY ImplementsDurableLog
SYMMETRY Symmetry
CHECK_DEADLOCK FALSE
