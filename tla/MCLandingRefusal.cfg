SPECIFICATION Spec
CONSTANTS
  r1 = r1
  r2 = r2
  ZERO = ZERO
  SDKs = {"typescript"}
  PositionRoots = {r1, r2}
  PositionCount = 7
  MaxBatch = 3
  PEAK_SLOTS = 3
  COUNT_MAX = 7
PROPERTIES
  RefusalChangesNothing
CHECK_DEADLOCK TRUE
