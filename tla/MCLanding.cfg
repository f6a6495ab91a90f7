SPECIFICATION Spec
CONSTANTS
  r1 = r1
  r2 = r2
  ZERO = ZERO
  SDKs = {"python", "typescript"}
  PositionRoots = {r1, r2}
  PositionCount = 7
  MaxBatch = 3
  PEAK_SLOTS = 3
  COUNT_MAX = 7
INVARIANTS
  TypeOK
  FrontierMatchesTable
  LandedIsAccepted
PROPERTIES
  PythonRefusalChangesNothing
CHECK_DEADLOCK TRUE
