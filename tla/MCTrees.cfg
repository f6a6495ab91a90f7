SPECIFICATION Spec
CONSTANTS
  d1 = d1
  d2 = d2
  v1 = v1
  v2 = v2
  x = x
  y = y
  Descriptors = {d1, d2}
  DOCUMENT = d1
  Values = {v1, v2}
  Digests = {x, y}
  MaxPlaces = 2
  MaxSegments = 3
  MaxEntries = 5
SYMMETRY Alike
INVARIANTS
  AcceptedIffCommitted
  RootBindsLeaves
CHECK_DEADLOCK FALSE
