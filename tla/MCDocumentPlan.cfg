SPECIFICATION FairSpec
CONSTANTS
  Terms <- MCTerms
  Binding <- MCBinding
  PositionCount = 30
  WINDOW_CAP = 4
  U64_MAX = 10
  MAX_FAMILIES = 24
  MAX_SEGMENTS = 128
  Options <- MCOptions
  Machines <- MCMachines
  CreateOptions <- MCCreateOptions
  Specs <- MCSpecs
  FamilyBodies <- MCFamilyBodies
  RootCounts = {29, 30, 31}
  BatchSizes = {{}, {0}, {7}, {10}, {40}}
  MaxPlans = 2
  PACKET_BYTES = 1232
INVARIANTS
  LandedAsPlanned
  DocumentAnswersRequest
  DefaultBatchFits
  FamilyBodyIsCanonical
  RequestsReadBack
PROPERTIES
  PlanCompletes
CHECK_DEADLOCK FALSE
