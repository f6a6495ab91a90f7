SPECIFICATION Spec
CONSTANTS
  Terms <- MCTerms
  Binding <- MCBinding
  PositionCount = 1
  WINDOW_CAP = 8
  U64_MAX = 255
  SegmentCount = 3
  MaxChunk = 2
  Depth = 3
  SummaryDepth = 3
  Width = 3
  SummarySlots = 2
  FamilyCount = 1
  Choices <- MCChoices
  DisputeDeadline = 2
  FirstSlot = 1
  MaxSlot = 8
INVARIANTS
  MovesAccepted
  RecordReadsTrue
  DisputeIsBounded
PROPERTY ImplementsLifecycle
CHECK_DEADLOCK FALSE
