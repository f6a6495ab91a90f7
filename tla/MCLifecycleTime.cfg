SPECIFICATION FairSpec
CONSTANTS
  c1 = c1
  c2 = c2
  ChallengeAddresses = {c1, c2}
  Terms <- MCCustomTerms
  Binding <- MCBinding
  PositionCount = 2
  WINDOW_CAP = 4
  U64_MAX = 8
  MaxBatch = 2
  FirstSlot = 1
  MaxSlot = 8
  MaxOpens = 2
  MaxRounds = 1
PROPERTIES
  AnswerIsStable
  RetentionHonoured
  ChangesAreDeclared
  PromiseKept
  ChallengesEnd
  FinalizedIsDecided
  ClosedIsRetired
CHECK_DEADLOCK FALSE
