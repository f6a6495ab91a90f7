SPECIFICATION Spec
CONSTANTS
  c1 = c1
  c2 = c2
  ChallengeAddresses = {c1, c2}
  Terms <- MCTerms
  Binding <- MCBinding
  PositionCount = 2
  WINDOW_CAP = 4
  U64_MAX = 9
  MaxBatch = 2
  FirstSlot = 1
  MaxSlot = 9
  MaxOpens = 3
  MaxRounds = 2
SYMMETRY Symmetry
INVARIANTS
  TypeOK
  UsableIsUncontested
  RefutedWasRuled
  OpenChallengesExact
  EscrowBacked
  LamportsConserved
  BondFate
  StoredRecordsDecode
CHECK_DEADLOCK FALSE
