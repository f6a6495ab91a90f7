SPECIFICATION FairSpec
CONSTANTS
  a = a
  b = b
  d = d
  e = e
  p = p
  q = q
  Keys <- MCKeys
  Missing = {b}
  MAX_BATCH = 4
  Program = p
  Others = {q}
  Texts = {"plain", "success"}
  Outputs = {0, 1}
  Words = {0, 2, 3, 7}
  WORD = 8
  vocab = 3
INVARIANTS
  EventsOfProgram
CHECK_DEADLOCK FALSE
