SPECIFICATION FairSpec
CONSTANTS
  t1 = t1
  Transactions = {t1}
  SDKs = {"python", "typescript"}
  MaxRetries = 2
  Timeout = 2
  MaxTime = 3
INVARIANTS
  TypeOK
  ConfirmationIsTrue
  GivesUpForAReason
PROPERTIES
  EveryCallEnds
