SPECIFICATION Spec
CONSTANTS
  t1 = t1
  Transactions = {t1}
  SDKs = {"typescript"}
  MaxRetries = 2
  Timeout = 2
  MaxTime = 3
INVARIANTS
  UnseenIsWaitedFor
