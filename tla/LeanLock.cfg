SPECIFICATION FairSpec
CONSTANTS
  Threads = {t1, t2, t3}
  MaxArgs = 2
  MaxCalls = 2
  NoThread = NoThread
INVARIANTS
  LeanIsSerialized
  NoObjectLeaks
PROPERTIES
  PoisonIsFatal
  CallsEnd
CHECK_DEADLOCK FALSE
