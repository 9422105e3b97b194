CONSTANTS
  Thread = {t1, t2}
  None = None
  kMinThreadCacheSize = 2
  kMaxThreadCacheSize = 4
  kStealAmount = 1
  kMaxOverall = 3
  kDefaultOverall = 4
  kTries = 10
  Overalls = {1, 4}
  MemalignFirst = TRUE
SPECIFICATION BudgetSpec
INVARIANT LockNotReentered
