CONSTANTS
  a = a
  b = b
  None = None
  Thread = {t1, t2}
  Class = {a, b}
  Spans = {s1, s2}
  NObjects = 2
  Batch = 2
  CacheSize <- MCCacheSize
  MaxCacheSize <- MCMaxCacheSize
  kMaxNumTransferEntries = 2
  HookThreads = {t1, t2}
  Hooks = {h1, h2}
  InitialHook = init
  NoHook = none
  MaxValues = 2
  MaxHookOps = 3
SPECIFICATION Spec
INVARIANTS
  CentralSafe
  HookListsRegular
PROPERTIES
  SomeCallReturns
  EmptyHandedOnlyOnFailure
  HooksReturn
