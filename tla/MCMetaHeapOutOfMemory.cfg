CONSTANTS
  t1 = t1
  t2 = t2
  Threads <- MCThreads
  NPages = 5
  kPageSize = 8
  METALLOC_PAGESIZE = 4
  METADATABYTES = 1
  Classes = {1}
  ClassSize <- MCClassSize
  ClassPages <- MCClassPages
  LargeLens = {1}
  Aligns = {2}
  CacheSlots = 3
  MetaValues = {0, 1}
SPECIFICATION SpecOutOfMemory
INVARIANT RefusalReturnsNull
