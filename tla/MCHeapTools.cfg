CONSTANTS
  n1 = n1
  n2 = n2
  m1 = m1
  m2 = m2
  m3 = m3
  ApiThreads = {n1, n2}
  Blocks = {m1, m2, m3}
  Memory = 14
  Word = 32
  ClassSizes = {2, 4, 8}
  kPageSize = 4
  kMinAlign = 2
  PagesZeroed = TRUE
  AskSizes = {1, 9, 31}
  Aligns = {4, 8}
  Handlers = {"h"}
  Reserve = 4
  ApiMaxCalls = 3
  Thread = {m1, m2, m3}
  None = None
  kMinThreadCacheSize = 2
  kMaxThreadCacheSize = 4
  kStealAmount = 1
  kMaxOverall = 3
  kDefaultOverall = 4
  kTries = 10
  Overalls = {1, 4}
  MemalignFirst = FALSE
  HtStacks = {"user", "library"}
  DepthOfStack <- MCDepths
  HtBuffer = 20
  HtMapsLens = {2, 5, 8, 20}
  HtHead = 3
  HtFrame = 2
  HpThreads = {n1, n2}
  HpPtrs = {n1, n2}
  HpSizes = {1, 3}
  alloc_interval = 4
  free_interval = 3
  inuse_interval = 2
  time_interval = 2
  HpMaxOps = 5
  HpMaxTime = 2
  HlThreads = {"main", "other"}
  MainThread = "main"
  HlPtrs = {n1, n2}
  HlModes = {"", "normal", "minimal", "local"}
  HlMaxOps = 4
  DaThreads = {n1, n2}
  DaSpace = 32
  DaWord = 64
  DaPage = 8
  DaMinAlign = 2
  DaSizes = {0, 2, 62}
  DaAligns = {0, 4}
  DaTypes <- MCTypes
  kFreeQueueSize = 2
  DaEntries = 1
  DaEntrySize = 1
  max_free_queue_size = 12
  DaMaxOps = 4
  kBlockSize = 2
  kClusterBlocks = 2
  AmSpace = 10
  kHashBits = 1
  AmWordBits = 4
  kHashMultiplier = 11
  ALLOC_COUNT = 2
  AmSizes = {0, 1, 6}
  AmMaxObjects = 3
  LrPages = 5
  RmThreads = {n1, n2}
  RmUnits = 4
  RmArenaPage = 3
  RmMaxCalls = 3
  LLThreads = {n1, n2}
  StaticArenas = {"default", "unhooked"}
  NewArenas = {"arena"}
  MemoryUnits = 12
  PageUnits = 4
  ChunkUnits = 4
  MinUnits = 2
  MaxLevel = 3
  Requests = {1, 3}
  MaxBlocks = 3
SPECIFICATION Spec
SYMMETRY Symmetry
CHECK_DEADLOCK FALSE
INVARIANTS
  MallocApiCorrect
  BudgetKept
  
  
  
  
