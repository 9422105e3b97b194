CONSTANTS
  NPages = 4
  kMaxPages = 2
  Requests = {1, 3}
  Releases = {}
  HeapLimit = 3
  ReleaseResults = {TRUE, FALSE}
  Modes = {FALSE}
  kDefaultReleaseDelay = 1
  kMaxReleaseDelay = 2
  ReleaseWait = 1
  kForcedCoalesceInterval = 2
  Class = {1, 2}
  ClassSize <- MCClassSize
  Batch <- MCBatch
  kMaxDynamicFreeListLength = 7
  kMaxOverages = 1
  MaxSizes = {3, 20}
  Supply = 8
  kAlignment = 8
  kMinAlign = 16
  kPageSize = 8192
  kMaxSize = 524288
  kMaxSmallSize = 1024
  kNumClasses = 120
  TransferNumObjects = 32768
  kMinPages = 32
  SmMaxPages = 128
  SpinThreads = {t1, t2, t3, t4}
  PmKinds = {"PageMap1", "PageMap2", "PageMap3", "whole", "packed"}
  PmNull = PmNull
  BITS = 5
  ROOT_BITS = 2
  NumberBits = 7
  PmStarts = {6, 28, 29}
  PmLengths = {3}
  PmSpans = {"s1", "s2"}
  PmBudgets = {2, 9}
  PmMaxOps = 2
  PmMaxReads = 1
  kKeybits = 4
  kHashbits = 2
  kValuebits = 1
  NarrowTbits = 4
  WideTbits = 8
  SaWord = 32
  BrkStart = 1
  BrkLimit = 16
  MmapLow = 16
  MmapHigh = 22
  pagesize = 2
  BigPage = 4
  SaSizes = {3, 30}
  SaAlignments = {1, 4}
  AllocIncrement = 2
  kMetadataAllocChunkSize = 5
  SaMaxCalls = 3
  MaxListed = 1
  Classes = {1, 2}
  ByteSize <- MCByteSize
  SpanBytes = 4
  GrowBytes = 16
  PageBytes = 2
  MaxSpanPages = 3
  StatsWord = 64
  Stacks = {"deep", "flat"}
  StackDepth <- MCDepth
  SamplePeriods = {1, 3}
  Slop = 2
  ReleaseSizes = {1, 3}
  HsMaxOps = 4
  MPages = 2
  MPageSize = 4
  MAlignments = {0, 2}
  MSizes = {1, 2}
  FixedSize = 2
  FixedSizes = {1}
  MetaSpace = 24
  MetaPage = 8
  MValues = {"a", "b"}
  MObjectSizes = {2, 5}
  MaxMetaOps = 5
SPECIFICATION Spec
INVARIANTS
  
  CacheListsExact
  SizeClassesExact
  MutualExclusion
  NoLostWakeup
  PageMapExact
  SystemMemoryOwned
  
  
