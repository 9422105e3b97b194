CONSTANTS
  NPages = 4
  kMaxPages = 2
  Requests = {1, 3}
  Releases = {2}
  HeapLimit = 3
  ReleaseResults = {TRUE}
  Modes = {FALSE, TRUE}
  kDefaultReleaseDelay = 1
  kMaxReleaseDelay = 2
  ReleaseWait = 1
  kForcedCoalesceInterval = 2
SPECIFICATION PageHeapSpec
INVARIANTS
  SpansCoherent
  CommittedExact
PROPERTIES
  
  ImplementsAllocator
  CallsReturn
