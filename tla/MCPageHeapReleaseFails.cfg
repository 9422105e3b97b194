CONSTANTS
  NPages = 4
  kMaxPages = 2
  Requests = {1, 3}
  Releases = {}
  HeapLimit = 0
  ReleaseResults = {TRUE, FALSE}
  Modes = {TRUE}
  kDefaultReleaseDelay = 0
  kMaxReleaseDelay = 0
  ReleaseWait = 0
  kForcedCoalesceInterval = 2
SPECIFICATION PageHeapSpec
INVARIANT CommittedExact
