CONSTANTS
  Reduced = 12
  Kern = 22
  MmapBase = 20
  TablePage = 14
  WordsPerPage = 16
  StackPages = 2
  MapsSizes = {7, 9, 10, 11, 30}
  BinaryMaps <- MCBinaryMaps
  Libs = {"libc", "ld"}
  LibSize <- MCLibSize
  LibAlign <- MCLibSize
  PrelinkBase = 10
  HighLayouts <- MCHighLayouts
  Args = {1, 2}
  Envs = {0, 1}
  MaxProgramMaps = 2
  MmapThreads = {t1, t2}
  MmapMain = t1
  BrkPages = 3
  MapPages = 3
  PageBytes = 2
  Lengths = {0, 1, 2, 4}
  Increments <- MCIncrements
  MaxRefusals = 1
  MmapMaxCalls = 3
  PTR_BITS = 2
  WORD_BITS = 4
  AndMasks = {3, 4, 8, 11, 12, 14}
  TruncWidths = {2, 3}
  MaxLength = 4
  FatPasses = {"MidFatPtrs", "MaskPointers"}
  WIDTH = 3
  ObjectSize = 3
  GepRanges = {{1}, {7}, {0, 1, 2}, {6, 7, 0}}
  AccessSizes = {1, 2}
  MaxCode = 4
  Globals = {"a", "b", "llvm.used"}
  Skipped = {"llvm.used"}
  GlobalSize = {1, 16}
  Strings = 2
  CpThreads = {"t1", "t2"}
  MainThread = "t1"
  Traces = {"flat", "deep"}
  DepthOf <- MCDepth
  kAssociativity = 1
  kBufferLength = 8
  MaxCalls = 3
  MaxTicks = 2
  MaxEvents = 4
  MaxTid = 4
  MaxStarts = 2
  TlThreads = {1, 3}
  Caller = 1
  BatchSize = 2
  DirLinks = 0
  Slack = 0
  Unattachable = {4}
  WpThreads = {"t1", "t2"}
  Modules = {"crt", "dll", "late"}
  HasLibc = {"crt", "dll", "late"}
  SameNew = {"dll"}
  Slots <- MCSlots
  WpMaxOps = 2
  Targets = {"main", "other", "thunk", "remote"}
  EntryOf <- MCEntry
  Bodies <- MCBodies
  CodeOf <- MCCode
  Studied = "main"
  Replacements = {500, 3000}
  Granularity = 128
  PpPageBytes = 96
  StubSize = 32
  NearMax = 400
  ShortMax = 16
  Occupied = {3, 4, 6, 8, 9, 11}
  LastGranule = 15
  PpMaxOps = 3
  kBufSize = 21
  SiFiles <- MCFiles
  SiReads = {1, 7, 30}
  FillSizes = {5, 9, 60}
  FormatHead = 3
  Pids = {"p1", "p2", "p3"}
  MdPrefixes <- MCPrefixes
  RexPrefixes <- MCRex
  MaxActivations = 2
  FirstAddress = 10
  FrameSizes = {2, 6}
  StrictMax = 4
  LaxMax = 10
  Readable = 28
  DEPTH = 4
  kStackLength = 4
  Limits <- MCLimits
  VsyscallCodes <- MCVsyscall
SPECIFICATION Spec
CHECK_DEADLOCK FALSE
INVARIANTS
  StartsInReducedSpace
  HooksTrackMappings
  
  CpuProfileExact
  NobodyLeftStopped
  
  
PROPERTY
  NoPageClobbered
