CONSTANTS
  kAlignment = 8
  kMinAlign = 16
  kPageSize = 8192
  kMaxSize = 524288
  kMaxSmallSize = 1024
  kNumClasses = 120
  TransferNumObjects = 32768
  kMinPages = 32
  SmMaxPages = 128
SPECIFICATION SizeMapSpec
CHECK_DEADLOCK FALSE
INVARIANT WasteBounded
