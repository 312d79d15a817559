CONSTANTS
  Token = {0, 1}
  Greedy <- MCGreedy
  Requests <- MCRequests
  MaxCtx = 5
  Chunk0 = 2
  Step = 1
  GroupMax = 3
  PrefixReuse = TRUE
  Adaptive = TRUE
  NgramMin = 2
  Evidence = 2
SPECIFICATION MFairSpec
INVARIANTS
  TypeOK
  CommittedResident
  CacheFollowsStream
  EmittedGreedy
  DeviceChecksHold
  DraftCacheInStep
PROPERTIES
  DraftedSlotStays
  ImplementsGpuEngine
  ImplementsService
  Served
