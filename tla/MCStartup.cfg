CONSTANTS
  N = 2
  L = 4
  Rows = 3
  Threads = 2
  Ahead = 1
  EvictLag = 1
  Serial = TRUE
  Prefault = TRUE
SPECIFICATION FairSpec
INVARIANTS
  TypeOK
  
  OneRankParses
  WindowBounded
  DeviceHoldsLayers
  
PROPERTIES
  EvictsOnlyUploaded
  AllServe
CHECK_DEADLOCK FALSE
