CONSTANTS
  Rank = {0, 1}
  MaxTiles = 2
  MaxBlocks = 2
  SeqMod = 4
  MaxCalls = 3
SPECIFICATION FairSpec
INVARIANTS
  TypeOK
  ReadsThisCall
  SkewAtMostOne
PROPERTIES
  OverwritesOnlyReadData
  ImplementsAllReduce
  AllCallsComplete
