CONSTANTS
  Rank = {0, 1}
  MaxTiles = 1
  MaxBlocks = 1
  SeqMod = 4
  MaxCalls = 5
SPECIFICATION Spec
INVARIANT ReadsThisCall
