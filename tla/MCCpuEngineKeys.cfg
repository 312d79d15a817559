CONSTANTS
  Token = {0, 1}
  Greedy <- MCGreedy
  Requests <- MCRequests
  MaxCtx = 4
  BlockSize = 2
  Slack = 1
  MaxConcurrent = 1
  IndexTopk = 2
SPECIFICATION Spec
INVARIANTS
  SelectorReadsOwnKeys
