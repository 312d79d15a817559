CONSTANTS
  Configs <- MCConfigs
  Vocab = 4
  Score <- MCScore
  Tokens <- MCTokens
  PromptLen = 1
  Topk = 1
  Stop = {3}
SPECIFICATION FairSpec
INVARIANTS
  TypeOK
  TransfersMatch
  AttendsAsSerial
  StageInLockstep
  HeadsAgree
PROPERTIES
  PassesEnd
CHECK_DEADLOCK FALSE
