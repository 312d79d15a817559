CONSTANTS
  Configs <- MCGenerate
  Vocab = 4
  Score <- MCScore
  Tokens <- MCTokens
  PromptLen = 1
  Topk = 1
  Stop = {3}
SPECIFICATION Spec
INVARIANTS
  DecodesSameSequence
CHECK_DEADLOCK FALSE
