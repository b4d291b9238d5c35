CONSTANTS
  NumOfBlock = 2
  BlockSize = 2
  Handle = {h1, h2, h3}
  NULL = NULL
  NumOfPeriods = 2
  Period <- MCPeriod
  ShortHalf = 8
  UIntMod = 64
  Horizon = 6
  ClearsHandle = FALSE
SPECIFICATION Spec
INVARIANTS NoMissedDeadline
