CONSTANTS
  NumOfBlock = 2
  BlockSize = 2
  Handle = {h1, h2, h3}
  NULL = NULL
  NumOfPeriods = 2
  Period <- MCPeriod
  ShortHalf = 3
  UIntMod = 7
  Horizon = 11
  ClearsHandle = FALSE
SPECIFICATION Spec
INVARIANTS ListsMatchObjects SortedByCycle PoolAccounting CycleMeasuresRemaining
PROPERTIES FiresByTheWheel
