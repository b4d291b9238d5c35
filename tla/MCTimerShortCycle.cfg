CONSTANTS
  NumOfBlock = 2
  BlockSize = 2
  Handle = {h1, h2}
  NULL = NULL
  NumOfPeriods = 2
  Period <- MCShortPeriod
  ShortHalf = 2
  UIntMod = 64
  Horizon = 6
  ClearsHandle = FALSE
SPECIFICATION Spec
PROPERTIES FiresOnTime
