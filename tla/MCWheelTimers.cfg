CONSTANTS
  Thread = {p, q, r}
  Timer = {t1, t2}
  NULL = NULL
  NumOfWheels = 2
  RefMod = 8
  RereadsWheel = FALSE
  Rearmed = {t2}
  TakeTurns = TRUE
SPECIFICATION FairSpec
INVARIANTS TypeOK ListsAreWhole RefCountIsExact OneRemover
PROPERTIES RemovedIsFreed
CHECK_DEADLOCK FALSE
