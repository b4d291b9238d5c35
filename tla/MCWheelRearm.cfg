CONSTANTS
  Thread = {p, q, r}
  Timer = {t1, t2}
  NULL = NULL
  NumOfWheels = 2
  RefMod = 8
  RereadsWheel = FALSE
  Rearmed = {t2}
  TakeTurns = FALSE
SPECIFICATION Spec
INVARIANTS UnlinksUnderItsMutex
CHECK_DEADLOCK FALSE
