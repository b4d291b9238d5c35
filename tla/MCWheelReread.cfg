CONSTANTS
  Thread = {p, q}
  Timer = {t1, t2}
  NULL = NULL
  NumOfWheels = 2
  RefMod = 8
  RereadsWheel = TRUE
  Rearmed = {}
  TakeTurns = TRUE
SPECIFICATION Spec
INVARIANTS LocksAWheel
CHECK_DEADLOCK FALSE
