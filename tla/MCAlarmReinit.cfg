CONSTANTS
  MaxNumOfTmrCtrl = 2
  Resolution <- MCResolution
  Longest <- MCLongest
  RandMax = 7
  IntMax = 7
  Inits = 2
  Horizon = 12
SPECIFICATION ClockSpec
INVARIANTS NoHalfBuiltController
CHECK_DEADLOCK FALSE
