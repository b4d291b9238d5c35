CONSTANTS
  MaxNumOfTmrCtrl = 2
  Resolution <- MCResolution
  Longest <- MCLongest
  RandMax = 7
  IntMax = 7
  Inits = 1
  Horizon = 16
SPECIFICATION ClockFairSpec
INVARIANTS TypeOK NoHalfBuiltController TicksAccounted WheelNotAhead WheelNotBehind
PROPERTIES PassesGoOn
CHECK_DEADLOCK FALSE
