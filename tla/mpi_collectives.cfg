SPECIFICATION Spec
CONSTANTS
  N = 2
  Delay <- UpDown
  LookAheads <- Exact
  UserBounds = {}
  Interval = 9
  StartTimes = {0}
  StopTimes = {2}
  MaxTime = 99
  Horizon = 3
  MaxNew = 2
  MaxSent = 1
INVARIANTS
  TasksSynchronise
CHECK_DEADLOCK FALSE
