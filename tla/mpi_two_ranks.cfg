SPECIFICATION FairSpec
CONSTANTS
  N = 2
  Delay <- UpDown
  LookAheads <- Varying
  UserBounds = {1}
  Interval = 1
  StartTimes = {0}
  StopTimes = {}
  MaxTime = 99
  Horizon = 3
  MaxNew = 3
  MaxSent = 1
INVARIANTS
  TypeOK
  NoStraggler
  NoneRunsAhead
  NothingLost
PROPERTIES
  Ends
CHECK_DEADLOCK FALSE
