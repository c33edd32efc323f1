SPECIFICATION FairSpec
CONSTANTS
  Periods = {1, 2}
  Nodes = {1}
  MaxTime = 3
  MaxMessages = 1
  MaxClicks = 3
INVARIANTS
  TypeOK
  LockKeepsApart
  NeverAhead
  MessagesKept
  PlayingTicks
PROPERTIES
  PauseRests
  QuitEnds
CHECK_DEADLOCK FALSE
