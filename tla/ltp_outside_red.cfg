SPECIFICATION Spec
CONSTANTS
  WordMod = 64
  Capacity = 3
  BlockLen = 5
  RedLen = 5
  CpRtxLimit = 2
  RpRtxLimit = 2
  Lossy <- LossEverything
  MaxLoss = 2
  TimersOutliveAnswers = TRUE
INVARIANTS
  MissingWithinRed
CHECK_DEADLOCK FALSE
