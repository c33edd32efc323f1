SPECIFICATION Spec
CONSTANTS
  WordMod = 64
  Capacity = 3
  BlockLen = 5
  RedLen = 5
  CpRtxLimit = 2
  RpRtxLimit = 1
  Lossy <- LossEverything
  MaxLoss = 1
  TimersOutliveAnswers = FALSE
INVARIANTS
  NoTimerAfterClose
  QueueEmptyAfterClose
  NothingStalls
  AckSound
  RedPartIntact
CHECK_DEADLOCK FALSE
