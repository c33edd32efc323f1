SPECIFICATION FairSpec
CONSTANTS
  WordMod = 64
  Capacity = 3
  BlockLen = 8
  RedLen = 5
  CpRtxLimit = 4
  RpRtxLimit = 4
  Lossy <- LossData
  MaxLoss = 3
  TimersOutliveAnswers = TRUE
PROPERTIES
  SenderLearns
  AllClose
CHECK_DEADLOCK FALSE
