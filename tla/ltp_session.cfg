SPECIFICATION Spec
CONSTANTS
  WordMod = 64
  Capacity = 3
  BlockLen = 13
  RedLen = 11
  CpRtxLimit = 2
  RpRtxLimit = 2
  Lossy <- LossEverything
  MaxLoss = 2
  TimersOutliveAnswers = TRUE
INVARIANTS
  TypeOK
  ClaimsExact
  ReportsReachEnd
  ReportsAccepted
  HandedUp
  NoSilentStop
PROPERTIES
  ImplementsDelivery
CHECK_DEADLOCK FALSE
