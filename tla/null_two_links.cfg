SPECIFICATION Spec
CONSTANTS
  N = 2
  Ends <- TwoLinks
  Latency <- ThreeThree
  TxTimes = {1,2}
  Tune = 100
  StopTime = 4
  MaxWork = 2
  First = {1}
INVARIANTS
  GuaranteeHonoured
CHECK_DEADLOCK FALSE
