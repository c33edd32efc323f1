SPECIFICATION FairSpec
CONSTANTS
  N = 2
  Ends <- OneLink
  Latency <- Three
  TxTimes = {1}
  Tune = 100
  StopTime = 7
  MaxWork = 2
  First = {0}
INVARIANTS
  TypeOK
  GuaranteeHonoured
  NoStraggler
  GuaranteeAhead
PROPERTIES
  AllEnd
CHECK_DEADLOCK FALSE
