SPECIFICATION Spec
CONSTANTS
  Sources = {"a", "b"}
  Dests = {"x"}
  Routed = {"x"}
  BundleSize = 2
  DefaultHeader = 1
  HeaderSize = 2
  TxBuffer = 8
  MaxPacket = 2
  MaxBundles = 1
INVARIANTS
  BundlesIntact
CHECK_DEADLOCK FALSE
