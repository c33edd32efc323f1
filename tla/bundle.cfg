SPECIFICATION FairSpec
CONSTANTS
  Sources = {"a"}
  Dests = {"x", "y"}
  Routed = {"x"}
  BundleSize = 2
  DefaultHeader = 1
  HeaderSize = 2
  TxBuffer = 7
  MaxPacket = 3
  MaxBundles = 3
INVARIANTS
  TypeOK
  NoBundleStuck
PROPERTIES
  ImplementsService
  BundlesArrive
CHECK_DEADLOCK FALSE
