SPECIFICATION Spec
CONSTANTS
  WordMod = 64
  Capacity = 2
  BlockSize = 7
  AnySize = 5
  MaxLen = 13
INVARIANTS
  NothingInvented
  NothingForgotten
  MissingIsTheRest
  BlockIsTiled
  GapIsFilledAndReported
CHECK_DEADLOCK FALSE
