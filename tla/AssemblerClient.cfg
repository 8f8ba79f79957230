SPECIFICATION Spec
CONSTANTS
  Longs = {4096, 8192}
  ReturnRegisters = {0, 8}
  SlotSizes = {4, 8, 16}
  MaxOperations = 5
INVARIANTS
  TypeOK
  DecodesAsCommented
  SitesNameCalls
  SlotsFit
CHECK_DEADLOCK FALSE
