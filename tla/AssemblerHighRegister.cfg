SPECIFICATION Spec
CONSTANTS
  Longs = {4096}
  ReturnRegisters = {0}
  SlotSizes = {}
  MaxOperations = 4
INVARIANTS
  EveryCallIsACall
CHECK_DEADLOCK FALSE
