SPECIFICATION SpecClasses
CONSTANTS
  Threads = {t1, t2}
  Bitcodes = {good}
  Good = good
  Malformed = {}
  Lacking = {}
  Unresolvable = {}
  Archs = {"x86-64"}
  KnownArchs = {"x86-64"}
  FunctionIds = {1}
  MaxCalls = 6
  MaxUses = 3
INVARIANTS
  ClassesTypeOK
  NeverCrashes
  ReadyIsInjected

  
CHECK_DEADLOCK FALSE
