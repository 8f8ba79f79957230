SPECIFICATION Spec
CONSTANTS
  Threads = {t1, t2}
  Bitcodes = {good, bad, lacking, unresolvable}
  Malformed = {bad}
  Lacking = {lacking}
  Unresolvable = {unresolvable}
  Archs = {x86, other}
  KnownArchs = {x86}
  FunctionIds = {1, 3}
  MaxCalls = 2
INVARIANTS
  AssertionHolds
CHECK_DEADLOCK FALSE
