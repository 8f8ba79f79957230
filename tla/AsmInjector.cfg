SPECIFICATION Spec
CONSTANTS
  nativeAdd = nativeAdd
  binaryIntOp = binaryIntOp
  first = first
  second = second
  Methods <- MCMethods
  StaticMethods <- MCStaticMethods
  Functions = {4096, 8192}
  StaticFunctions = {4096}
  Injectors <- MCInjectors
  MaxUses = 1
INVARIANTS
  TypeOK
  RunsItsFunction
  EntryIsPatchable
PROPERTIES
  IsInjectedMethod
CHECK_DEADLOCK FALSE
