SPECIFICATION Spec
CONSTANTS
  nativeAdd = nativeAdd
  binaryIntOp = binaryIntOp
  first = first
  second = second
  Methods = {nativeAdd}
  StaticMethods = {nativeAdd}
  Functions = {4096, 8192}
  StaticFunctions = {4096, 8192}
  Injectors = {first}
  MaxUses = 7

  
  
PROPERTIES
  ThrowLeavesPrologue
CHECK_DEADLOCK FALSE
