SPECIFICATION Spec
CONSTANT
  MaxDepth = 4
INVARIANTS
  TypeOK
  
  
  NativesGetWhatJavaPasses
