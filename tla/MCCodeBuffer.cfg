SPECIFICATION Spec
CONSTANTS
  Byte <- MCByte
  Values <- MCValues
  Encode <- MCEncode
  Widths <- MCWidths
  Alignments <- MCAlignments
  InitialSize = 4
  MaxInt = 31
INVARIANTS
  TypeOK
  CleanTail
  WordAlignFits
PROPERTIES
  EmitFailsOnlyNearMaxInt
  ImplementsByteStream
