SPECIFICATION Spec
CONSTANTS
  t1 = t1
  t2 = t2
  t3 = t3
  app = app
  other = other
  Threads <- MCThreads
  Loaders <- MCLoaders
  LoaderOf <- MCLoaderOf
  Chunks = 2
  MaxCalls = 4
  MaxFiles = 4
INVARIANTS
  TypeOK
  LoadsWholeLibraryOnce
  LoadersDoNotShareFiles
  ApiIsBacked
PROPERTIES
  IsOnceCell
  NamesAreFresh
  CallsEnd
CHECK_DEADLOCK FALSE
