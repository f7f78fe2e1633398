SPECIFICATION VSpec
CONSTANTS
  Number <- MCNumber
  FunctionWord <- MCFunctionWord
  Cjk <- MCCjk
  Latin <- MCLatin
  WordList <- MCWordList
  m1 = m1
  m2 = m2
  Memory <- MCMemory
  BatchSize = 1
  MaxVersion = 2
  MaxFault = 3
INVARIANTS
  ReadyIsComplete
PROPERTIES
  EverythingIsIndexed
\* A worker whose child hangs has stopped, until somebody kills the child.
CHECK_DEADLOCK FALSE
