SPECIFICATION LSpec
CONSTANT MaxLine = 3
INVARIANTS
  ResultTellsAll
  NothingAfterTheEnd
  MissingDidNothing
  NoChildLeft
PROPERTIES
  RunIsAnswered
\* A run ends.
CHECK_DEADLOCK FALSE
