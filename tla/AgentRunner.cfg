SPECIFICATION ASpec
CONSTANTS
  Req = {r1, r2}
  Threshold = 2
  FallbackToLocal = TRUE
  MaxFault = 1
INVARIANTS
  OpensOnStreak
  OneChildAtWork
  NoWorkForTheGone
PROPERTIES
  LaneMoves
  CallsEnd
\* Calls whose connection was quietly closed hang: when all do, nothing is left
\* to happen.
CHECK_DEADLOCK FALSE
