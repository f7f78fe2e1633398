SPECIFICATION RSpec
CONSTANTS
  ApiRetryCount = 1
  MaxFault = 1
  MaxEditFailures = 2
  MaxPiece = 2
  MaxQueued = 1
  MaxUpdate = 2
INVARIANTS
  AnswerIsThere
  AnswerOnce
  NothingLeftBehind
PROPERTIES
  ReplyEnds
\* A reply ends.
CHECK_DEADLOCK FALSE
