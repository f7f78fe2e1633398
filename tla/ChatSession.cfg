SPECIFICATION CSpec
CONSTANTS
  alice = alice
  User <- MCUser
  LongMsg <- MCLong
  MaxMsg = 3
  MaxTask = 4
  MaxDisturb = 2
INVARIANTS
  NoPromptWithoutContext
PROPERTIES
  LeftSessionStaysLeft
  
\* The pipeline rests when all messages are dealt with.
CHECK_DEADLOCK FALSE
