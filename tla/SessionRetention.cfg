\* Two users, so that one can stay bound to the oldest session while another
\* session expires unbound; a batch of one.
SPECIFICATION RSpec
CONSTANTS
  User = {alice, bob}
  MaxSession = 3
  BatchLimit = 1
  MaxFault = 1
INVARIANTS
  BigWalIsRemembered
PROPERTIES
  SparesBoundAndRunning
  ExpiredIsCollected
\* With MaxSession sessions opened and the state file cut off, every round is skipped.
CHECK_DEADLOCK FALSE
