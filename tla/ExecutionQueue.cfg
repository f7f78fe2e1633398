SPECIFICATION Spec
CONSTANTS
  alice = alice
  bob = bob
  User <- MCUser
  MaxTask = 4
INVARIANTS
  IdleIsAnswered
  OneUnabortedRun
PROPERTIES
  AbortIsAnswered
  ImplementsService
\* The queue stops when all MaxTask tasks are done.
CHECK_DEADLOCK FALSE
