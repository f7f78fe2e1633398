SPECIFICATION SSpec
CONSTANTS
  alice = alice
  daily = daily
  weekly = weekly
  broken = broken
  User <- MCUser
  Owner = alice
  Content <- MCContent
  BadCron <- MCBad
  MaxSched = 1
  MaxTask = 5
  MaxFire = 2
  MaxOther = 1
  MaxEdit = 2
INVARIANTS
  CronsFollowTable
  WorkIsWaitedFor
  AttemptsDoNotOverlap
PROPERTIES
  RunEndsTold
\* Everything is bounded: the system rests at the end.
CHECK_DEADLOCK FALSE
