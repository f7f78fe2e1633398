SPECIFICATION HSpec
CONSTANTS
  Interval = 2
  Window = 2
  Timeout = 1
  Remind = 5
  MaxTime = 15
  MaxTurn = 2
  MaxFault = 1
  RecentIssueLimit = 2
  DedupeWindow = 2
  MinInterval = 2
  AlertThreshold = 2
  AlertWindow = 6
  AlertCooldown = 8
  Snapshots <- MCSnapshots
  Scope <- MCScope
  Fingerprint <- MCFingerprint
  RetentionDays = 2
  ThrottleTicks = 2
INVARIANTS
  TroubleIsTold
PROPERTIES
  AlertsApart
\* The clock stops.
CHECK_DEADLOCK FALSE
