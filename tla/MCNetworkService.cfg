SPECIFICATION Spec
CONSTANTS
  Networks = {1, 2}
  Stored = 1
  MaxSessions = 1
  MaxEpoch = 2
  MaxEvents = 1
INVARIANT StationsTrue SnapshotSound
PROPERTY NothingReused RetirementIsCurrent PowerSettles ChangeConcluded
CHECK_DEADLOCK FALSE
