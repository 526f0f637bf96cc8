SPECIFICATION SumSpec
CONSTANTS
  Node = {"n", "m"}
  Renewers = {}
  Classes = {"store"}
  Interval <- StoreInterval
  PurgeTime = 1
  LockTtl = 3
  StartFails = FALSE
  MaxTasks = 2
  MaxReloads = 0
  MaxFails = 1
  MaxCrashes = 1
INVARIANTS
  OnePurge
PROPERTIES
  WorkRecurs
  AllReported
  Traced
CHECK_DEADLOCK FALSE
