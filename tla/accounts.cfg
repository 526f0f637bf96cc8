SPECIFICATION SumSpec
CONSTANTS
  u1 = u1
  r1 = r1
  r2 = r2
  g1 = g1
  t1 = t1
  q1 = q1
  NoOne = NoOne
  Node = {n1, n2}
  Doc = {d1}
  Hash = {h1, h2}
  NoEmail = NoEmail
  IndexExpiry = 1
  TrainExpiry = 2
  PurgeExpiry = 1
  MaxSeq = 2
  MaxTime = 1
  Horizon = 9
  Faults = {"index"}
  MaxFaults = 1
  PurgeMeetsIndexer = FALSE
  LocksOutlasted = FALSE
SYMMETRY Symmetry
INVARIANTS
  IndexHolds
  AccountsHold
  ExpressionsHold
CHECK_DEADLOCK FALSE
