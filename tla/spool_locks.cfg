SPECIFICATION Spec
CONSTANTS
  n1 = n1
  n2 = n2
  q1 = q1
  q2 = q2
  q3 = q3
  d1 = d1
  d2 = d2
  r1 = r1
  r2 = r2
  r3 = r3
  Domain = {d1}
  Rcpt = {r1}
  DomainOf <- OneDomainOf
  Sender = r1
  RetrySchedule <- Retry1
  NotifySchedule <- Notify1
  ExpireIn = 2
  NotifySlack = 1
  QuotaId = {d1}
  Horizon = 20
  Node = {n1, n2}
  QueueId = {q1}
  NoMessage = NoMessage
  Envelopes <- PlainEnvelopes
  MaxThreads = 1
  LockExpiry = 2
  LockBackoff = 1
  QueueRefresh = 2
  PausedWait = 10
  ShuffleAbove = 5
  Replies = {"Completed"}
  RateDelays = {}
  SenderDelays = {1}
  ApiOps = {}
  RescheduleIn = {0}
  MaxApi = 0
  Faults = {"lock", "unlock", "scan", "restart", "write", "stop"}
  MaxFaults = 1
  MaxTime = 4
  AttemptsOutliveLocks = FALSE
  ManagersLag = TRUE
SYMMETRY Nodes
INVARIANTS
  NoStrandedMessage
  OneWorkerPerMessage
PROPERTIES
  RemovedStaysRemoved
  NoStaleDelivery
CHECK_DEADLOCK FALSE
