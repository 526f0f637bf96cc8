SPECIFICATION LifeSpec
CONSTANTS
  n1 = n1
  n2 = n2
  q1 = q1
  q2 = q2
  q3 = q3
  d1 = d1
  d2 = d2
  r1 = r1
  r2 = r2
  r3 = r3
  Domain = {d1, d2}
  Rcpt = {r1, r2, r3}
  DomainOf <- TwoDomainsOf
  Sender = r3
  RetrySchedule <- Retry1
  NotifySchedule <- Notify11
  ExpireIn = 3
  NotifySlack = 1
  QuotaId = {d1, r1}
  Horizon = 20
  Node = {n1}
  QueueId = {q1}
  NoMessage = NoMessage
  Envelopes <- MixedEnvelopes
  MaxThreads = 1
  LockExpiry = 2
  LockBackoff = 1
  QueueRefresh = 2
  PausedWait = 10
  ShuffleAbove = 5
  Replies = {"Completed", "PermanentFailure"}
  RateDelays = {1}
  SenderDelays = {}
  ApiOps = {}
  RescheduleIn = {0}
  MaxApi = 0
  Faults = {}
  MaxFaults = 0
  MaxTime = 4
  AttemptsOutliveLocks = FALSE
  ManagersLag = FALSE
INVARIANTS
  RetriedOnTime
  QuotaAccounts
  ReportedOnce
  InFlightCount
PROPERTIES
  NoSilentLoss
  FinalStatusStays
CHECK_DEADLOCK FALSE
