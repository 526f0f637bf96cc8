SPECIFICATION Spec
CONSTANTS
  d1 = d1
  r1 = r1
  r2 = r2
  r3 = r3
  h1 = h1
  h2 = h2
  h3 = h3
  Domain = {d1}
  Rcpt = {r1, r2, r3}
  DomainOf <- OneDomainOf
  Sender = r2
  RetrySchedule <- Retry1
  NotifySchedule <- Notify1
  ExpireIn = 3
  NotifySlack = 1
  QuotaId = {d1}
  Horizon = 20
  Target = d1
  Now = 1
  Starts <- MCStarts
  Replies = {"Completed", "TemporaryFailure", "PermanentFailure"}
  RateDelays = {2}
  Host = {h1, h2, h3}
  Relay = h3
  Implicit = h3
  MxLists <- MCMxLists
  MaxMx = 2
  MaxMultihomed = 2
  Policies <- MCPolicies
  NoPolicy = NoPolicy
  NoHost = NoHost
  Confs <- MCConfs
INVARIANTS
  RequirementsMet
  PeerChecked
  AuthorizedHost
PROPERTIES
  AttemptSpec
  AttemptEnds
CHECK_DEADLOCK FALSE
