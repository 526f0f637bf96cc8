SPECIFICATION SumSpec
CONSTANTS
  NoMail = NoMail
  Key = {"k"}
  OwnKeys = {"k"}
  Sources = {"c"}
  Sockets = {"w"}
  Slot = {}
  Requests = {}
  MaxPublished = 2
  MaxSets = 0
  MaxTime = 0
  MaxRestarts = 0
  MaxGrants = 0
  MaxErrors = 0
  MaxTotal = 2
  Life = 1
  VerifyTimeout = 0
  Capacity = 1
  Disables = TRUE
  Orderly = FALSE
INVARIANTS
  StaysSubscribed
PROPERTIES
  
  PushTold
  PagesConverge
  TasksEnd
CHECK_DEADLOCK FALSE
