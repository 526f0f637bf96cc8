SPECIFICATION SumSpec
CONSTANTS
  Address = {"a", "l", "r"}
  Local = {"a", "l"}
  List = {"l"}
  Members = {"a", "r"}
  Lmtp = TRUE
  EhloRequire = TRUE
  AuthRequire = FALSE
  AuthErrorsMax = 2
  RcptErrorsMax = 2
  RcptMax = 2
  MaxMessages = 2
  TransferLimit = 9
  Verdicts = {"queue", "reject", "discard"}
  Oversize = FALSE
  Tidy = TRUE
INVARIANTS
  OwnTransaction
  RepliesAgree
  ImapAgrees

  
CHECK_DEADLOCK FALSE
