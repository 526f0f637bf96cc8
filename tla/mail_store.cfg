SPECIFICATION SumSpec
CONSTANTS
  p2 = p2
  Proc = {p1}
  Msg = {"a", "b", "c"}
  Refs <- RefsOf
  Doc = {1, 2, 3}
  Thread = {t1, t2, t3}
  NoMail = NoMail
  NoThread = NoThread
  MaxRetries = 1
  MaxIds = 6
  IngestsOverlap = FALSE
  Deletes = "alone"
SYMMETRY Symmetry
INVARIANTS
  TagsMatch
  ConversationsHold
PROPERTIES
  TreeHolds
CHECK_DEADLOCK FALSE
