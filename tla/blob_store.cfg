SPECIFICATION Spec
CONSTANTS
  Hash = {h1}
  Doc = {1, 2}
  Qid = {3, 4}
  AllOnes = {4}
  UploadTtl = 1
  QueueTtl = 1
  Retention = 1
  MaxTime = 2
  MaxFailures = 1
INVARIANTS
  LinkedBlobExists
  HeldBlobExists
PROPERTIES
  GarbageCollected
CHECK_DEADLOCK FALSE
