SPECIFICATION FairSpec
CONSTANTS
  Threads = {c, r1}
  LongSizes = {4, 8}
  UIntRange = 4
  MaxGp = 5
  MaxDepth = 2
  CallThread = c
  Nodes = {x1, x2}
  Dummy = Dummy
  NULL = NULL
INVARIANTS
  GracePeriod
  CallbackAfterGracePeriod
  QueueConsistent
PROPERTIES
  GracePeriodsEnd
