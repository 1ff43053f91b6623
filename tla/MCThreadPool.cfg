SPECIFICATION FairSpec
CONSTANTS
  Requests = {r1, r2, r3}
  Silent = {r3}
  Workers = {w1, w2}
  None = None
  max_threads = 2
INVARIANTS
  PoolConsistent
  RequestsAccounted
  NoCompletionLost
PROPERTIES
  WorkEnds
