SPECIFICATION Spec
CONSTANTS
  Guest = {g1, g2}
  Host = {c1, c2}
  None = None
  Cows = {"copy", "skip"}
  MaxOps = 3
  MaxFaults = 1
SYMMETRY Symmetry
CHECK_DEADLOCK FALSE
INVARIANTS
  CrashSafe
  CopyBeforeLink
  FlushedIsDurable
  CachesConsistent
  CloseIsClean
