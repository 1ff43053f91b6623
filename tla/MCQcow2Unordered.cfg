SPECIFICATION Spec
CONSTANTS
  Guest = {g1, g2}
  Host = {c1, c2}
  None = None
  Cows = {"copy"}
  MaxOps = 2
  MaxFaults = 1
SYMMETRY Symmetry
CHECK_DEADLOCK FALSE
INVARIANT RefcountsFirst
