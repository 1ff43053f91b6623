SPECIFICATION FairSpec
CONSTANTS
  Home = Home
  Others = {t1}
  BHs = {b1}
  Oneshots = {o1}
  CoBH = CoBH
  NoBH = NoBH
  Coroutines = {k1, k2}
  Scenarios <- MCScenarios
  MaxDepth = 2
INVARIANTS
  ListsConsistent
  SleepsOnlyIfNotified
  CoroutineOnce
PROPERTIES
  WorkRuns
