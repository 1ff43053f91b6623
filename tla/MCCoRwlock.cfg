SPECIFICATION FairSpec
CONSTANTS
  Coroutines = {co1, co2, co3}
  NoCo = NoCo
INVARIANTS
  CountersConsistent
  ForgottenOnlyByDowngrade
PROPERTIES
  WritersServed
  ImplementsRwAccess
CHECK_DEADLOCK FALSE
