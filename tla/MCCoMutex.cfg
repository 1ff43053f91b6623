SPECIFICATION FairSpec
CONSTANTS
  Coroutines = {co1, co2, co3}
  NoCo = NoCo
  MaxSequence = 2
INVARIANTS
  MutexConsistent
PROPERTIES
  ImplementsLock
  WaiterGetsLock
