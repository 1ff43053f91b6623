SPECIFICATION Spec
CONSTANTS
  Coroutines = {co1, co2, co3}
  NoCo = NoCo
INVARIANTS
  NoForgottenWaiter
