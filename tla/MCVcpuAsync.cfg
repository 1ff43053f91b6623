SPECIFICATION Spec
CONSTANTS
  CPUs = {c1, c2}
  Main = Main
  None = None
  Scenarios = {{"async", "halt"}}
  SyncCallers = {Main}
  MaxWork = 1
INVARIANTS
  NoSleepOnWork
