SPECIFICATION FairSpec
CONSTANTS
  CPUs = {c1, c2}
  Main = Main
  None = None
  Scenarios = {
    {"sync", "unplug", "halt"}, {"sync", "mmio", "atomic"},
    {"pause", "unplug", "stop_current", "mmio", "atomic"},
    {"pause", "unplug", "halt", "debug"}, {"interrupt", "halt", "reset"},
    {"flush"}, {"safe", "mmio"}, {"async"}}
  SyncCallers = {Main}
  MaxWork = 1
INVARIANTS
  MachineConsistent
  KicksHonoured
  PausedMeansStopped
PROPERTIES
  NoGuestCodeBeforeWork
  MainCallsReturn
