SPECIFICATION FairSpec
CONSTANTS
  CPUs = {c1, c2, c3}
  NoCpu = NoCpu
  MaxCpuIndex = 3
INVARIANTS
  ExclusiveSection
  NoLostWakeup
  UniqueIndex
PROPERTIES
  ImplementsAccess
  WaitsEnd
