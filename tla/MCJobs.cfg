SPECIFICATION FairSpec
CONSTANTS
  Jobs = {1, 2}
  MaxCommands = 2
  Scenarios <- MCScenarios
CHECK_DEADLOCK FALSE
INVARIANTS
  AssertionsHold
  PausesAccounted
  DrainedJobIsQuiet
  ReferencesExact
  TransactionAtomic
PROPERTIES
  WaitsForJobsEnd
