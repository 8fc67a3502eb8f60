SPECIFICATION CSpec
CONSTANTS
  runner = runner
  j1 = j1
  j2 = j2
  Operation <- TwoJobs
  Suffix = 4
  InputLimit = 13
  Window = 5
  Reserve = 1
  MaxTurns = 1
  MaxRounds = 1
  MaxCalls = 1
  MaxCommands = 1
  MaxForeign = 1
  MaxFaults = 1
INVARIANTS
  ContextAlwaysPlans
  SummarisedOnce
  CompactionTellsTruth
  CompactionIsIdle
  LaneIsSound
CHECK_DEADLOCK FALSE
