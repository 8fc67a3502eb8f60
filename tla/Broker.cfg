SPECIFICATION FairSpec
CONSTANTS
  c1 = c1 snapshotCommand = snapshotCommand
  Client <- OneClient
  PureCommand <- OneCommand
  Operation = Operation
  None = None
  Capacity = 2
  MaxCommits = 3
  MaxSize = 2
  MaxIncidents = 1
INVARIANTS
  NoGap
PROPERTIES
  EventsArrive
CHECK_DEADLOCK FALSE
