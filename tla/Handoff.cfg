SPECIFICATION HandoffFair
CONSTANTS
  parent = parent
  child = child
  o1 = o1
  Operation <- OneOther
  MaxTurns = 2
  Asks <- TwoThenOne
  MaxPerTurn = 2
  ProtocolMax = 2
  MaxFaults = 2
INVARIANTS
  DelegatedOnce
  AttachedFromReceipt
  RefusedOnlyBehindRecovery
PROPERTIES
  TurnsEndUnlessAbandoned
