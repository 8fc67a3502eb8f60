SPECIFICATION Spec
CONSTANTS
  p1 = p1 p2 = p2 t1 = t1 t2 = t2 o1 = o1 o2 = o2
  None = None
  Proc <- TwoProcs
  Txn <- TwoTxns
  Op <- OneOp
  MaxFaults = 1
  MaxKills = 0
  MaxOutages = 1
SYMMETRY Interchangeable
CHECK_DEADLOCK FALSE
INVARIANTS
  NeverFatal
PROPERTIES
  DroppedTailIsKept
  ImplementsLog
