SPECIFICATION FairSpec
CONSTANTS
  p1 = p1 p2 = p2 t1 = t1 t2 = t2 o1 = o1 o2 = o2
  None = None
  Proc <- TwoProcs
  Txn <- TwoTxns
  Op <- NoOps
  MaxFaults = 1
  MaxKills = 1
  MaxOutages = 0
CHECK_DEADLOCK FALSE
INVARIANTS
  ReportsHold
PROPERTIES
  CallsReturn
