SPECIFICATION Spec
CONSTANTS
  a1 = a1 a2 = a2 b1 = b1 p1 = p1 p2 = p2 e1 = e1 e2 = e2 x = x
  None = None
  Actor = {a1, a2, b1}
  Home <- TwoProcesses
  User <- OneEvidenceStore
  Id = {e1, e2}
  ContentOf <- OneContent
  MaxCalls = 3
  MaxMishaps = 1
  MaxOutages = 1
SYMMETRY Goroutines
INVARIANTS
  PromisesSurvive
  NothingDangles
PROPERTIES
  NothingReplaced
CHECK_DEADLOCK FALSE
