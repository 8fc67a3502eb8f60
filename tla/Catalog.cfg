SPECIFICATION CatalogSpec
CONSTANTS
  a1 = a1 a2 = a2 b1 = b1 p1 = p1 p2 = p2 s1 = s1
  root = root child = child
  Nil = Nil
  Actor = {a1, a2, b1}
  Home <- TwoProcesses
  Identity = {s1}
  Terms = {root, child}
  ParentOf <- Parents
  MaxLineage = 1
  MaxCalls = 3
  MaxMishaps = 1
  MaxOutages = 1
SYMMETRY Goroutines
INVARIANTS
  NoHalfSession
  OneSessionPerIdentity
  PublishedIsDurable
  CallsDoNotDisturb
CHECK_DEADLOCK FALSE
