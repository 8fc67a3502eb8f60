SPECIFICATION Spec
CONSTANTS
  p1 = p1 p2 = p2
  None = None
  Proc = {p1, p2}
  MaxCalls = 3
  MaxMishaps = 2
  MaxDeaths = 2
SYMMETRY Processes
INVARIANTS
  ControlOnce
  ControlTellsTruth
  AttemptsAreNew
CHECK_DEADLOCK FALSE
