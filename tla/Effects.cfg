SPECIFICATION EffectsSpec
CONSTANTS
  c1 = c1
  c2 = c2
  c3 = c3
  p1 = p1
  p2 = p2
  None = None
  Call <- MCCall
  Process <- MCProcess
  ProcessOf <- MCProcessOf
  MaxWrites = 1
  MaxIncidents = 1
SYMMETRY CallsOfOneProcess
INVARIANTS StaleVersionSurvives HonestOutcome
PROPERTIES RevokedNeverRuns
CHECK_DEADLOCK FALSE
