SPECIFICATION Spec
CONSTANTS
  p1 = p1 p2 = p2 c1 = c1 c2 = c2 k1 = k1
  None = None
  Proc <- Processes
  Cmd <- TwoCommands
  Call <- OneCall
  Asks <- FirstAsks
  LastRound = 1
  LastAttempt = 1
  MaxMishaps = 1
SYMMETRY Interchangeable
INVARIANTS
  HonestStatus
  EffectOnce
  EffectsAreFenced
  EndedTurnsAreSettled
PROPERTIES
  EndsStand
