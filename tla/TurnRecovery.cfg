SPECIFICATION FairSpec
CONSTANTS
  p1 = p1 p2 = p2 c1 = c1 c2 = c2 k1 = k1
  None = None
  Proc <- Processes
  Cmd <- OneCommand
  Call <- OneCall
  Asks <- FirstAsks
  LastRound = 0
  LastAttempt = 1
  MaxMishaps = 2
PROPERTIES
  TurnsEnd
