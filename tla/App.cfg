SPECIFICATION FairSpec
CONSTANTS
  g0 = g0
  g1 = g1
  work = work
  m0 = m0
  m1 = m1
  None = None
  Generation = {g0, g1}
  Lease <- MCLease
  Stream = {s}
  User = {turn}
  Turn = turn
  Work = work
  Initial = g0
  Session = {s1, s2}
  FirstSession = s1
  Mode = {restricted, auto}
  FirstMode = auto
  AutoMode = auto
  Model = {m0, m1}
  ModelsOf <- MCModelsOf
  DefaultOf <- MCDefaultOf
  Capacity = 1
  MaxCommands = 3
  MaxPrompts = 2
  MaxIncidents = 1
INVARIANTS SecretsMatchUse OperationKeepsItsRuntime AnswersTheRightRequest SettingsFollowSession
PROPERTIES StoppedOperationsEnd
CHECK_DEADLOCK FALSE
