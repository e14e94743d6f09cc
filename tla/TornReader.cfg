CONSTANTS
  LeafData = {"x", "y"}
  MaxLeaves = 4
  MaxPath = 3
  Rows = {"x", "y"}
  MaxRows = 2
  MaxFaults = 2
  ProofsOfTorn = TRUE
  Bodies <- MCBodies
  NoBody = NoBody
  MaxCrashes = 2
  Witnesses = {"w1", "w2", "w3"}
  Checkpoints <- MCCheckpoints
  Note <- MCNote
  Configs <- MCConfigs
  Verifiers <- MCVerifiers
  Threats <- MCThreats
  Times = {0, 1}
  MadeAt = 1
  MaxLines = 3
  None = None
SPECIFICATION MCSpec
INVARIANTS
  HistoryOnlyGrows
CHECK_DEADLOCK FALSE
