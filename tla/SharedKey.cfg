CONSTANTS
  LeafData = {"x", "y"}
  MaxLeaves = 4
  MaxPath = 3
  Rows = {"x", "y"}
  MaxRows = 2
  MaxFaults = 2
  ProofsOfTorn = FALSE
  Bodies <- MCBodies
  NoBody = NoBody
  MaxCrashes = 2
  Witnesses = {"w1", "w2", "w3"}
  Checkpoints <- MCCheckpoints
  Note <- MCNote
  Configs <- MCBridged
  Verifiers <- MCVerifiers
  Threats <- MCThreats
  Times = {0, 1}
  MadeAt = 1
  MaxLines = 3
  None = None
SPECIFICATION MCSpec
INVARIANTS
  QuorumCountsParties
CHECK_DEADLOCK FALSE
