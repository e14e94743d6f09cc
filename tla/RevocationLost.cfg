CONSTANTS
  m1 = m1
  m2 = m2
  a1 = a1
  o1 = o1
  o2 = o2
  Operator <- MCOperators
  MaxEpoch = 4
  Mandate <- MCMandates
  Agent <- MCAgents
  Entries = 2
  LostRows = TRUE
  MaxOps = 2
  MaxFaults = 2
  MaxVersion = 0
SPECIFICATION MCSpec
INVARIANTS
  DeadNeverPays
CHECK_DEADLOCK FALSE
