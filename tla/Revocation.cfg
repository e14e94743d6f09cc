CONSTANTS
  m1 = m1
  m2 = m2
  a1 = a1
  o1 = o1
  o2 = o2
  Operator <- MCOperators
  MaxEpoch = 4
  Mandate <- MCMandates
  Agent <- MCAgents
  Entries = 2
  LostRows = FALSE
  MaxOps = 4
  MaxFaults = 1
  MaxVersion = 1
SPECIFICATION MCSpec
INVARIANTS
  ListsHold
  DeadNeverPays
  NeverReinstated
PROPERTIES
  LiftsWhatWasSeen
CONSTRAINT OpsBound
SYMMETRY MandatesAlike
CHECK_DEADLOCK FALSE
