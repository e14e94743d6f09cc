CONSTANTS
  m1 = m1
  k1 = k1
  k2 = k2
  p1 = p1
  p2 = p2
  c1 = c1
  c2 = c2
  c3 = c3
  Mandate = {m1}
  UseKey = {k1, k2}
  Instance = {p1, p2}
  Call = {c1, c2, c3}
  Digest = {"d1", "d2"}
  MaxUses <- MCMaxUses
  KeyMandates <- MCKeyMandates
  RegisterLate = FALSE
  MaxFailures = 2
SPECIFICATION MCSpec
INVARIANTS
  RestartForgetsNothing
  ReplayTellsTruth
CHECK_DEADLOCK FALSE
