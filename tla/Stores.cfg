CONSTANTS
  ReservationId = {"i1", "i2", "i3"}
  MerchantKey = {"m1", "m2"}
  Scope = {"daily", "broken"}
  WindowsOf <- MCWindows
  Legacy <- MCLegacy
  MaxSafeInteger = 2
  MaxTime = 4
  MaxWait = 1
  PruneMargin = 1
  Mandate = {"single", "double"}
  UseKey = {"k1", "k2", "k3"}
  Digest = {"pay1", "pay2"}
  MaxUses <- MCMaxUses
  Contender = {"c1", "c2"}
  Stale = 3
  Period = 1
  Confirm = 2
  Nap = 1
  Budget = 7
  Jump = 4
  StallLimit = 5
  MutexMaxTime = 10
  MaxRuns = 1
  MaxCrashes = 1
  MaxStalls = 1
  MaxRefusals = 1
  Process = {"g1"}
  Payment = {"p1", "p2"}
  HostOf <- MCHostOf
  RequireHydration = TRUE
  MaxFlips = 3
  MaxFaults = 2
SPECIFICATION MCSpec
INVARIANTS
  CapsHold
  UsesHold
  LockHolds
  FreezesHold
PROPERTIES
  CommittedStaysCounted
  FirstOutcomeWins
  RecordedFreezeStops
  HydrateReturns
CHECK_DEADLOCK FALSE
