CONSTANTS
  ReservationId = {"i1"}
  MerchantKey = {"m1"}
  Scope = {"broken"}
  WindowsOf <- MCWindows
  Legacy = {}
  MaxSafeInteger = 2
  MaxTime = 1
  MaxWait = 1
  PruneMargin = 1
  Mandate = {"single"}
  UseKey = {"k1"}
  Digest = {"pay1"}
  MaxUses <- MCMaxUses
  Contender = {"c1", "c2", "c3"}
  Stale = 3
  Period = 1
  Confirm = 2
  Nap = 1
  Budget = 7
  Jump = 0
  StallLimit = 5
  MutexMaxTime = 8
  MaxRuns = 1
  MaxCrashes = 1
  MaxStalls = 0
  MaxRefusals = 0
  Process = {"g1"}
  Payment = {"p1"}
  HostOf <- MCHostOf
  RequireHydration = TRUE
  MaxFlips = 1
  MaxFaults = 0
SPECIFICATION MCSpec
INVARIANTS
  MutualExclusion
CHECK_DEADLOCK FALSE
