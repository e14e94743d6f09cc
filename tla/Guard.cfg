CONSTANTS
  g1 = g1
  g2 = g2
  a1 = a1
  a2 = a2
  a3 = a3
  x = x
  y = y
  man1 = man1
  man2 = man2
  pay1 = pay1
  pay2 = pay2
  shop = shop
  daily = daily
  Process <- MCProcesses
  Call <- MCCalls
  Workload <- MCWorkloads
  PolicyScope = daily
  MistakenRelease = FALSE
  MaxFaults = 1
  ReservationId <- MCIds
  UseKey <- MCIds
  Scope <- MCScopes
  MerchantKey <- MCMerchants
  WindowsOf <- MCWindows
  MaxSafeInteger = 3
  Legacy = {}
  MaxTime = 0
  MaxWait = 0
  PruneMargin = 0
  Mandate <- MCMandates
  MaxUses <- MCMaxUses
  Digest <- MCDigests
SPECIFICATION GuardSpec
INVARIANTS
  RailIsSafe
  AnswersMatchBooks
PROPERTIES
  UsesStoresAsSpecified
