CONSTANTS
  None = None
  Aliases <- MCAliases
  Intents <- MCIntents
  Policies <- MCPolicies
  Spellings <- MCSpellings
  Patterns <- MCPatterns
  Spent <- MCSpent
  MaxEdits = 2
  EdKey = {"ed1", "ed2"}
  PqKey = {"pq1"}
  Scopes <- MCScopes
  Foreign <- MCForeign
  RiskIntents <- MCRiskIntents
  RiskConfigs <- MCRiskConfigs
  PerDay = 5
  Day = 4
  Hours = {1, 2}
  MaxClock = 4
  MaxRows = 3
  MaxAssessed = 1
  Deployments <- MCDeployments
  Answers <- MCAnswers
  Rules <- MCRules
  EvmChains = {"base", "8453"}
  RoleNames = {"merchant"}
  Caller = {c1, c2}
  Remote = {c2}
  TypedData <- MCTypedData
  Declarations <- MCDeclarations
  Wallet = "0xw"
  Collectors = {"collector"}
  Spenders = {"0xs"}
  Registry <- MCRegistry
  MinorDecimals = 0
  MaxMinor = 5
  MaxValidity = 4
  Now = 1
  SignerPolicy <- MCSignerPolicy
SPECIFICATION MCSpec
INVARIANTS
  AssessmentHolds
  SignaturesHold
  PaidAsJudged
  SignedAsJudged
PROPERTIES
  TighteningNeverLoosens
  SpellingDoesNotMatter
CHECK_DEADLOCK FALSE
