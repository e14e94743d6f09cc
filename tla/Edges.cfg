CONSTANTS
  Waiter = {w1, w2, w3}
  Intent = {"i1"}
  Payment = {small, large}
  Delivery = {d1, d2}
  Auth = {iauth}
  ToolCall = {"c1", "c2", "c3", "c4"}
  ToolUseId <- MCToolUseId
  InputOf <- MCInputOf
  IntentOf <- MCIntentOf
  Settler = {s1, s2, s3, s4}
  MaxAuthorizations = 2
  MaxFailures = 1
  Instance = {"host1", "host2"}
  Call = {"a1", "a2", "b1", "b2"}
  Home <- MCHome
  ByConstraint = {"host2"}
  MaxAttempts = 2
  MaxTime = 1
  MaxFaults = 1
  CanonicalMaxDepth = 6
  KeyOrder <- MCKeyOrder
  Intents <- MCIntents
  MaxContainerEntries = 4
  MaxWalkNodes = 8
  Presented <- MCPresented
  Requests <- MCRequests
  MaxNesting = 2
  Typed <- MCTyped
  StructNestingLimit = 2
  ArrayNestingLimit = 1
  MessageNesting = 4
  CheckpointInputs <- MCCheckpoints
  Characters <- MCCharacters
  KeyNames <- MCNames
  MaxSignatureLines = 3
  MaxNoteLength = 26
  NoNote = NoNote
SPECIFICATION MCSpec
INVARIANTS
  ApprovedIsCounted
  SettledAsItRan
  RestartRestoresSettled
  ChainHolds
  EvidenceIsFaithful
  SignedAsPresented
  DigestFixesPayment
  NoteReadsBack
PROPERTIES
  ApprovalsHold
  DeadlineAnswers
  RefinesLog
  AppendReturns
CHECK_DEADLOCK FALSE
