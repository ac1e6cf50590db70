CONSTANTS
  Occ <- MCOcc
  NoOcc = NoOcc
  Root <- MCRoot
  Kind <- MCKind
  Parent <- MCParent
  Staged <- MCStaged
  Input <- MCInput
  Deps <- MCDeps
  Eager <- MCEager
  Interp <- MCNoPolicies
  MayFail <- MCMayFail
  Outcomes <- MCOutcomes
  Rejected = {}
  Attempt = {own}
  Own = own
  NoAttempt = NoAttempt
  Target = {0, 1}
  Ticks = {1}
  Answers = {"Succeeded", "Failed"}
  Concurrency = 2
  Withhold = {0, 1}
  MaxAttempts = 2
  MaxSteps = 100
  ReadyMode = TRUE
  Calls = {}
SPECIFICATION VesselSpec
INVARIANTS
  VesselTypeOK
  Precedence
  AttemptAccounting
  SettledAttemptsAreCancelled
  OutcomeRules
  StableBeforeTime
PROPERTIES
  DeferredUntilReady
  KeepsVoyage
  RunEnds
CHECK_DEADLOCK FALSE
