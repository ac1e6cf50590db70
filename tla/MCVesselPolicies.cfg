CONSTANTS
  Occ <- MCOcc
  NoOcc = NoOcc
  Root <- MCRoot
  Kind <- MCKind
  Parent <- MCParent
  Staged <- MCStaged
  Input <- MCInput
  Deps <- MCDeps
  Eager <- MCEager
  Interp <- MCPolicies
  MayFail <- MCMayFail
  Outcomes <- MCOutcomes
  Rejected <- MCRejected
  Attempt = {own, rival}
  Own = own
  NoAttempt = NoAttempt
  Target = {0, 2}
  Ticks = {1}
  Answers = {"Succeeded", "Failed"}
  Concurrency = 2
  Withhold = {0}
  MaxAttempts = 2
  MaxSteps = 6
  ReadyMode = TRUE
  Calls = {"Cancel", "SetPrefetch", "Advance", "Rival"}
SPECIFICATION VesselSpec
INVARIANTS
  WaitsHaveWakeups
  RejectedNeverRuns
  AttemptAccounting
CHECK_DEADLOCK FALSE
