CONSTANTS
  Occ <- MCOcc
  NoOcc = NoOcc
  Root <- MCRoot
  Kind <- MCKind
  Parent <- MCParent
  Staged <- MCStaged
  Input <- MCInput
  Deps <- MCDeps
  Eager <- MCEager
  Interp <- MCNoPolicies
  MayFail <- MCMayFail
  Outcomes <- MCOutcomes
  Rejected = {}
  Attempt = {own, rival}
  Own = own
  NoAttempt = NoAttempt
  Target = {0, 2}
  Ticks = {0, 1}
  Answers = {"Succeeded"}
  Concurrency = 1
  Withhold = {0}
  MaxAttempts = 1
  MaxSteps = 4
  ReadyMode = FALSE
  Calls = {"Demand", "CancelScope", "SetPrefetch", "Advance", "Rival"}
SPECIFICATION VesselSpec
INVARIANTS
  SettledIsQuiet
  ResultIsRootOutcome
CHECK_DEADLOCK FALSE
