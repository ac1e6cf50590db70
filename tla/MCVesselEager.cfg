CONSTANTS
  Occ <- MCOcc
  NoOcc = NoOcc
  Root <- MCRoot
  Kind <- MCKind
  Parent <- MCParent
  Staged <- MCStaged
  Input <- MCInput
  Deps <- MCDeps
  Eager <- MCEager
  Interp <- MCNoPolicies
  MayFail <- MCMayFail
  Outcomes <- MCOutcomes
  Rejected = {}
  Attempt = {own}
  Own = own
  NoAttempt = NoAttempt
  Target = {1, 2}
  Ticks = {1}
  Answers = {"Succeeded"}
  Concurrency = 2
  Withhold = {0}
  MaxAttempts = 1
  MaxSteps = 100
  ReadyMode = TRUE
  Calls = {}
SPECIFICATION VesselSpec
PROPERTIES
  SpeculationEndsNoRun
CHECK_DEADLOCK FALSE
