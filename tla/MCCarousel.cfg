CONSTANTS
  Occ <- MCOcc
  NoOcc = NoOcc
  Root <- MCRoot
  Kind <- MCKind
  Parent <- MCParent
  Staged <- MCStaged
  Input <- MCInput
  Deps <- MCDeps
  Eager <- MCEager
  MayFail <- MCMayFail
  Attempt = {a1, a2}
  NoAttempt = NoAttempt
  Target = {0, 1, 2}
SPECIFICATION Spec
INVARIANTS
  CarouselTypeOK
  WindowCountsUnacknowledged
  OneAuthorizedAttempt
  ExposureIsAtomic
  BarrierHolds
PROPERTIES
  PassDoesItsWork
  DecisionsStand
  EveryPassReturns
  KeepsAcknowledgements
CHECK_DEADLOCK FALSE
