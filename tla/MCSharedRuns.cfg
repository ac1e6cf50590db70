CONSTANTS
  Definition <- Definition_
  Key <- Key_
  Pin <- Pin_
  Artifact <- MCArtifact
  NoArtifact = NoArtifact
  DefKey <- MCDefKey
  PinsOf <- MCPinsOf
  Addressed <- MCAddressed
  DefOf <- MCDefOf
  Digest <- MCDigest
  Unit <- MCUnit
  RunId <- MCRunId
  Occurrence <- MCOccurrence
  Entry = {}
  MaxRevision = 0
  MaxRun = 2
  Vessel = {"v1", "v2"}
  Program <- MCProgram
  BodyRefs <- MCBodyRefs
  NoPin = NoPin
  NodeOf <- MCNodeOf
  RequestedId <- MCRequestedId
  NoId = NoId
  NoProgram = NoProgram
  NoRead = NoRead
  MaxPublish = 1
  MaxRebind = 3
SPECIFICATION RunsSpec
INVARIANTS
  RecordMatchesRevision
  LedgerReplaysTree
  NoReentry
  OnlyCyclesFail
  OneRunPerIdentity
PROPERTY EveryStartEnds
CHECK_DEADLOCK FALSE
