CONSTANTS
  Definition <- Definition_
  Key <- Key_
  Pin <- Pin_
  Artifact <- MCArtifact
  NoArtifact = NoArtifact
  DefKey <- MCDefKey
  PinsOf <- MCPinsOf
  Addressed <- MCAddressed
  DefOf <- MCDefOf
  Digest <- MCDigest
  Unit <- MCUnit
  RunId <- MCRunId
  Occurrence = {r}
  Entry = {e}
  MaxRevision = 3
  MaxRun = 2
SPECIFICATION Spec
INVARIANTS
  TypeOK
  StoreSound
  LedgerIndexed
  RevisionIdentifies
PROPERTY Immutable
CHECK_DEADLOCK FALSE
