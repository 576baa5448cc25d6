SPECIFICATION FairSpec

CONSTANTS
  Chunk = 4
  Names = {"clone", "a", "b"}
  Pipelines <- StagePipelines

CONSTRAINT OneOfAKind
CHECK_DEADLOCK FALSE

INVARIANTS
  DependenciesFirst
  RequestsAddUp
  NamespaceIsOwn
  VolumesAsDeclared
  SecretsArrive

PROPERTIES
  NoStepDropped
  ImplementsStage
  CleanupNotBlocked
  CancellationCleansUp
  ExecReturns
