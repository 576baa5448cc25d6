SPECIFICATION Spec

CONSTANTS
  N = 1
  Kind <- PodOnly
  Vanishing = {1}
  Contested = {1}
  Recovery = TRUE
  Reconcilers = {r1, r2}
  r1 = r1
  r2 = r2

CHECK_DEADLOCK FALSE

INVARIANTS
  DurableIntent
  LiveTaskKept
  RecordReadable
  NoRefusedMerge
  VanishedPodRetained
  LeftoverRecordIsEmpty

PROPERTIES
  ClosedGate
  FactsOnlyGrow
  ImplementsLedger
