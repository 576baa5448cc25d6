SPECIFICATION FairSpec

CONSTANTS
  N = 3
  Kind <- NamespaceSecretPod
  Vanishing = {3}
  Contested = {2}
  Recovery = FALSE
  Reconcilers = {}

CHECK_DEADLOCK FALSE

INVARIANTS
  NothingForgotten

PROPERTIES
  ForeignUntouched
  StoppedTaskEnds
  StoppedPodEnds
