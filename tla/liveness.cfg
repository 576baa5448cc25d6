SPECIFICATION FairSpec

CONSTANTS
  N = 1
  Kind <- PodOnly
  Vanishing = {1}
  Contested = {}
  Recovery = TRUE
  Reconcilers = {r1}
  r1 = r1

CHECK_DEADLOCK FALSE

PROPERTIES
  StoppedTaskEnds
  OrphanEnds
  StoppedPodEnds
