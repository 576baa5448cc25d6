SPECIFICATION Spec

CONSTANTS
  N = 2
  Kind <- NamespacePod
  Vanishing = {2}
  Contested = {}
  Recovery = TRUE
  Reconcilers = {r1}
  r1 = r1

CHECK_DEADLOCK FALSE

INVARIANTS
  NamespaceLast
  IInv
