CONSTANTS
  Steps = {s1, s2}
  Codes = {"exit1"}
  Period = 0

SPECIFICATION Spec
CONSTRAINT Undisturbed
SYMMETRY Symmetry
CHECK_DEADLOCK FALSE

PROPERTIES
  ImplementsContract
