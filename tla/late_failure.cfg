CONSTANTS
  Steps = {s1}
  Codes = {"exit1"}
  Period = 20

SPECIFICATION Spec
CHECK_DEADLOCK FALSE

INVARIANTS
  PlaceholderFailureIsAnError
