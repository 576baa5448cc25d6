CONSTANTS
  Steps = {s1}
  Codes = {"exit2"}
  Period = 20

SPECIFICATION FairSpec
CONSTRAINT Undisturbed
CHECK_DEADLOCK FALSE

PROPERTIES
  TerminationIsSeen
