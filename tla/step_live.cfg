CONSTANTS
  Steps = {s1}
  Codes = {"exit1", "exit2"}
  Period = 20

SPECIFICATION FairSpec
CONSTRAINT Expected
CHECK_DEADLOCK FALSE

PROPERTIES
  StoppedRunsEnd
  StoppedGoroutinesEnd
  EndedStepsReturn
