SPECIFICATION FairRunnerSpec

CONSTANTS
  MaxContainers = 2
  MaxPods = 2
  MaxNow = 2
  Second = 2
  Workers = {"w1"}
  Stages = {"s1"}
  NoStage = "none"

CHECK_DEADLOCK FALSE

INVARIANTS
  NeverDeclaredDeadAlive
  ExecutingIsKept

PROPERTIES
  ReturnStopsTasks
  SignalEnds
