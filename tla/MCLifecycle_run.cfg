SPECIFICATION Spec
CONSTANTS
  MaxProbes = 3
  MaxPoints = 3
INVARIANTS LinksFollowRun FailuresExplained
PROPERTIES ModuleEndEndsRun InterruptEndsRun FaultIsFailure
CHECK_DEADLOCK FALSE
