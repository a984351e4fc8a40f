SPECIFICATION Spec
CONSTANTS
  Calls <- TableCalls
  MaxFaults = 1
INVARIANTS TypeOK NeverOverruns Understood VectorInOrder LoopsClosed ListFitsBudget
CHECK_DEADLOCK FALSE
