SPECIFICATION Spec
CONSTANTS
  Calls <- VectorCalls
  MaxFaults = 0
INVARIANTS EveryEventParsed
CHECK_DEADLOCK FALSE
