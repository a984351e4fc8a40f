SPECIFICATION Spec
CONSTANTS
  Rules <- SomeRules
  Placements <- SomePlacements
  Lengths = {0, 9}
  MaxOps = 3
INVARIANTS VerdictFollowsRules
CHECK_DEADLOCK FALSE
