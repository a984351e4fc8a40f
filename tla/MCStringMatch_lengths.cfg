SPECIFICATION Spec
CONSTANTS
  Char <- AB
  Cpu = {c1, c2}
  Rules <- CloseRules
  Texts <- SomeTexts
INVARIANT NoLeak
PROPERTY FalseMatchesExplained
