SPECIFICATION Spec
CONSTANTS
  Char <- AB
  Cpu = {c1, c2}
  Rules <- OneRule
  Texts <- SomeTexts
INVARIANTS LookupTellsMatch
