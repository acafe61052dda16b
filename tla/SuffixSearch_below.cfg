SPECIFICATION Spec
CONSTANTS
  Engines = {"cx11", "dc3"}
  MaxText = 3
  MaxPattern = 2
  Texts <- MCTexts
  Patterns <- MCPatterns
  SizeModulus = 65536
INVARIANTS AbsentPatternGivesNothing
CHECK_DEADLOCK FALSE
