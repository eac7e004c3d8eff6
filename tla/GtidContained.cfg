CONSTANTS
  Uuid = {a, b}
  Texts <- MCTexts
  Top = 7
  MaxCalls = 3
SPECIFICATION Spec
INVARIANT ContainedAsDocumented
CHECK_DEADLOCK FALSE
