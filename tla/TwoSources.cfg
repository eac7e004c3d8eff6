CONSTANTS
  Table <- MCTable
  Database = {"d", "e"}
  DbOf <- MCDbOf
  Stems <- MCStems
  Garbage = {0, 1, 3}
  MaxEvents <- MCMaxEvents
  MaxCrashes = 1
SPECIFICATION Spec
INVARIANTS EveryRowRead FailsUncounted ReadAtItsVersion NoneComesBack ReadInOrder
CHECK_DEADLOCK FALSE
