CONSTANTS
  Name <- MCName
  UpdName = "updated_at"
  AlterNames = {"v", "updated_at"}
  KeyName = {"uk"}
  AddedKeys <- NoKeyClause
  Value <- MCValue
  Blank = 0
  Default = {}
  Source = {0, 1}
  Creates <- LastWriteCreates
  Hash <- SmallHash
  HashOf <- DigitSum
  MaxRows = 3
  MaxCols = 3
SPECIFICATION Spec
PROPERTY LastWriteWins
CHECK_DEADLOCK FALSE
