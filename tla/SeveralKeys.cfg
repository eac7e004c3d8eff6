CONSTANTS
  Name <- MCName
  UpdName = "updated_at"
  AlterNames = {"id", "v"}
  KeyName = {"uk"}
  AddedKeys <- NoKeyClause
  Value <- MCValue
  Blank = 0
  Default = {}
  Source = {0, 1}
  Creates <- SeveralKeysCreates
  Hash <- MCHash
  HashOf <- PlaceValue
  MaxRows = 2
  MaxCols = 4
SPECIFICATION Spec
PROPERTY SeveralKeysAccepted
CHECK_DEADLOCK FALSE
