CONSTANTS
  Name <- MCName
  UpdName = "updated_at"
  AlterNames = {"id", "v"}
  KeyName = {"uk"}
  AddedKeys <- MCAddedKeys
  Value <- MCValue
  Blank = 0
  Default = {}
  Source = {0, 1}
  Creates <- DropKeyCreates
  Hash <- MCHash
  HashOf <- PlaceValue
  MaxRows = 2
  MaxCols = 4
SPECIFICATION Spec
PROPERTY LossOnlyToAKey
CHECK_DEADLOCK FALSE
