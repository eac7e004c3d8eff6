CONSTANTS
  Name <- MCName
  UpdName = "updated_at"
  AlterNames = {"v"}
  KeyName = {"uk"}
  AddedKeys <- PrimaryKeyOnly
  Value <- MCValue
  Blank = 0
  Default = {}
  Source = {0, 1}
  Creates <- AllCreates
  Hash <- MCHash
  HashOf <- PlaceValue
  MaxRows = 3
  MaxCols = 4
  StateCount = 3
SPECIFICATION WorkSpec
INVARIANT CsvIsLastLogged
PROPERTY WorkEnds
CHECK_DEADLOCK FALSE
