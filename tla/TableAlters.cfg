CONSTANTS
  Name <- MCName
  UpdName = "updated_at"
  AlterNames = {"v", "updated_at"}
  KeyName = {"uk"}
  AddedKeys <- MCAddedKeys
  Value <- MCValue
  Blank = 0
  Default = {}
  Source = {0, 1}
  Creates <- AltersCreates
  Hash <- MCHash
  HashOf <- PlaceValue
  MaxRows = 2
  MaxCols = 4
SPECIFICATION Spec
INVARIANTS TypeOK SlotsExact HashExact OneIndexWithRows TempIsWholeRow DataAligned NewestSurvives
CHECK_DEADLOCK FALSE
