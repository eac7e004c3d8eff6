CONSTANTS
  Name <- MCName
  UpdName = "updated_at"
  AlterNames = {"v"}
  KeyName <- MCKeyName
  AddedKeys <- NoClause
  Value <- MCValue
  Blank = 0
  Default = {}
  Source = {0}
  Creates <- NoClause
  Hash <- MCHash
  HashOf <- OneBucket
  MaxRows = 0
  MaxCols = 5
  SourceCreates <- MCCreates
  SourceNames = {"v", "w"}
  SourceKeys <- MCKeys
  Quote <- MCQuote
  MaxMet = 1
SPECIFICATION TraceSpec
INVARIANTS ColumnsFollow KeysFollow 
CHECK_DEADLOCK FALSE
