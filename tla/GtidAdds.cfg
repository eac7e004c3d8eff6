CONSTANTS
  Uuid = {a, b}
  Texts <- MCTexts
  Top = 7
  MaxCalls = 4
SPECIFICATION Spec
INVARIANTS TypeOK TellsWhatWasGiven ListInOrder PlaceIsRight ContainedIsSubset
PROPERTIES AddTellsNew AddEnds
CHECK_DEADLOCK FALSE
