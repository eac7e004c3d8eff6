CONSTANTS
  Width = 3
  Values <- MCValues
  Defaults <- MCDefaults
  DQ = "dq"
  Esc = "esc"
  NL = "nl"
  Apos = "apos"
  Comma = "comma"
  Marker = "marker"
  Zero = "zero"
SPECIFICATION Spec
INVARIANTS ArrivesAsWritten NeverOutside RefusedForAReason
CHECK_DEADLOCK FALSE
