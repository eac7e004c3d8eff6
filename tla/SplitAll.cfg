CONSTANTS
  t1 = t1
  t2 = t2
  db1 = db1
  db2 = db2
  Table = {t1, t2}
  Database = {db1, db2}
  DbOf <- TwoDbs
  Statement <- Statements
  Threads = 2
  FirstLimit = 2
  LaterLimit = 1
  BackLimit = 1
  BatchSize = 2
  ResizeAt = {2}
  MaxQueries = 3
  MaxEvents = 6
  MaxFaults = 2
SPECIFICATION Spec
INVARIANTS WrittenInOrder RowsAccounted NothingLingers
PROPERTIES SequentialSplit Terminates
CHECK_DEADLOCK FALSE
