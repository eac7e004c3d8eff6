CONSTANTS
  t1 = t1
  t2 = t2
  t3 = t3
  Table = {t1, t2, t3}
  Threads = 2
  BatchCount <- MCBatchCount
  MaxFaults = 2
SPECIFICATION Spec
INVARIANTS TypeOK MarkedIsWhole TargetIsWhole OneUserPerConnection ConnectionsBounded WorkerFinalizesFirst
PROPERTY Ends
CHECK_DEADLOCK FALSE
