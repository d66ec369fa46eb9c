CONSTANTS
  Readers = {r1}
  Others = {o1}
  PoolSize = 1
  MaxRows = 2
SPECIFICATION PoolSpec
PROPERTIES HistoryReturns
CHECK_DEADLOCK FALSE
