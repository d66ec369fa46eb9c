CONSTANTS
  Readers = {r1, r2}
  Others = {o1}
  PoolSize = 3
  MaxRows = 2
SPECIFICATION PoolSpec
INVARIANTS NeverStuck
PROPERTIES HistoryReturns
