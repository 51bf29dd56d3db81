CONSTANTS
  t1 = t1  t2 = t2  s1 = s1  s2 = s2
  Threads = {t1, t2}
  Stocks = {s1, s2}
  NoStock = NoStock
  LastDay = 2
  MaxCopies = 1
SPECIFICATION FairSpec
INVARIANTS OneRowPerThread RowsAreTraded
PROPERTIES TradesGetRows
