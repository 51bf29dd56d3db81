CONSTANTS
  t1 = t1  t2 = t2  c1 = c1  c2 = c2  a = a  b = b  na = na  x = x
  Threads = {t1, t2}
  Codes = {c1, c2}
  StockNames = {a, b, na}
  IndexNames = {x}
  OriNames = {a, b}
  Absent = Absent
  Hand = Hand
  HandMade <- EmptyOrIndex
  FirstLists <- OneListed
  MaxChanges = 2
SPECIFICATION FairSpec
INVARIANTS OneRowPerThread LogTellsName RenamesFromAName LogsNameTheirStock
PROPERTIES TableFollowsSource
