CONSTANTS
  t1 = t1  s1 = s1  s2 = s2
  Threads = {t1}
  MaxOrders = 4
  Stocks = {s1, s2}
  Ruled = {s1}
  Volumes <- OneVolume
  MaxManual = 1
  NewestFirst = TRUE
  CanHang = FALSE
  User = User
SPECIFICATION RetrySpec
PROPERTIES OtherLegAskedFirst EveryFillFollowedUp TickEnds
