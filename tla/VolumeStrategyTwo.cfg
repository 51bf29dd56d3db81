CONSTANTS
  t1 = t1  t2 = t2  s1 = s1
  Threads = {t1, t2}
  MaxOrders = 3
  Stocks = {s1}
  Ruled = {s1}
  Volumes <- TwoVolumes
  MaxManual = 1
  NewestFirst = FALSE
  CanHang = TRUE
  User = User
SYMMETRY ThreadSymmetry
SPECIFICATION Spec
INVARIANTS RowsBacked OncePerThread FollowUpMirrorsFill SalesCovered RevokesOtherLegOnly
