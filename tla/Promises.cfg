CONSTANTS
  fn1 = fn1  fn2 = fn2
  Fns = {fn1, fn2}
  ListOptions <- SomeOptions
  MaxOperations = 5
  p = p  q = q  c1 = c1  c2 = c2
  Roots = {p, q}
  Children = {c1, c2}
  Master = Master
  MaxCalls = 4
  MaxAdoptions = 2
  ReadyFns = {fn1, fn2}
  MaxHolds = 3
  Keys = {"k", "l"}
  Values = {1, 2}
  MaxDataCalls = 6
SPECIFICATION PromisesSpec
INVARIANTS CalledAllInOrder PromisesKept ReadyWhenFree DataKept
PROPERTIES ImplementsPromise
CHECK_DEADLOCK FALSE
