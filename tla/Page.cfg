CONSTANTS
  fn1 = fn1  fn2 = fn2
  HandlerFns = {fn1, fn2}
  MaxUses = 3
  e1 = e1  e2 = e2
  Animated = {e1, e2}
  MaxItems = 3
  MaxStops = 2
  MaxFrames = 2
  MaxModals = 3
  Pages <- SomePages
  Names = {"a", "b"}
  Queries <- SomeQueries
  Contexts = {0, 1}
  MaxQueries = 2
SYMMETRY Symmetric
SPECIFICATION SceneSpec
INVARIANTS HandlersRunRight OneInProgress TimersRun FadesAsAsked DialogsInPlace FindsSelected
CHECK_DEADLOCK FALSE
