CONSTANTS
  r1 = r1  r2 = r2
  Requests = {r1, r2}
  AjaxSettings <- SomeSettings
  DataTypes = {"text", "json", "script"}
  ConverterSets <- SomeConverters
  MaxExpected = 2
  a = a  b = b  c = c
  JsonpRequests = {a, b, c}
  PageSize = 2
  Records = {0, 3}
  TypedPages <- SomePages
  NaN = NaN
  MaxRequests = 3
SPECIFICATION RequestsSpec
INVARIANTS ActiveCounts ConvertsToExpected JsonpAnswersItsOwn TableInStep
PROPERTIES OutcomeFinal RequestSettles
CHECK_DEADLOCK FALSE
