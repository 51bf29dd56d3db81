CONSTANTS
  s1 = s1  s2 = s2  s3 = s3  s4 = s4
  Stocks = {s1, s2, s3, s4}
  CorePoolSize = 1
  MaxPoolSize = 2
  QueueCapacity = 1
SPECIFICATION FairSpec
PROPERTIES WaitsForSubTasks
CHECK_DEADLOCK FALSE
