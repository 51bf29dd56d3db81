CONSTANTS
  t1 = t1  t2 = t2
  Threads = {t1, t2}
  Rows <- ThreeRows
  TaskOf <- ThreeTasks
  KnownTasks <- OneKnown
  QuietTasks = {}
  MaxRuns = 2
SPECIFICATION Spec
INVARIANTS LatestRunShown
