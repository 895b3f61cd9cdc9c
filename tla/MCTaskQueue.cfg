SPECIFICATION FairSpec
CONSTANTS
  t1 = t1
  t2 = t2
  t3 = t3
  t4 = t4
  Task <- MCTask
  TaskOrder <- MCOrder
  Script <- MCScript
  None = None
  Outcomes = {"success", "failure", "signal"}
  SeparateErrors = TRUE
  SpawnMayFail = TRUE
  PipeSize = 2
  NumberOfParallelTasks = 3
\* The queue is executed once.
CHECK_DEADLOCK FALSE
INVARIANTS
  OutputComplete
  AllReported
PROPERTY
  ExecuteReturns
