SPECIFICATION Spec
CONSTANTS
  w1 = w1
  w2 = w2
  Jobs = {1}
  Workers = {w1, w2}
  QueueCap = 2
  MaxRetry = 1
  AlarmResults = {"ALARM_FAIL"}
  MaxFires = 2
  MaxLogs = 4
  MaxFails = 0
  MayLose = TRUE
  MayDelete = FALSE
SYMMETRY WorkerSymmetry
INVARIANT FailureRetried
