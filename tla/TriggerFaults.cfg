SPECIFICATION Spec
CONSTANTS
  w1 = w1
  w2 = w2
  Jobs = {1}
  Workers = {w1, w2}
  QueueCap = 2
  MaxRetry = 1
  AlarmResults = {"ALARM_FAIL"}
  MaxFires = 1
  MaxLogs = 2
  MaxFails = 1
  MayLose = TRUE
  MayDelete = TRUE
SYMMETRY WorkerSymmetry
INVARIANTS TypeOK OnlyFailedRetried TriggerIInv
PROPERTY ResultsKept
