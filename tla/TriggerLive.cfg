SPECIFICATION FairSpec
CONSTANTS
  w1 = w1
  w2 = w2
  Jobs = {1}
  Workers = {w1, w2}
  QueueCap = 1
  MaxRetry = 1
  AlarmResults = {"ALARM_FAIL"}
  MaxFires = 2
  MaxLogs = 3
  MaxFails = 0
  MayLose = FALSE
  MayDelete = FALSE
PROPERTIES NoneStaysOpen ImplementsRetryPolicy
