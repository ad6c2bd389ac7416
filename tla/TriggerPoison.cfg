SPECIFICATION FairSpec
CONSTANTS
  w1 = w1
  w2 = w2
  Jobs = {1, 2}
  Workers = {w1}
  QueueCap = 2
  MaxRetry = 0
  AlarmResults = {"ALARM_FAIL"}
  MaxFires = 2
  MaxLogs = 2
  MaxFails = 0
  MayLose = FALSE
  MayDelete = TRUE
PROPERTY NoneStaysOpen
