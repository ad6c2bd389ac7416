SPECIFICATION DispatchFairSpec
CONSTANTS
  a = a
  b = b
  here = here
  there = there
  Logs <- MCLogs
  Timed <- MCTimed
  Hanging <- MCHanging
  MaxKills = 1
  Addresses = {here, there}
  Here = here
  Lists <- MCLists
  Strategies <- MCStrategies
  Lossy <- MCLossy
INVARIANTS DispatchTypeOK ReportsTrue DrainedAtEnd RowTrue FailOverFinds DispatchIInv
PROPERTIES ImplementsRole ImplementsSystemRole RowCompletes
CHECK_DEADLOCK FALSE
