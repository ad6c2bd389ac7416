SPECIFICATION Spec
CONSTANTS
  Nodes = {1}
  Apps = {1}
  AppOf <- MCAppOf
  Others = {}
  Beat = 1
  DeadTime = 0
  PostTimeout = 1
  MonLag = 1
  MaxCalls = 1
  MaxRare = 0
  RowCap = 1
  Cap = 7
INVARIANT DeadAreUnlisted
