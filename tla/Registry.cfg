SPECIFICATION FairSpec
CONSTANTS
  Nodes = {1}
  Apps = {1}
  AppOf <- MCAppOf
  Others = {1}
  Beat = 1
  DeadTime = 0
  PostTimeout = 1
  MonLag = 1
  MaxCalls = 2
  MaxRare = 2
  RowCap = 1
  Cap = 4
INVARIANTS TypeOK ListedWereHeard RegistryIInv
PROPERTIES LiveRegistered
