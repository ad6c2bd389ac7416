SPECIFICATION Spec
CONSTANTS
  Jobs = {1}
  Crons = {"ending"}
  Occ <- MCOccEnding
  Period = 5
  PreRead = 2
  ScanSleep = 1
  StartDelay = 2
  Clock0 = 2
  MaxClock = 6
  MaxOps = 2
  MaxFails = 1
  MayCrash = TRUE
  MayStop = TRUE
  TrigLag = 1
  ScanLag = 1
  StartLag = 0
INVARIANTS NotEarly OnceInv EarlyInv MatchInv
PROPERTY ImplementsCronFire
