SPECIFICATION MCFairSpec
CONSTANTS
  Jobs = {1, 2}
  Crons = {"often"}
  Occ <- MCOccOften
  Period = 6
  PreRead = 4
  ScanSleep = 1
  StartDelay = 4
  Clock0 = 2
  MaxClock = 10
  MaxOps = 3
  MaxFails = 0
  MayCrash = FALSE
  MayStop = FALSE
  TrigLag = 0
  ScanLag = 1
  StartLag = 0
INVARIANTS TypeOK AtMostOnce OnTime NoSkip TimelyInv SkipInv
PROPERTY StartedFires
