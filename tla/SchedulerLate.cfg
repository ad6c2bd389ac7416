SPECIFICATION Spec
CONSTANTS
  Jobs = {1}
  Crons = {"ending"}
  Occ <- MCOccEnding
  Period = 5
  PreRead = 2
  ScanSleep = 1
  StartDelay = 2
  Clock0 = 1
  MaxClock = 9
  MaxOps = 1
  MaxFails = 0
  MayCrash = FALSE
  MayStop = FALSE
  TrigLag = 1
  ScanLag = 0
  StartLag = 0
INVARIANT MissedIsTaken
