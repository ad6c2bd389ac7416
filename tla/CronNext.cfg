SPECIFICATION FairSpec
CONSTANTS
  SecondsPerMinute = 3
  MinutesPerHour = 3
  HoursPerDay = 4
  FirstYear = 2019
  LastYear = 2028
  MaxYear = 2023
  EndlessYear = 2025
  Texts <- MCTexts
  Afters <- MCAfters
INVARIANTS TypeOK FieldsMean AnswerIsNext CronInv
PROPERTIES Ends
CHECK_DEADLOCK FALSE
