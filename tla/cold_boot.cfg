SPECIFICATION LiveSpec
CONSTANTS
  Pids = {p1, p2}
  NoPid = NoPid
  NoProc = NoProc
  NoRec = NoRec
  NoTime = NoTime
  Configs <- Policies
  Hosts <- Platforms
  MaxBoots = 2
  MaxBirths = 2
  MaxSteps = 1
INVARIANTS
  LoopRecordsItsChild
  TakenIsOurs
PROPERTIES
  AutostartNeverDuplicates
  OperatorStopSurvives
  StartsAfterReboot
CHECK_DEADLOCK FALSE
