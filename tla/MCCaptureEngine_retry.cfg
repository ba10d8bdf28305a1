SPECIFICATION FairSpec
CONSTANTS
  Kinds = {"Screen", "DesktopActivity"}
  SegmentSecs = 2
  ThreadStates = {"Inactive", "Active", "Faulted"}
  FirstStates = {"Inactive", "Active"}
  StartErrors = {"Err"}
  Failures = {}
  PauseLengths = {1}
  Threshold = 2
  InitialDelay = 1
  MaxDelay = 2
  Multiplier = 2
  StorageCap = 2
  MaxTime = 2
  MaxJump = 1
  MaxQueue = 0
  MaxTrouble = 0
  ClockMayStepBack = FALSE
  PolicyMayChange = FALSE
  MayRestart = FALSE
INVARIANTS TypeOK 
PROPERTIES GiveUpHolds TimedPauseEnds
