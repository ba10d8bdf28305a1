SPECIFICATION FairSpec
CONSTANTS
  Kinds = {"Mic", "DesktopActivity"}
  SegmentSecs = 2
  ThreadStates = {"Active"}
  FirstStates = {"Active"}
  StartErrors = {}
  Failures = {{"open", "append", "finalize", "write"}}
  PauseLengths = {}
  Threshold = 2
  InitialDelay = 1
  MaxDelay = 1
  Multiplier = 2
  StorageCap = 2
  MaxTime = 6
  MaxJump = 1
  MaxQueue = 1
  MaxTrouble = 1
  ClockMayStepBack = FALSE
  PolicyMayChange = FALSE
  MayRestart = FALSE
 
PROPERTIES StorageRecovers
