SPECIFICATION Spec
CONSTANTS
  Kinds = {"Mic", "DesktopActivity"}
  SegmentSecs = 2
  ThreadStates = {"Active"}
  FirstStates = {"Active"}
  StartErrors = {}
  Failures = {{"append", "finalize"}}
  PauseLengths = {}
  Threshold = 2
  InitialDelay = 1
  MaxDelay = 2
  Multiplier = 2
  StorageCap = 2
  MaxTime = 4
  MaxJump = 2
  MaxQueue = 0
  MaxTrouble = 2
  ClockMayStepBack = TRUE
  PolicyMayChange = FALSE
  MayRestart = FALSE
INVARIANTS StorageHonest NoRowForSealedWindow OwedSegmentsExist
