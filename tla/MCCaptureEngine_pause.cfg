SPECIFICATION Spec
CONSTANTS
  Kinds = {"Screen", "DesktopActivity"}
  SegmentSecs = 2
  ThreadStates = {"Active"}
  FirstStates = {"Active"}
  StartErrors = {}
  Failures = {{"encoder", "pause"}}
  PauseLengths = {1}
  Threshold = 2
  InitialDelay = 1
  MaxDelay = 2
  Multiplier = 2
  StorageCap = 2
  MaxTime = 2
  MaxJump = 2
  MaxQueue = 1
  MaxTrouble = 2
  ClockMayStepBack = FALSE
  PolicyMayChange = TRUE
  MayRestart = TRUE
INVARIANTS PausedIsSilent PausedActivityStops NoRevokedWrite OwnerPauseHolds
