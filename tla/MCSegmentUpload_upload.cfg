SPECIFICATION FairSpec
CONSTANTS
  Sources = {"Mic", "DesktopActivity"}
  MaxRuns = 2
  MaxFaults = 1
  MayQuitEarly = TRUE
  QuarantineAfter = 1
INVARIANTS ActivityKept
PROPERTIES ImplementsCustody Delivered SealsCompleted
CHECK_DEADLOCK FALSE
