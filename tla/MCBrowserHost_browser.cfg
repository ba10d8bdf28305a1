SPECIFICATION FairSpec
CONSTANTS
  Batches = {1, 2, 3}
  Deltas = {2}
  MaxPeriods = 5
  FileMax = 2
  SpoolMax = 9
  Failing = {"period", "batch", "finalize", "marker", "tombstone", "remove"}
  MaxFaults = 1
INVARIANTS AcceptedKept SpoolBounded
PROPERTIES ImplementsCustody ReceiptsHold Delivered
CHECK_DEADLOCK FALSE
