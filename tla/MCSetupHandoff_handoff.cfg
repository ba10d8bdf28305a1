SPECIFICATION HandoffSpec
CONSTANTS
  Kinds = {"native"}
  MaxCerts = 1
  Handoffs = {1, 2}
  OlderSound = {}
  MaxFaults = 2
  MaxGen = 0
  MaxDeliveries = 3
INVARIANTS ReceiptTruthful
PROPERTIES DraftKept EndedNotActivated
CHECK_DEADLOCK FALSE
