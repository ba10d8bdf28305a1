SPECIFICATION FairSpec
CONSTANTS
  Sources = {"Mic"}
  Prefs = {"window_titles", "page_addresses"}
  Steps = {"Mic", "Done"}
  Copies = {"Portable"}
  MaxQueue = 2
  MaxFaults = 1
INVARIANTS OffHolds ConsentOnDisk WindowTruthful
PROPERTIES OffTakesEffect
CHECK_DEADLOCK FALSE
