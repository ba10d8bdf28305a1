CONSTANTS
  a = a
  b = b
  Windows = {1, 2}
  DayOf <- MCDayOf
  Parts = {1, 2}
  Journals = {a, b}
  FirstJournal = a
  MaxSeals = 2
  QuarantineAfter = 1
  MaxUploaders = 2
  MaxFaults = 1
SPECIFICATION FairSpec
PROPERTIES GoneOnlyWhenHeld NothingForgotten
CHECK_DEADLOCK FALSE
