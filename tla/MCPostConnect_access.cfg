SPECIFICATION Spec
CONSTANTS
  FirstEnds = 1
  MaxEnds = 2
  MaxTokens = 2
  MaxFacts = 1
  Failures = {"failed", "uncertain"}
  MaxFaults = 2
INVARIANTS  Served
PROPERTIES NewerAccessKept
CHECK_DEADLOCK FALSE
