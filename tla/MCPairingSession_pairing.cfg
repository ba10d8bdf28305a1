SPECIFICATION FairSpec
CONSTANTS
  Kinds = {"link", "here", "found", "native"}
  MaxCerts = 2
  Handoffs = {1}
  OlderSound = {TRUE, FALSE}
  MaxFaults = 1
  MaxGen = 1
INVARIANTS GateNeedsConsent RefusedStaysShut
PROPERTIES CredentialKept RefusalFinishes SlotIsFreed
CHECK_DEADLOCK FALSE
