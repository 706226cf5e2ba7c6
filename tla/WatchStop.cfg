SPECIFICATION FairSpec
CONSTANTS
  Events = {"object"}
  Manifests = {"object"}
  Size = 2
  MaxEvents = 4
PROPERTY StopReturns
CHECK_DEADLOCK FALSE
