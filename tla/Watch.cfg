SPECIFICATION FairSpec
CONSTANTS
  Events = {"object", "status"}
  Manifests = {"object"}
  Size = 2
  MaxEvents = 4
INVARIANTS TypeOK EventsInOrder
PROPERTIES RunReturnsWhenDone StuckForGood
CHECK_DEADLOCK FALSE
