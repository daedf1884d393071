SPECIFICATION FairSpec
CONSTANTS
  Update = {u1, u2}
  DeferredMax = 1
  Bell = bell
  Malformed = malformed
  QueueCap = 1
  StartTimeout = 0
  Subscriptions = {0}
  Calls = {"Close"}
  Faults = {}
  MaxWire = 2
CHECK_DEADLOCK FALSE
PROPERTIES
  MainLoopEnds
