SPECIFICATION LiveSpec
CONSTANTS
  Update = {u1, u2, u3}
  DeferredMax = 1
  Bell = bell
  Malformed = malformed
  QueueCap = 1
  StartTimeout = 0
  Subscriptions = {0, 2}
  Calls = {}
  Faults = {}
  MaxWire = 2
CHECK_DEADLOCK FALSE
INVARIANTS
  NothingLostOrReordered
  CycleNeverDies
PROPERTIES
  EveryUpdateShown
