SPECIFICATION FairSpec
CONSTANTS
  Update = {u1}
  DeferredMax = 1
  Bell = bell
  Malformed = malformed
  QueueCap = 1
  StartTimeout = 1
  Subscriptions = {0}
  Calls = {"Close", "SetSubscription"}
  Faults = {"dial", "refuse", "break", "malformed", "encoding"}
  MaxWire = 1
CHECK_DEADLOCK FALSE
INVARIANTS
  SocketReleased
  FailureReachesAgent
PROPERTIES
  CloseReleases
  MainLoopErrorSurfaces
