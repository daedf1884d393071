SPECIFICATION Spec
CONSTANTS
  Update = {u1}
  DeferredMax = 1
  Bell = bell
  Malformed = malformed
  QueueCap = 1
  StartTimeout = 273
  Subscriptions = {0}
  Calls = {"Close", "Render"}
  Faults = {"dial", "bell"}
  MaxWire = 2
CHECK_DEADLOCK FALSE
INVARIANTS
  RetryBudget
  WindowReleased
