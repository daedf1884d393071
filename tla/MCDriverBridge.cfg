\* Two drivers at one address, one after the other, that open two sessions in all.
SPECIFICATION BridgeSpec
CONSTANTS
  Name = {n1, n2}
  MaxOpens = 2
  MaxInits = 2
  MaxHeld = 1
  Address = {1, 2}
  Py_None = Py_None
SYMMETRY Symmetry
INVARIANTS
  TablesAgree
  NothingLeaked
  ResultsShowFront
  RefCounts
  ContractKept
  OneRenderer
\* The process may die.
CHECK_DEADLOCK FALSE
