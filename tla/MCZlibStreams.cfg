SPECIFICATION MCSpec
CONSTANTS
  Stream = {0, 1}
  Filters = {"copy", "palette", "gradient"}
  Pixels = {p1, p2}
  MaxRects = 5
  Byte = {b1, b2}
  HistLen = 3
  MaxCopy = 4
  MaxPlain = 7
INVARIANTS
  DecodedIsEncoded
  ReadersInStep
  WindowIsHistory
  NothingSkipped
  InflatedAll
  NeverCorrupt
PROPERTIES
  RefusedAtFirstUse
