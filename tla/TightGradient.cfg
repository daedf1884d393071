SPECIFICATION TightSpec
CONSTANTS
  Stream = {0, 1}
  Filters = {"copy", "palette", "gradient"}
  Pixels = {p1, p2}
  MaxRects = 4
INVARIANT FiltersReadTheirPixels
CHECK_DEADLOCK FALSE
