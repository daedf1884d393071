SPECIFICATION MCSpec
CONSTANTS
  Pictures <- MCPictures
  Formats <- MCFormats
  Palettes <- MCPalettes
  Tile = 3
  Wrap = 9
  MaxWidth = 6
  MaxHeight = 4
  TightWidth = 5
  MaxByte = 2
  Group = 4
  Lengths = {1, 3, 4, 15, 16, 27, 127}
  Uncompressed = 4
  Byte = {b1, b2}
  Size = 6
\* A rectangle ends, and so does a copy.
CHECK_DEADLOCK FALSE
INVARIANTS
  DataTypeOK
  ShownSoFar
  ReadsExactly
  FailsOnlyFor
  ForwardIsByteByByte
  CopiesForward
PROPERTIES
  DataEnds
