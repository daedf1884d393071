\* The same instance as ClientConn.cfg; the server sends raw rectangles too, as it
\* always may.
SPECIFICATION ConnSpec
CONSTANTS
  Auths <- AuthLists
  NativeFormats <- Formats
  Encodings = {"tight", "zrle"}
  RectLimit = 2
  MaxSent = 2
  MaxEvents = 1
INVARIANT FormatHonoured
\* The connection ends, by an error, by a server that is gone, or at the bounds.
CHECK_DEADLOCK FALSE
