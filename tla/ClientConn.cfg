\* Every version, offer and list of client types; updates of up to one rectangle
\* more than the limit.
SPECIFICATION ConnSpec
CONSTANTS
  Auths <- AuthLists
  NativeFormats <- Formats
  Encodings = {"tight", "zrle"}
  RectLimit = 2
  MaxSent = 2
  MaxEvents = 1
INVARIANTS
  ConnTypeOK
  InStep
  EncodingsKnown
  OnlyForeignRefused
PROPERTY HandshakeEnds
\* The connection ends, by an error, by a server that is gone, or at the bounds.
CHECK_DEADLOCK FALSE
