SPECIFICATION FairFrameSpec
CONSTANTS
  Update = {u1, u2, u3, u4}
  DeferredMax = 2
INVARIANTS
  BufferInv
  ReportedIsShown
  WindowMirrorsFront
PROPERTIES
  FrontUntouched
  PauseEnds
  FeedSpec
