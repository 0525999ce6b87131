CONSTANTS
  NoByte = NoByte
  Calls <- HopCalls

SPECIFICATION Spec
INVARIANT FramesWhole
