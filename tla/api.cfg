CONSTANTS
  NoByte = NoByte
  Calls <- SoundCalls

SPECIFICATION Spec
INVARIANTS TypeOK NothingLost FramesWhole FieldsFresh
