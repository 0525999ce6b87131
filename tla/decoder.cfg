CONSTANTS
  ByteBits = 2
  HdrSize = 2
  TypeSize = 1
  ScmSize = 2
  ScmPlusSize = 3
  IdmSize = 5
  ScmPre <- ScmPreSmall
  ScmPlusPre <- ScmPlusPreSmall
  IdmPre <- IdmPreSmall
SPECIFICATION MCSpec
INVARIANTS TypeOK AloneIsExact ScmAfterScm
