\* A header of one byte.  146 is 10010010: bit offset 2, and bits that differ
\* between a byte and its shifted self; 0 needs no shift and is not valid.  The
\* buffer is a multiple of four long, as amr.c's is, so exact fits are in reach.
CONSTANTS
  Size = 24
  Sizes = {2, 6}
  Tags = {0, 146}
  OutSizes = {0}
  MaxRejects = 1
  HdrSize = 1
  Valid = {146}

SPECIFICATION FitLoopSpec
INVARIANTS LoopTypeOK OthersIntact ParsedRight
PROPERTIES KeepsDraining
