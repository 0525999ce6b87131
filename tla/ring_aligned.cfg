\* Messages of 4 and 8 bytes with their size field in a buffer of a multiple of
\* four, as in amr.c: messages end exactly at the end of the buffer, and those
\* that fit nowhere else are the exact fits FitSpec stops at.
CONSTANTS
  Size = 24
  Sizes = {2, 6}
  Tags = {0, 7}
  OutSizes = {0, 3}
  MaxRejects = 2

SPECIFICATION FitSpec
INVARIANTS TypeOK LayoutInv CallInv ViewStable FreeIsExact EmptyTakesAll ReportsAreReal
PROPERTIES RefinesFifo
