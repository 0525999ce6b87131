CONSTANTS
  Size = 14
  Sizes = {1, 2, 3, 4}
  Tags = {0, 7}
  OutSizes = {0, 2}
  MaxRejects = 1

SPECIFICATION SafeSpec
INVARIANTS LayoutInv CallInv ViewStable
PROPERTIES RefinesFifo
