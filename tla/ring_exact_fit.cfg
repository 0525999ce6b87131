\* The deployed ring: PROC_RING_BUF_SIZE bytes, SCM and IDM messages.
CONSTANTS
  Size = 512
  Sizes = {22, 102}
  Tags = {7}
  OutSizes = {0}
  MaxRejects = 0

SPECIFICATION Spec
PROPERTY HeadClearOfTail
