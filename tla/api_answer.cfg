CONSTANTS
  NoByte = NoByte
  Calls <- AnswerCalls

SPECIFICATION Spec
INVARIANT AnswerArrives
