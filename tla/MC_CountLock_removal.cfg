CONSTANTS
  p1 = p1
  p2 = p2
  p3 = p3
  Proc <- TwoProcs
  NoNumber = NoNumber
  MaxUnlinks = 1
SPECIFICATION Spec
INVARIANT WriterExclusive
CHECK_DEADLOCK FALSE
