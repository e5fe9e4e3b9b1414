CONSTANTS
  p1 = p1
  p2 = p2
  p3 = p3
  Proc <- ThreeProcs
  NoNumber = NoNumber
  MaxUnlinks = 2
SPECIFICATION Spec
SYMMETRY Alike
INVARIANTS LockGuarantee CountAgrees
CHECK_DEADLOCK FALSE
