SPECIFICATION MCSpec
CONSTANTS
  p1 = p1
  p2 = p2
  r1 = r1
  r2 = r2
  a = a
  b = b
  NoRev = NoRev
  None = None
  Partial = Partial
  Unread = Unread
  Proc = {p1, p2}
  RRev = {r1, r2}
  PRev = {a, b}
  Remote <- SomeRemote
  Commands <- AllCommands
  StopsAt <- NotRemoving
  MaxCommands = 5
  MaxStops = 3
  Sessions = {"installs", "alone"}
CHECK_DEADLOCK FALSE
INVARIANTS CleanIsWhole MetadataAgrees MarksBalanced UsedIsWhole UsedAsDecidedAlone
