SPECIFICATION MCSpec
CONSTANTS
  p1 = p1
  p2 = p2
  r1 = r1
  r2 = r2
  a = a
  b = b
  NoRev = NoRev
  None = None
  Partial = Partial
  Unread = Unread
  Proc = {p1}
  RRev = {r1, r2}
  PRev = {a, b}
  Remote <- SomeRemote
  Commands <- AllCommands
  StopsAt <- NotRemoving
  MaxCommands = 3
  MaxStops = 1
  Sessions = {"any"}
CHECK_DEADLOCK FALSE
INVARIANT MetadataAgrees
