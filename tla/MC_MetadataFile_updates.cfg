CONSTANTS
  t1 = t1  t2 = t2  t3 = t3  p1 = p1  p2 = p2  p3 = p3
  Thread <- Threads
  Process <- Processes
  Placements <- SomePlacements
  Nobody = Nobody
  Empty = Empty
  MaxUpdates = 3
  MaxKills = 1
SPECIFICATION LiveSpec
INVARIANTS UpdatesKept
PROPERTY UpdateEnds
CHECK_DEADLOCK FALSE
