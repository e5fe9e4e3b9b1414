CONSTANTS
  t1 = t1  t2 = t2  t3 = t3  p1 = p1  p2 = p2
  Thread <- ThreeThreads
  Process <- Processes
  Placements <- Mixed
  Nobody = Nobody
  None = None
  Chunks = 2
  Retry = 1
  Gzip = FALSE
  MaxDownloads = 3
  MaxKills = 0
  MaxUpsets = 0
SPECIFICATION Spec
INVARIANT AlwaysWhole
CHECK_DEADLOCK FALSE
