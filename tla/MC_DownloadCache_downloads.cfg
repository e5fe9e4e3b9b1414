CONSTANTS
  t1 = t1  t2 = t2  t3 = t3  p1 = p1  p2 = p2
  Thread <- TwoThreads
  Process <- Processes
  Placements <- Unmixed
  Nobody = Nobody
  None = None
  Chunks = 2
  Retry = 1
  Gzip = FALSE
  MaxDownloads = 3
  MaxKills = 1
  MaxUpsets = 1
SPECIFICATION LiveSpec
INVARIANTS HandedWhole CleanIsWhole MarksBalanced
PROPERTY DownloadEnds
CHECK_DEADLOCK FALSE
