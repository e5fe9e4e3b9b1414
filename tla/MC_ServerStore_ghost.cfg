CONSTANTS
  w1 = w1  w2 = w2  r1 = r1  r2 = r2  p1 = p1  p2 = p2
  Recipe = Recipe
  NoFile = NoFile
  Corrupt = Corrupt
  NotFound = NotFound
  Unasked = Unasked
  Worker <- OneWorker
  RRev <- RRevs
  PRev <- OnePRev
  Requests <- Rotation
  Migrated <- NoneMigrated
  MaxEntries = 3
  MaxCrashes = 0
SPECIFICATION Spec
INVARIANT LatestServed
