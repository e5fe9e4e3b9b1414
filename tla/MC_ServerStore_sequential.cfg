CONSTANTS
  w1 = w1  w2 = w2  r1 = r1  r2 = r2  p1 = p1  p2 = p2
  Recipe = Recipe
  NoFile = NoFile
  Corrupt = Corrupt
  NotFound = NotFound
  Unasked = Unasked
  Worker <- OneWorker
  RRev <- RRevs
  PRev <- PRevs
  Requests <- AllRequests
  Migrated <- NoneMigrated
  MaxEntries = 2
  MaxCrashes = 1
SPECIFICATION Spec
VIEW Seen
SYMMETRY Alike
INVARIANTS AckedServed PackagesHaveRecipe NothingLeft
