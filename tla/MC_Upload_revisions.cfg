CONSTANTS
  c1 = c1
  c2 = c2
  h1 = h1
  h2 = h2
  d = d
  Client <- Clients
  Handler <- Handlers
  Reader = d
  Absent = Absent
  Garbled = Garbled
  Files = 3
  Setups <- Revisions
  MaxRuns = 2
  MaxFaults = 2
SPECIFICATION RevisionSpec
SYMMETRY Alike
INVARIANTS PackagesComplete RecipesComplete ManifestMeansComplete InstallMeansComplete
CHECK_DEADLOCK FALSE
