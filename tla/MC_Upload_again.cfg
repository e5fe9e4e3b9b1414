CONSTANTS
  c1 = c1
  c2 = c2
  h1 = h1
  h2 = h2
  d = d
  Client <- Clients
  Handler <- Handlers
  Reader = d
  Absent = Absent
  Garbled = Garbled
  Files = 3
  Setups <- OneRecipe
  MaxRuns = 2
  MaxFaults = 1
SPECIFICATION RevisionSpec
INVARIANT SuccessMeansAll
CHECK_DEADLOCK FALSE
