CONSTANTS
  c1 = c1
  c2 = c2
  h1 = h1
  h2 = h2
  d = d
  Client <- Clients
  Handler <- Handlers
  Reader = d
  Absent = Absent
  Garbled = Garbled
  Files = 3
  Setups <- NoOverwrites
  MaxRuns = 2
  MaxFaults = 0
SPECIFICATION RevisionSpec
PROPERTY NoOverwrite
CHECK_DEADLOCK FALSE
