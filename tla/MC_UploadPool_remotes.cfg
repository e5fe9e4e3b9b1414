SPECIFICATION FewSpec
CONSTANTS
  r1 = r1
  r2 = r2
  p1 = p1
  p2 = p2
  x = x
  y = y
  z = z
  u = u
  v = v
  w1 = w1
  w2 = w2
  Name = {x, y, z}
  Url = {u, v}
  None = None
  Ref = {r1, r2}
  PackagesOf <- Packages
  Registered <- Two
  Admin = {a1}
  Worker = {w1, w2}
  MaxCommands = 2
  MaxKills = 1
  MaxFailures = 1
INVARIANTS
  RemotesKnown
  OkMeansUploaded
  PackagesFollow
PROPERTY
  UploadEnds
CHECK_DEADLOCK FALSE
