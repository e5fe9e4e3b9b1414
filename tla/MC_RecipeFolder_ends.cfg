CONSTANTS
  p1 = p1  p2 = p2  a = a  b = b  shared = shared  r1 = r1  r2 = r2
  Proc <- Procs
  Package <- Packages
  Folder <- Folders
  BuildFolders <- BuildIds
  Rev <- Revs
  None = None
  Torn = Torn
  Nobody = Nobody
  MaxCommands = 2
  MaxStops = 1
SPECIFICATION LiveSpec
INVARIANT MarksBalanced
PROPERTY CommandEnds
CHECK_DEADLOCK FALSE
