SPECIFICATION Spec
CONSTANTS
  Name = {"a", "b", "c"}
  Root = "root"
  Version = {1, 2, 3}
  Worlds <- AllWorlds
  MaxNodes = 12
INVARIANT
  ClosuresCannotConflict
CHECK_DEADLOCK FALSE
