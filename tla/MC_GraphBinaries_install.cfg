SPECIFICATION Spec
CONSTANT Worlds <- AllWorlds
INVARIANTS IdsAgree InstalledAsDecided NothingNeededSkipped
CHECK_DEADLOCK FALSE
