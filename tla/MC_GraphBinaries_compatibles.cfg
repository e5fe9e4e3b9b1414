SPECIFICATION Spec
CONSTANT Worlds <- Compatibles
INVARIANT InstalledAsDecided
CHECK_DEADLOCK FALSE
