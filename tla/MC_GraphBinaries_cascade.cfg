SPECIFICATION Spec
CONSTANT Worlds <- Chains
INVARIANT CascadeBuilds
CHECK_DEADLOCK FALSE
