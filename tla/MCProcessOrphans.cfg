SPECIFICATION OrphansSpec
CONSTANT Helpers = {h1}
INVARIANT NoOrphans
CHECK_DEADLOCK FALSE
