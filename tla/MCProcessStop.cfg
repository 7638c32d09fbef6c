SPECIFICATION FairSpec
CONSTANT Helpers = {h1, h2}
INVARIANT NothingRuns
PROPERTY StopEnds
CHECK_DEADLOCK FALSE
