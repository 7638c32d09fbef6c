SPECIFICATION Spec
CONSTANT MaxProbes = 1
INVARIANT EraSettled
CHECK_DEADLOCK FALSE
