SPECIFICATION Spec
CONSTANTS
    Requests = {r1, r2, r3}
    Closer = closer
    Nobody = nobody
    Listeners = {l1}
    MaxStarts = 2
SYMMETRY Symmetry
INVARIANTS
    OneProcess
    ClosedForGood
PROPERTIES
    RetryGetsAnother
    HealthySpared
    LifeKept
CHECK_DEADLOCK FALSE
