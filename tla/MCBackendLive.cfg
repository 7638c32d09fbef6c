SPECIFICATION FairSpec
CONSTANTS
    Requests = {r1, r2}
    Closer = closer
    Nobody = nobody
    Listeners = {}
    MaxStarts = 1
PROPERTIES
    RequestReturns
    CloseEnds
CHECK_DEADLOCK FALSE
