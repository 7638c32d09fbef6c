SPECIFICATION FairSpec
CONSTANTS
    Requests = {r1, r2, r3}
    Backends = {b1, b2, b3}
    Main = main
    Reaper = reaper
    Files <- MCFiles
    DefaultLimits <- MCDefaults
    Nobody = none
INVARIANTS
    InFlightSpared
    NothingSurvives
    StartedRight
PROPERTIES
    ShutdownEnds
CHECK_DEADLOCK FALSE
