SPECIFICATION FairSpec
CONSTANT MaxProbes = 2
INVARIANTS
    TypeOK
    OneVerdict
    PinHonoured
    EraRight
PROPERTIES
    ProbeBounded
    CloseEnds
CHECK_DEADLOCK FALSE
