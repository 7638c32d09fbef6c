SPECIFICATION Spec
CONSTANTS
    Subjects = {s1, s2, s3}
    Fingerprints = {f1, f2}
    Requests = {r1, r2}
    Listeners = {}
    NoKey = nokey
    Reaper = reaper
    Closer = closer
    MaxProcesses = 2
    MaxPerSubject = 1
    IdleTTL = 1
    AgeCap = 1
    MaxStarts = 3
    MaxRejected = 0
SYMMETRY Symmetry
INVARIANTS
    WithinLimits
    Isolation
    BusyKept
    OnlyEvictedSurviveClose
PROPERTIES
    BackendsLive
CHECK_DEADLOCK FALSE
