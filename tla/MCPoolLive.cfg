SPECIFICATION FairSpec
CONSTANTS
    Subjects = {s1, s2}
    Fingerprints = {f1}
    Requests = {r1, r2}
    Listeners = {l1}
    NoKey = nokey
    Reaper = reaper
    Closer = closer
    MaxProcesses = 1
    MaxPerSubject = 1
    IdleTTL = 1
    AgeCap = 1
    MaxStarts = 2
    MaxRejected = 1
INVARIANTS
    SubscriptionsFollow
PROPERTIES
    PromiseKept
    NobodyWaits
    UnusedGoes
CHECK_DEADLOCK FALSE
