SPECIFICATION FairSpec
CONSTANTS
    git = git
    sh = sh
    TOKEN = TOKEN
    PATH = PATH
    Commands <- MCCommands
    EnvKeys <- MCEnvKeys
    Lists <- MCLists
    Settings <- MCSettings
    Characters <- MCCharacters
    Backends <- MCBackends
    Revisions <- MCRevisions
    SupportedVersions <- MCVersions
    MaxName = 7
    DegradedTTL = 5000
    DefaultTTL = 60000
INVARIANTS
    TypeOK
    StepUpHelps
    WithinPrivileges
    SurfaceRight
    EntryFound
    Negotiates
    ToldRight
PROPERTIES
    ListingSettles
CHECK_DEADLOCK FALSE
