SPECIFICATION Spec
CONSTANTS
    git = git
    sh = sh
    TOKEN = TOKEN
    PATH = PATH
    Commands <- MCCommands
    EnvKeys <- MCEnvKeys
    Lists <- MCLists
    Settings <- Dispatched
    Characters <- MCCharacters
    Backends <- MCBackends
    Revisions <- MCRevisions
    SupportedVersions <- MCVersions
    MaxName = 7
    DegradedTTL = 5000
    DefaultTTL = 60000
INVARIANT MissingTold
CHECK_DEADLOCK FALSE
