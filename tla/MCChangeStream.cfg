SPECIFICATION FairSpec
CONSTANTS
    Sources = {s1, s2}
    Kinds = {tools, prompts}
    NoKind = nokind
    MaxChanges = 4
INVARIANTS
    NeverBlocks
    NothingLost
PROPERTIES
    ChangeTold
    StreamEnds
CHECK_DEADLOCK FALSE
