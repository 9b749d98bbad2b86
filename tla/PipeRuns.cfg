SPECIFICATION FairSpec
CONSTANTS
    N = 4
    Cap = 1
    Items = 2
    ForkFails = TRUE
    Redirections = TRUE
INVARIANTS
    WaitsForAll
    NothingLost
    NoLeakedEnds
PROPERTY
    PipelineEnds
CHECK_DEADLOCK FALSE
