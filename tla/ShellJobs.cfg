SPECIFICATION FairSpec
CONSTANTS
    MaxCmds = 3
    Kinds = {"EXEC", "PIPE", "BACK"}
    RawStatuses = {0, 256, 139, 65280}
    ForkFails = TRUE
INVARIANTS
    ForegroundDone
    HandlerSparesForeground
    StatusWithoutBack
PROPERTY
    ZombiesReaped
CHECK_DEADLOCK FALSE
