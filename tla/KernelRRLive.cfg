SPECIFICATION FairSpec
CONSTANTS
    NCPU = 2
    NENV = 3
    NBOOT = 3
    MaxGen = 2
    Policy = "rr"
    BOOST_CYCLES = 1
    DEFAULT_PRIORITY = 1
    UserPriorities = {0}
    UserCalls = {"yield", "recv", "send", "set_priority", "other"}
    Misuse = {}
PROPERTIES
    NoStarvation
    BootCompletes
CHECK_DEADLOCK FALSE
