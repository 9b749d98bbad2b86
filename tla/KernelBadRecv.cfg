SPECIFICATION Spec
CONSTANTS
    NCPU = 2
    NENV = 2
    NBOOT = 2
    MaxGen = 1
    Policy = "rr"
    BOOST_CYCLES = 1
    DEFAULT_PRIORITY = 1
    UserPriorities = {}
    UserCalls = {"recv", "send"}
    Misuse = {"badrecv"}
INVARIANTS
    OneCpuPerEnv
