SPECIFICATION Spec
CONSTANTS
    NCPU = 2
    NENV = 2
    NBOOT = 1
    MaxGen = 1
    Policy = "pr"
    BOOST_CYCLES = 2
    DEFAULT_PRIORITY = 1
    UserPriorities = {}
    UserCalls = {"exofork", "set_status", "destroy", "set_upcall", "fault"}
    Misuse = {"restart", "redestroy", "overflow"}
INVARIANTS
    BigKernelLock
    CurenvSet
