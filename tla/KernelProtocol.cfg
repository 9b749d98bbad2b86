SPECIFICATION Spec
CONSTANTS
    NCPU = 2
    NENV = 3
    NBOOT = 1
    MaxGen = 1
    Policy = "rr"
    BOOST_CYCLES = 1
    DEFAULT_PRIORITY = 1
    UserPriorities = {}
    UserCalls = {"yield", "exofork", "set_status", "destroy", "recv", "send", "fault", "brkpt", "other"}
    Misuse = {}
INVARIANTS
    ProtocolInv
    OneCpuPerEnv
    NoOrphan
    
PROPERTIES
    ZombieFreedByOwner
