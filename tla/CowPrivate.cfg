SPECIFICATION Spec
CONSTANTS
    Env = {e1, e2}
    NPAGES = 13
    NVA = 5
    PDX <- MCPDX
    MaxRef = 15
    Value = {0, 1}
    ForkKinds = {"cow", "v0", "dumb"}
    MaxForks = 2
CHECK_DEADLOCK FALSE
INVARIANT CowIsHandled
PROPERTY IsPrivateMemory
SYMMETRY Symmetry
