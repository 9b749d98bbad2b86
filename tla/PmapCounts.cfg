SPECIFICATION Spec
CONSTANTS
    Env = {e1, e2}
    NPAGES = 5
    NVA = 2
    PDX <- MCPDX
    MaxRef = 15
    Cpu = {c0, c1}
    LoadVas <- MCLoad
    Perms <- MCPermsW
    Misuse = {}
SYMMETRY Symmetry
CHECK_DEADLOCK FALSE
INVARIANTS RefsExact OneUse MmuCoherent
PROPERTY LostOnlyWhenFull
