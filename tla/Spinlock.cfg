SPECIFICATION Spec
CONSTANTS
    cpu0 = cpu0
    cpu1 = cpu1
    cpu2 = cpu2
    NULL = NULL
    CPU <- ThreeCPU
    DEBUG_SPINLOCK = TRUE
    Misuse = TRUE
INVARIANT TypeOK
INVARIANT DebugChecksExact
INVARIANT MutualExclusion
CHECK_DEADLOCK TRUE
