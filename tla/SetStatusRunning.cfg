SPECIFICATION Spec
CONSTANTS
    cpu0 = cpu0
    cpu1 = cpu1
    NULL = NULL
    CPU <- MCCPU
    BSP = cpu0
    LOG2NENV = 1
    ENVGENSHIFT = 1
    IDBITS = 4
    NBOOTENVS = 1
    Syscalls <- LifecycleSyscalls
    Values <- OneValue
    Disciplined <- OnlyDestroy
INVARIANT RunningOnOneCpu
CHECK_DEADLOCK TRUE
