SPECIFICATION FairSpec
CONSTANTS
    cpu0 = cpu0
    cpu1 = cpu1
    NULL = NULL
    CPU <- OneCPU
    BSP = cpu0
    LOG2NENV = 2
    ENVGENSHIFT = 2
    IDBITS = 4
    NBOOTENVS = 2
    Syscalls <- FewSyscalls
    Values <- OneValue
    Disciplined <- BothCalls
PROPERTY RunnableIsScheduled
CHECK_DEADLOCK TRUE
