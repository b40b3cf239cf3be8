SPECIFICATION Spec
CONSTANTS
    cpu0 = cpu0
    cpu1 = cpu1
    NULL = NULL
    CPU <- MCCPU
    BSP = cpu0
    LOG2NENV = 1
    ENVGENSHIFT = 1
    IDBITS = 3
    NBOOTENVS = 1
    Syscalls <- IpcSyscalls
    Values <- TwoValues
    Disciplined <- BothCalls
INVARIANT ReceiverBlocked
PROPERTY MessageDeliveredOnce
INVARIANT MonitorStrandsNobody
CHECK_DEADLOCK TRUE
