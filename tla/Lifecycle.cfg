SPECIFICATION SysSpec
CONSTANTS
    cpu0 = cpu0
    cpu1 = cpu1
    cpu2 = cpu2
    NULL = NULL
    CPU <- MCCPU
    cpus <- MCcpus
    BSP = cpu0
    LOG2NENV = 1
    ENVGENSHIFT = 1
    IDBITS = 4
    NBOOTENVS = 1
    Syscalls <- LifecycleSyscalls
    Values <- OneValue
    Disciplined <- BothCalls
    SystemTables <- MCSystemTables
    NCPU = 2
    SLACK = 1
    MaxMapChanges = 3
INVARIANT TypeOK
INVARIANT CurenvMatchesStatus
INVARIANT FreeListExact
INVARIANT BigKernelLock
INVARIANT EnvIdsWellFormed
INVARIANT BootTypeOK
INVARIANT Acpi20Preferred
INVARIANT NcpuCountsEnabled
PROPERTY DestroyedBySelfOrParent
PROPERTY HaltsOnlyWhenIdle
CHECK_DEADLOCK TRUE
