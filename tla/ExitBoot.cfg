SPECIFICATION Spec
CONSTANTS
    cpu0 = cpu0
    cpu1 = cpu1
    cpu2 = cpu2
    NULL = NULL
    SystemTables <- MCSystemTables
    NCPU = 2
    SLACK = 1
    MaxMapChanges = 4
INVARIANT KernelOwnsMachine
CHECK_DEADLOCK TRUE
