SPECIFICATION FairForkSpec
CONSTANTS
    NULL = NULL
    Env <- ParentAndChild
    NPAGES = 13
    VA <- FourPages
    PTX <- TwoTables
    KTABLES = 1
    BootPages <- DataAndStack
    REFBITS = 3
    Perms <- NoPerms
    PFTEMP = 0
    STACK = 2
    UXSTACK = 3
    MaxForks = 2
INVARIANT ForkTypeOK
PROPERTY PrivateMemory
PROPERTY StoreCompletes
INVARIANT OrphanOnlyByPanic
CHECK_DEADLOCK TRUE
