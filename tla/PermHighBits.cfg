SPECIFICATION Spec
CONSTANTS
    NULL = NULL
    Env <- TwoEnvs
    NPAGES = 6
    VA <- TwoPages
    PTX <- OwnTables
    KTABLES = 1
    BootPages <- FirstPage
    REFBITS = 3
    Perms <- HighPerms
INVARIANT RefCountsExact
CHECK_DEADLOCK TRUE
